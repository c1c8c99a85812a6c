------------------------------ MODULE RunLoop ------------------------------
(***************************************************************************)
(* collect.Run (collect/collect.go) from its first refusal to its return,  *)
(* with the outcomes of runUnit, and the three things that end a call      *)
(* early: the operator's stop, the bound (--max-duration) and the          *)
(* cancellation by the blocking watch.                                     *)
(*                                                                         *)
(* A call that waits on the server is a step of its own: it can succeed    *)
(* only while the context it was given is alive, and can always fail.  The *)
(* reads of the contexts that follow a call's return are part of the step  *)
(* that reads them, so that a stop may land between any two of them.       *)
(***************************************************************************)
EXTENDS Naturals, FiniteSets

CONSTANTS
  Units,      \* how many units the plan unfolds into
  Databases,  \* the databases of the plan
  Instance,   \* the target of an instance-scope unit: no database
  Target,     \* the target of each unit
  Bounded     \* whether the run was given a maximum duration

Plan == 1..Units

ASSUME RunAssumption ==
  /\ Units \in Nat \ {0}
  /\ Instance \notin Databases
  /\ Target \in [Plan -> Databases \cup {Instance}]
  /\ Bounded \in BOOLEAN

VARIABLES
  pc,
  \* the contexts
  ctxDead,    \* the operator stopped the run: ctx is dead
  bound,      \* first cause of the bound's context
  cause,      \* first cause of the context of the unit that runs
  late,       \* the deadline of the call itself came before any cause
  \* the locals of the loop
  at,         \* the unit the loop is at
  out,        \* how its runUnit ended
  cut,        \* whether the bound's context was what ended it
  connClosed, \* its connection is gone
  cancelledOn, droppedOn,
  exit, earned, collected, notStarted, stoppedByBound,
  discardPrevious,
  \* the manifest
  filed,      \* what it says of each unit
  runError,   \* it has an error entry that belongs to no unit
  cancelled, maxDuration,
  \* the observer
  told,       \* what it was told of each unit
  verdict,    \* what Finished handed it
  \* the disk, and what Run returned
  previous,   \* the run of the same name that was there before
  manifest,   \* where the manifest landed
  archived, code,
  \* history
  found,      \* where the bound found the run: past the lock or not, and at which unit
  blockedOn,  \* the units the watch cancelled
  failedAlone \* the units that failed and were not ended by the bound

ctxVars  == <<ctxDead, bound, cause, late, found>>
unitVars == <<out, cut, connClosed, blockedOn, failedAlone>>
skipVars == <<cancelledOn, droppedOn>>
sumVars  == <<exit, earned, collected, notStarted, stoppedByBound>>
flagVars == <<cancelled, maxDuration>>
endVars  == <<discardPrevious, verdict, manifest, archived, code>>
vars == <<pc, at, ctxVars, unitVars, skipVars, sumVars, flagVars, endVars,
          filed, runError, told, previous>>

---------------------------------------------------------------------------
(* Values *)

Places == {"configuring", "reaching", "resolving", "naming", "preparing", "planning",
           "next", "resetting", "querying", "writing", "ended", "mending", "judging",
           "checking", "reporting", "onward", "pinging", "recycling", "reconnecting",
           "settling", "filing", "closing", "archiving", "returned"}
Causes    == {"none", "bound", "stop", "watch"}
Outcomes  == {"ok", "error", "notFound", "blocked", "dropped"}
Skips     == {"heldBack", "dropped", "notStarted"}
Filings   == {"nothing", "ok", "error"} \cup Skips
Tellings  == {"nothing", "done", "error", "skipped"}
NoCode    == 3
Codes     == 0..NoCode
NoVerdict == [given |-> FALSE, cancelled |-> FALSE, maxDuration |-> FALSE,
              failed |-> FALSE, collected |-> 0]

named(u) == Target[u] # Instance

Init ==
  /\ pc = "configuring" /\ at = 1
  /\ ctxDead = FALSE /\ bound = "none" /\ cause = "none" /\ late = FALSE
  /\ found = [locked |-> FALSE, unit |-> 0]
  /\ out = "ok" /\ cut = FALSE /\ connClosed = FALSE
  /\ blockedOn = {} /\ failedAlone = {}
  /\ cancelledOn = {} /\ droppedOn = {}
  /\ exit = 0 /\ earned = 0 /\ collected = 0 /\ notStarted = 0 /\ stoppedByBound = FALSE
  /\ cancelled = FALSE /\ maxDuration = FALSE
  /\ discardPrevious = FALSE /\ verdict = NoVerdict
  /\ manifest = "none" /\ archived = FALSE /\ code = NoCode
  /\ filed = [u \in Plan |-> "nothing"] /\ runError = FALSE
  /\ told = [u \in Plan |-> "nothing"]
  /\ previous \in {"none", "inPlace"}

---------------------------------------------------------------------------
(* The contexts *)

\* The operator's ctrl-c.  First causes stand.
Stop ==
  /\ ~ctxDead /\ pc # "returned"
  /\ ctxDead' = TRUE
  /\ bound' = IF bound = "none" THEN "stop" ELSE bound
  /\ cause' = IF cause = "none" THEN "stop" ELSE cause
  /\ UNCHANGED <<pc, at, late, found, unitVars, skipVars, sumVars, flagVars, endVars,
                 filed, runError, told, previous>>

Unlocked == {"configuring", "reaching", "resolving", "naming"}
BoundFires ==
  /\ Bounded /\ bound = "none" /\ pc # "returned"
  /\ bound' = "bound"
  /\ cause' = IF cause = "none" THEN "bound" ELSE cause
  /\ found' = [locked |-> pc \notin Unlocked,
               unit |-> IF pc \in Unlocked \cup {"preparing", "planning", "next"}
                          THEN at - 1 ELSE at]
  /\ UNCHANGED <<pc, at, ctxDead, late, unitVars, skipVars, sumVars, flagVars, endVars,
                 filed, runError, told, previous>>

\* The blocking watch cancels the unit's context, the unit being armed.
WatchFires ==
  /\ pc = "querying" /\ cause = "none"
  /\ cause' = "watch"
  /\ UNCHANGED <<pc, at, ctxDead, bound, late, found, unitVars, skipVars, sumVars, flagVars,
                 endVars, filed, runError, told, previous>>

\* The deadline of the call in flight, @timeout or SQL_QUERY_TIMEOUT_SEC.
CallExpires ==
  /\ pc \in {"resetting", "querying"} /\ cause = "none" /\ ~late
  /\ late' = TRUE
  /\ UNCHANGED <<pc, at, ctxDead, bound, cause, found, unitVars, skipVars, sumVars, flagVars,
                 endVars, filed, runError, told, previous>>

boundReached == bound = "bound"

---------------------------------------------------------------------------
(* finish and its callers *)

\* finish, up to the observer's Finished; the manifest is written by the step
\* that follows.  The verdict's flags are the manifest's, as they stand.
Finished(stopped, reached) ==
  verdict' = [given |-> TRUE, cancelled |-> stopped, maxDuration |-> reached,
              failed |-> earned # 0, collected |-> collected]

\* finishWith: the run ends with code c, and leaves no archive.
finishWith(c) ==
  /\ pc' = "filing" /\ code' = c
  /\ Finished(cancelled, maxDuration)
  /\ UNCHANGED <<discardPrevious, manifest, archived, flagVars>>

\* A refusal: an error entry, then the end.
refuse(c) == runError' = TRUE /\ finishWith(c)

\* stoppedOr: the bound, then the stop, then the error of the step.
stoppedOr(c) ==
  IF boundReached \/ ctxDead
    THEN /\ pc' = "filing" /\ code' = 2
         /\ maxDuration' = (maxDuration \/ boundReached) /\ cancelled' = (cancelled \/ ctxDead)
         /\ Finished(cancelled', maxDuration')
         /\ UNCHANGED <<discardPrevious, manifest, archived, runError>>
    ELSE refuse(c)

---------------------------------------------------------------------------
(* Before the first unit *)

beforeLoop == <<at, ctxVars, unitVars, skipVars, filed, told>>

\* The output directory, the corpus and the profile are checked, and the driver
\* opened, without a word to the server.
Configures ==
  /\ pc = "configuring"
  /\ pc' = "reaching"
  /\ UNCHANGED <<beforeLoop, sumVars, flagVars, endVars, runError, previous>>
ConfigRefused ==
  /\ pc = "configuring"
  /\ \E c \in {1, 2} : refuse(c)  \* 1: openExitCode of an address that parses
  /\ UNCHANGED <<beforeLoop, sumVars, previous>>

\* The connection, the preflight and the probe: three calls under the bound.
Reaches ==
  /\ pc = "reaching" /\ bound = "none"
  /\ pc' = "resolving"
  /\ UNCHANGED <<beforeLoop, sumVars, flagVars, endVars, runError, previous>>
ReachFails ==
  /\ pc = "reaching"
  /\ stoppedOr(1)
  /\ UNCHANGED <<beforeLoop, sumVars, previous>>

\* The window is resolved, the databases are listed (a call under the bound) and
\* selected; a refusal of the window or of a pattern asks no context.
Resolves ==
  /\ pc = "resolving" /\ bound = "none"
  /\ pc' = "naming"
  /\ UNCHANGED <<beforeLoop, sumVars, flagVars, endVars, runError, previous>>
ListFails ==
  /\ pc = "resolving"
  /\ stoppedOr(1)
  /\ UNCHANGED <<beforeLoop, sumVars, previous>>
SelectionRefused ==
  /\ pc = "resolving"
  /\ refuse(2)
  /\ UNCHANGED <<beforeLoop, sumVars, previous>>

\* The bound is asked before anything on disk is touched; then lockRun.
asksBoundFirst_no == FALSE
asksBoundFirst == boundReached
Locks ==
  /\ pc = "naming" /\ ~asksBoundFirst
  /\ pc' = "preparing"
  /\ UNCHANGED <<beforeLoop, sumVars, flagVars, endVars, runError, previous>>
BoundBeforeFolder ==
  /\ pc = "naming" /\ asksBoundFirst
  /\ stoppedOr(2)
  /\ UNCHANGED <<beforeLoop, sumVars, previous>>
LockRefused ==
  /\ pc = "naming" /\ ~asksBoundFirst
  /\ refuse(2)
  /\ UNCHANGED <<beforeLoop, sumVars, previous>>

\* prepareRunFolder sets the previous run aside.
Prepares ==
  /\ pc = "preparing"
  /\ pc' = "planning"
  /\ previous' = IF previous = "inPlace" THEN "aside" ELSE previous
  /\ UNCHANGED <<beforeLoop, sumVars, flagVars, endVars, runError>>
PrepareRefused ==
  /\ pc = "preparing"
  /\ refuse(2)
  /\ UNCHANGED <<beforeLoop, sumVars, previous>>

\* planUnits, and the start of the watch, which changes nothing here.  A corpus
\* that does not lint is an error of the run's own and ends nothing.
Plans ==
  /\ pc = "planning"
  /\ pc' = "next"
  /\ \E lintErrors \in BOOLEAN :
       /\ runError' = lintErrors
       /\ exit' = IF lintErrors THEN 2 ELSE 0
       /\ earned' = exit'
  /\ UNCHANGED <<beforeLoop, collected, notStarted, stoppedByBound, flagVars, endVars, previous>>

---------------------------------------------------------------------------
(* The loop: before a unit *)

upNext_skipsOne == at + 2
upNext_retries == IF out = "error" /\ ~cut THEN at ELSE at + 1
upNext == at + 1

heldBack_everywhere(u) == cancelledOn # {}
heldBack_never(u) == FALSE
heldBack(u) == named(u) /\ Target[u] \in cancelledOn
droppedBefore_never(u) == FALSE
droppedBefore(u) == named(u) /\ Target[u] \in droppedOn

skipBefore_asksNoBound(u) ==
  IF heldBack(u) THEN "heldBack" ELSE IF droppedBefore(u) THEN "dropped" ELSE "nothing"

\* skipBefore: the reason not to start unit u, if there is one.
skipBefore(u) ==
  IF heldBack(u) THEN "heldBack"
  ELSE IF droppedBefore(u) THEN "dropped"
  ELSE IF boundReached THEN "notStarted" ELSE "nothing"

\* The bound's skips set the flag and are counted; every skip is reported as
\* the end of a planned unit.
flagsSkip_not(reason) == FALSE
flagsSkip(reason) == reason = "notStarted"
tellsSkip_not == UNCHANGED told
tellsSkip == told' = [told EXCEPT ![at] = "skipped"]
SkipUnit ==
  /\ pc = "next" /\ at \in Plan
  /\ LET reason == skipBefore(at)
     IN  /\ reason # "nothing"
         /\ filed' = [filed EXCEPT ![at] = reason]
         /\ maxDuration' = (maxDuration \/ flagsSkip(reason))
         /\ notStarted' = IF reason = "notStarted" THEN notStarted + 1 ELSE notStarted
  /\ tellsSkip
  /\ at' = upNext
  /\ UNCHANGED <<pc, ctxVars, unitVars, skipVars, exit, earned, collected, stoppedByBound,
                 cancelled, endVars, runError, previous>>

\* The unit's context inherits whatever already ended the bound's.
StartUnit ==
  /\ pc = "next" /\ at \in Plan /\ skipBefore(at) = "nothing"
  /\ pc' = "resetting" /\ cause' = bound /\ late' = FALSE
  /\ UNCHANGED <<at, ctxDead, bound, found, unitVars, skipVars, sumVars, flagVars, endVars,
                 filed, runError, told, previous>>

LoopEnds ==
  /\ pc = "next" /\ at \notin Plan
  /\ pc' = "settling"
  /\ UNCHANGED <<at, ctxVars, unitVars, skipVars, sumVars, flagVars, endVars,
                 filed, runError, told, previous>>

---------------------------------------------------------------------------
(* The loop: runUnit *)

aroundUnit == <<at, ctxDead, bound, found, skipVars, sumVars, flagVars, endVars, runError, told,
                previous>>

\* The first cause of the failing call's own context is the bound's.
endedByBound_asksTheBound == boundReached
endedByBound == cause = "bound" /\ ~late

ResetSucceeds ==
  /\ pc = "resetting" /\ cause = "none" /\ ~late /\ ~connClosed
  /\ pc' = "querying"
  /\ UNCHANGED <<aroundUnit, cause, late, unitVars, filed>>

\* runUnit returns an error: o is its kind, and lost says whether the connection
\* went with it (a query that fails discards it).
UnitFails(o, byBound, lost) ==
  /\ pc' = "ended" /\ out' = o /\ cut' = byBound /\ connClosed' = lost
  /\ blockedOn' = IF o = "blocked" THEN blockedOn \cup {at} ELSE blockedOn
  /\ failedAlone' = IF pc # "writing" /\ cause = "bound" /\ ~late THEN failedAlone
                    ELSE failedAlone \cup {at}
  /\ UNCHANGED <<aroundUnit, cause, late, filed>>

ResetFails ==
  /\ pc = "resetting"
  /\ \E lost \in BOOLEAN : UnitFails("error", endedByBound, lost \/ connClosed)

\* USE, the query and the reading of its rows.  The watch's cause is asked of the
\* unit's context, whatever ended the call itself; a SQL Server error, which 911
\* is, keeps its number whatever the contexts say.
QueryFails ==
  /\ pc = "querying"
  /\ \E o \in {"error", "notFound", "blocked"}, lost \in BOOLEAN :
       /\ o = "blocked" <=> cause = "watch"
       /\ UnitFails(o, endedByBound, lost)

\* The rows are in memory and leave has moved the session out of the database,
\* or lost it.
QuerySucceeds ==
  /\ pc = "querying" /\ cause = "none" /\ ~late
  /\ pc' = "writing"
  /\ connClosed' \in BOOLEAN
  /\ UNCHANGED <<aroundUnit, cause, late, out, cut, blockedOn, failedAlone, filed>>

WriteSucceeds ==
  /\ pc = "writing"
  /\ pc' = "ended" /\ out' = "ok" /\ cut' = FALSE
  /\ filed' = [filed EXCEPT ![at] = "ok"]
  /\ UNCHANGED <<aroundUnit, cause, late, connClosed, blockedOn, failedAlone>>

WriteFails ==
  /\ pc = "writing"
  /\ UnitFails("error", FALSE, connClosed)

---------------------------------------------------------------------------
(* The loop: after a unit *)

\* break, which a stop alone takes, and continue.
break_notFlagged == pc' = "settling" /\ UNCHANGED cancelled
break == pc' = "settling" /\ cancelled' = TRUE
continue == pc' = "next" /\ at' = upNext

\* The stop, then the bound, before a call that failed is held against the
\* server: whatever the unit left on the disk is not archived then.
explained == ctxDead \/ boundReached
sessionLost ==
  IF explained
    THEN /\ IF ctxDead THEN break /\ UNCHANGED at ELSE continue /\ UNCHANGED cancelled
         /\ UNCHANGED <<maxDuration, endVars, runError>>
    ELSE refuse(1) /\ UNCHANGED at

\* A connection the unit closed is replaced before anything else uses it.
UnitEnded ==
  /\ pc = "ended"
  /\ pc' = IF connClosed /\ ~ctxDead /\ ~boundReached THEN "mending" ELSE "judging"
  /\ UNCHANGED <<at, ctxVars, unitVars, skipVars, sumVars, flagVars, endVars,
                 filed, runError, told, previous>>

Mends ==
  /\ pc = "mending" /\ bound = "none"
  /\ pc' = "judging" /\ connClosed' = FALSE
  /\ UNCHANGED <<at, ctxVars, out, cut, blockedOn, failedAlone, skipVars, sumVars, flagVars,
                 endVars, filed, runError, told, previous>>

\* Here the bound lets the loop go on to what it has to say of the unit.
MendFails ==
  /\ pc = "mending"
  /\ IF ~ctxDead /\ boundReached
       THEN pc' = "judging" /\ UNCHANGED <<at, flagVars, endVars, runError>>
       ELSE sessionLost
  /\ UNCHANGED <<ctxVars, unitVars, skipVars, sumVars, filed, told, previous>>

marksDatabase == out = "blocked" /\ named(at)
Judges ==
  /\ pc = "judging"
  /\ maxDuration' = (maxDuration \/ cut) /\ stoppedByBound' = (stoppedByBound \/ cut)
  /\ cancelledOn' = IF marksDatabase THEN cancelledOn \cup {Target[at]} ELSE cancelledOn
  /\ pc' = IF out = "notFound" /\ named(at) /\ ~ctxDead THEN "checking" ELSE "reporting"
  /\ UNCHANGED <<at, ctxVars, unitVars, droppedOn, exit, earned, collected, notStarted,
                 cancelled, endVars, filed, runError, told, previous>>

\* databaseExists, under the bound, and noteDropped.
FoundDropped ==
  /\ pc = "checking" /\ bound = "none"
  /\ pc' = "reporting" /\ out' = "dropped"
  /\ droppedOn' = droppedOn \cup {Target[at]}
  /\ filed' = [filed EXCEPT ![at] = "dropped"]
  /\ UNCHANGED <<at, ctxVars, cut, connClosed, blockedOn, failedAlone, cancelledOn, sumVars,
                 flagVars, endVars, runError, told, previous>>
NotShownDropped ==
  /\ pc = "checking"
  /\ pc' = "reporting"
  /\ UNCHANGED <<at, ctxVars, unitVars, skipVars, sumVars, flagVars, endVars,
                 filed, runError, told, previous>>

succeeded == out \in {"ok", "dropped"}

\* recordUnitFailure: a dead context outranks the error.
outranks_never == FALSE
outranks == ctxDead

toldOf_dropIsDone(o) == "done"
toldOf(o) == IF o = "ok" THEN "done" ELSE "skipped"
ReportsSuccess ==
  /\ pc = "reporting" /\ succeeded
  /\ pc' = "onward"
  /\ told' = [told EXCEPT ![at] = toldOf(out)]
  /\ collected' = IF out = "ok" THEN collected + 1 ELSE collected
  /\ UNCHANGED <<at, ctxVars, unitVars, skipVars, exit, earned, notStarted, stoppedByBound,
                 flagVars, endVars, filed, runError, previous>>

\* The unit is told done, with no error, and the loop is left.
ReportsInterruption ==
  /\ pc = "reporting" /\ ~succeeded /\ outranks
  /\ break
  /\ told' = [told EXCEPT ![at] = "done"]
  /\ UNCHANGED <<at, ctxVars, unitVars, skipVars, sumVars, maxDuration, endVars,
                 filed, runError, previous>>

\* A unit the bound cut is an error entry and not a failure of the run's own.
ReportsFailure ==
  /\ pc = "reporting" /\ ~succeeded /\ ~outranks
  /\ pc' = "onward"
  /\ filed' = [filed EXCEPT ![at] = "error"] /\ told' = [told EXCEPT ![at] = "error"]
  /\ exit' = IF cut THEN exit ELSE 2
  /\ earned' = IF cut THEN earned ELSE 2
  /\ UNCHANGED <<at, ctxVars, unitVars, skipVars, collected, notStarted, stoppedByBound,
                 flagVars, endVars, runError, previous>>

\* The stop, then the bound, then the session: recycled after a success, pinged
\* first after a failure.
Onward ==
  /\ pc = "onward"
  /\ IF ctxDead THEN break /\ UNCHANGED at
     ELSE IF boundReached THEN continue /\ UNCHANGED cancelled
     ELSE pc' = (IF succeeded THEN "recycling" ELSE "pinging") /\ UNCHANGED <<at, cancelled>>
  /\ UNCHANGED <<ctxVars, unitVars, skipVars, sumVars, maxDuration, endVars,
                 filed, runError, told, previous>>

Pings ==
  /\ pc = "pinging" /\ bound = "none"
  /\ pc' = "recycling"
  /\ UNCHANGED <<at, ctxVars, unitVars, skipVars, sumVars, flagVars, endVars,
                 filed, runError, told, previous>>

PingFails ==
  /\ pc = "pinging"
  /\ IF ctxDead THEN break /\ UNCHANGED at
     ELSE IF boundReached THEN continue /\ UNCHANGED cancelled
     ELSE pc' = "reconnecting" /\ UNCHANGED <<at, cancelled>>
  /\ UNCHANGED <<ctxVars, unitVars, skipVars, sumVars, maxDuration, endVars,
                 filed, runError, told, previous>>

\* recycleConn, and the one reconnect.
SessionRenewed ==
  /\ pc \in {"recycling", "reconnecting"} /\ bound = "none"
  /\ continue /\ connClosed' = FALSE
  /\ UNCHANGED <<ctxVars, out, cut, blockedOn, failedAlone, skipVars, sumVars, flagVars,
                 endVars, filed, runError, told, previous>>
SessionNotRenewed ==
  /\ pc \in {"recycling", "reconnecting"}
  /\ sessionLost
  /\ UNCHANGED <<ctxVars, unitVars, skipVars, sumVars, filed, told, previous>>

---------------------------------------------------------------------------
(* After the loop *)

\* The code of a run that was cut short is never 0.
settleRun_forgetsTheStop(c) == IF maxDuration /\ c = 0 THEN 2 ELSE c
settleRun(c) == IF (cancelled \/ maxDuration) /\ c = 0 THEN 2 ELSE c

\* previousRunLost, asked of a run that exits 0: whether the run it replaced
\* covered something this one does not.
Settles ==
  /\ pc = "settling"
  /\ pc' = "closing"
  /\ code' = settleRun(exit)
  /\ \E previousRunLost \in BOOLEAN :
       discardPrevious' = (settleRun(exit) = 0 /\ ~previousRunLost)
  /\ Finished(cancelled, maxDuration)
  /\ UNCHANGED <<at, ctxVars, unitVars, skipVars, sumVars, flagVars, manifest, archived,
                 filed, runError, told, previous>>

\* WriteManifestWithFallback: in the run folder, in a temporary directory, or
\* nowhere, which is an error.
Writes ==
  /\ pc \in {"filing", "closing"}
  /\ \E place \in {"folder", "temp", "nowhere"} :
       /\ manifest' = place
       /\ pc' = IF pc = "closing" /\ place # "nowhere" THEN "archiving" ELSE "returned"
  /\ UNCHANGED <<at, ctxVars, unitVars, skipVars, sumVars, flagVars, discardPrevious, verdict,
                 archived, code, filed, runError, told, previous>>

\* discardSuperseded, or keepSuperseded.
discards_always == previous = "aside"
discards == discardPrevious /\ previous = "aside"
Archives ==
  /\ pc = "archiving"
  /\ pc' = "returned" /\ archived' = TRUE
  /\ previous' = IF discards THEN "discarded" ELSE previous
  /\ UNCHANGED <<at, ctxVars, unitVars, skipVars, sumVars, flagVars, discardPrevious, verdict,
                 manifest, code, filed, runError, told>>
ArchiveFails ==
  /\ pc = "archiving"
  /\ pc' = "returned" /\ code' = 2
  /\ UNCHANGED <<at, ctxVars, unitVars, skipVars, sumVars, flagVars, discardPrevious, verdict,
                 manifest, archived, filed, runError, told, previous>>

---------------------------------------------------------------------------
Preamble ==
  \/ Configures \/ ConfigRefused \/ Reaches \/ ReachFails \/ Resolves \/ ListFails
  \/ SelectionRefused \/ Locks \/ BoundBeforeFolder \/ LockRefused
  \/ Prepares \/ PrepareRefused \/ Plans

runUnit == ResetSucceeds \/ ResetFails \/ QuerySucceeds \/ QueryFails \/ WriteSucceeds \/ WriteFails

Loop ==
  \/ SkipUnit \/ StartUnit \/ LoopEnds \/ runUnit
  \/ UnitEnded \/ Mends \/ MendFails \/ Judges \/ FoundDropped \/ NotShownDropped
  \/ ReportsSuccess \/ ReportsInterruption \/ ReportsFailure
  \/ Onward \/ Pings \/ PingFails \/ SessionRenewed \/ SessionNotRenewed

Tail == Settles \/ Writes \/ Archives \/ ArchiveFails

Run == Preamble \/ Loop \/ Tail

Environment == Stop \/ BoundFires \/ WatchFires \/ CallExpires

Next == Run \/ Environment

Spec == Init /\ [][Next]_vars

\* Every call Run makes to the server carries a deadline, and the rest is local
\* work: the run always takes its next step.  The stop, the bound and the watch
\* need not ever come.
FairSpec == Spec /\ WF_vars(Run)

---------------------------------------------------------------------------
(* Properties *)

TypeFlags ==
  /\ ctxDead \in BOOLEAN /\ late \in BOOLEAN /\ cut \in BOOLEAN /\ connClosed \in BOOLEAN
  /\ stoppedByBound \in BOOLEAN /\ discardPrevious \in BOOLEAN /\ runError \in BOOLEAN
  /\ cancelled \in BOOLEAN /\ maxDuration \in BOOLEAN /\ archived \in BOOLEAN
TypeLoop ==
  /\ pc \in Places /\ at \in 1..(Units + 1) /\ out \in Outcomes
  /\ bound \in Causes \ {"watch"} /\ cause \in Causes
  /\ found \in [locked : BOOLEAN, unit : 0..(Units + 1)]
TypeSets ==
  /\ cancelledOn \in SUBSET Databases /\ droppedOn \in SUBSET Databases
  /\ blockedOn \in SUBSET Plan /\ failedAlone \in SUBSET Plan
TypeSums ==
  /\ exit \in {0, 2} /\ earned \in {0, 2} /\ code \in Codes
  /\ collected \in Nat /\ notStarted \in Nat
TypeRecord ==
  /\ filed \in [Plan -> Filings] /\ told \in [Plan -> Tellings]
  /\ previous \in {"none", "inPlace", "aside", "discarded"}
  /\ manifest \in {"none", "folder", "temp", "nowhere"}
TypeVerdict ==
  verdict \in [given : BOOLEAN, cancelled : BOOLEAN, maxDuration : BOOLEAN,
               failed : BOOLEAN, collected : Nat]

\* The type invariant: the Booleans, the loop, its sets and sums, the record.
TypeOK == TypeFlags /\ TypeLoop /\ TypeSets /\ TypeSums /\ TypeRecord /\ TypeVerdict

\* The states of Run at which the loop is over and was not left by a lost session.
looped == pc \in {"settling", "closing", "archiving"}

whole(u) == filed[u] \in {"ok", "dropped"}

\* Exit 0 is said only of a run every unit of which brought its result back or
\* found its database dropped (settleRun; README "Exit codes").
ExitZeroMeansWhole == code = 0 => ~runError /\ \A u \in Plan : whole(u)

\* The run of the same name that was there before is deleted only once one that
\* is whole is archived in its place: a rerun that was stopped, cut, or lost a
\* unit leaves it on the disk.
DiscardNeedsWholeRun ==
  previous = "discarded" => archived /\ code = 0 /\ \A u \in Plan : whole(u)

\* A unit that ran and left neither a result nor an error was interrupted by the
\* operator, and the manifest says the run was.
SilentUnitMeansStopped ==
  looped => \A u \in Plan : filed[u] = "nothing" => cancelled

\* An interrupted unit is no failure: the stop is never written as an error of a
\* unit, nor as a server that could not be reached (recordUnitFailure, stoppedOr
\* and the checks after every call that failed).
StopIsNoFailure ==
  [][/\ \A u \in Plan : filed[u] # "error" /\ filed'[u] = "error" => ~ctxDead
     /\ pc \notin {"configuring", "filing"} /\ pc' = "filing" /\ code' = 1
          => ~ctxDead /\ ~boundReached]_vars

\* What the screen was told of a unit is what the manifest says of it, except for
\* the one unit the stop interrupted, which is told done.
ScreenAgreesWithManifest ==
  looped =>
    \A u \in Plan :
      \/ told[u] = "done" /\ filed[u] = "ok"
      \/ told[u] = "error" /\ filed[u] = "error"
      \/ told[u] = "skipped" /\ filed[u] \in Skips
      \/ cancelled /\ filed[u] \in {"nothing", "ok"} /\ told[u] \in {"nothing", "done"}

\* The gauge of a run that was not stopped reaches its total: each planned unit
\* was reported, once the loop is over.
GaugeReachesTotal == looped /\ ~cancelled => \A u \in Plan : told[u] # "nothing"

\* Once the watch has cancelled a unit on a database, or a unit of it was filed as
\* dropped with it, no later unit is started there.
HeldBackStaysBack ==
  [][pc = "next" /\ pc' = "resetting" =>
       \A u \in Plan : named(u) /\ (u \in blockedOn \/ filed[u] = "dropped")
                        => Target[u] # Target[at]]_vars

\* An instance-scope unit is held back by nothing: with no database, it is in
\* nobody's way, and only the bound or the end of the run keeps it from starting.
InstanceUnitsRun ==
  \A u \in Plan : ~named(u) => filed[u] \notin {"heldBack", "dropped"}

\* The flag max_duration_reached says something the bound did: a unit it stopped
\* or one it kept from starting.  The note after the loop counts on it: with no
\* unit left unstarted it says that one was stopped.
BoundFlagIsTrue ==
  looped => /\ maxDuration <=> stoppedByBound \/ \E u \in Plan : filed[u] = "notStarted"
            /\ notStarted = Cardinality({u \in Plan : filed[u] = "notStarted"})

\* Verdict.Failed, which is the wizard's exit status at the bound, is the run's
\* own failure: a lint error or a unit that was not ended by the bound, and never
\* the bound's or the operator's doing.
VerdictFailedIsOwn ==
  verdict.given /\ looped =>
    (verdict.failed <=> runError \/ \E u \in failedAlone : told[u] = "error")

\* The accounts of one run agree, whichever causes met: the manifest's entries and
\* flags, the screen, the gauge and the verdict.
AccountsAgree ==
  /\ TypeOK
  /\ SilentUnitMeansStopped
  /\ ScreenAgreesWithManifest
  /\ GaugeReachesTotal
  /\ InstanceUnitsRun
  /\ BoundFlagIsTrue
  /\ VerdictFailedIsOwn

\* The bound costs the run what it found under way, and no more: found before the
\* lock, the run leaves the previous one where it was; and of the units after the
\* one it found running, none is tried: each is skipped, or left to the stop.  A run
\* found between the two may still set the previous one aside for nothing.
BoundCostsWhatRuns ==
  boundReached =>
    /\ ~found.locked => previous \in {"none", "inPlace"}
    /\ \A u \in Plan : u > found.unit => filed[u] \in Skips \cup {"nothing"}

\* Run returns, however its calls end.
RunReturns == <>(pc = "returned")

---------------------------------------------------------------------------
(* The contract *)

statusOf(f) ==
  CASE f = "nothing" -> "pending" [] f = "ok" -> "collected"
    [] f = "dropped" -> "gone"    [] f = "error" -> "failed"
    [] f \in {"heldBack", "notStarted"} -> "skipped"

outcomeNow ==
  IF pc # "returned" THEN "running"
  ELSE IF code = 0 /\ archived THEN "complete" ELSE "partial"

Contract == INSTANCE RunContract WITH
  status  <- [u \in Plan |-> statusOf(filed[u])],
  outcome <- outcomeNow,
  earlier <- previous # "discarded"

\* The run keeps the contract: each of its steps settles one unit, ends the run,
\* or is of no concern to whoever launched it.
KeepsContract == Contract!Spec

=============================================================================
