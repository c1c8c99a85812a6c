--------------------------- MODULE BlockingWatch ---------------------------
(***************************************************************************)
(* The blocking watch of collect/watch.go: one goroutine that polls the    *)
(* server for sessions waiting on the collection session, and cancels the  *)
(* unit that is armed once a wait reaches the limit.  It shares a mutex    *)
(* with the run loop, which arms a unit before its first statement and     *)
(* disarms it on every way out of runUnit (collect/collect.go).            *)
(*                                                                         *)
(* A critical section of the code (a stretch between mu.Lock and           *)
(* mu.Unlock) is one action.  A query is two: the moment the server        *)
(* evaluates it, and the moment its answer is used; so are a context that  *)
(* is read without the lock and what is then done.  Durations are ticks    *)
(* of the watch's clock, counted only where the code compares them: the    *)
(* length of a wait.                                                       *)
(***************************************************************************)
EXTENDS Naturals, Sequences, FiniteSets

CONSTANTS
  Sessions,     \* the server sessions that may wait on the collection session
  NoSession,    \* session id 0: nobody waits
  Units,        \* how many units the run has
  Spids,        \* how many session ids the collection connection may be given
  CancelAfter,  \* watchCancelAfter: the wait at which the unit is cancelled
  MaxWait,      \* bound: the longest wait that is told apart from longer ones
  Retries,      \* watchRetries: attempts after a failed poll
  IdentifyMax,  \* watchIdentifyPerUnit: identity queries per armed unit
  MaxBlockedWaits \* maxBlockedWaits: how many waits the manifest lists

ASSUME WatchAssumption ==
  /\ IsFiniteSet(Sessions) /\ NoSession \notin Sessions
  /\ Units \in Nat \ {0}
  /\ Spids \in Nat \ {0}
  /\ CancelAfter \in Nat \ {0}
  /\ MaxWait \in Nat /\ MaxWait >= CancelAfter
  /\ Retries \in Nat \ {0}
  /\ IdentifyMax \in Nat
  /\ MaxBlockedWaits \in Nat \ {0}

VARIABLES
  \* the run loop and the contexts it made
  phase,      \* where the run loop is
  unit,       \* the unit it runs or ran last, 0 before the first
  spid,       \* the id of the collection session, 0 when it could not be read
  ctxDead,    \* the operator stopped the run
  runCause,   \* first cause of the bound's context
  cause,      \* first cause of the armed unit's context
  cut,        \* runUnit's local: the bound was the first cause of the call that failed
  blocked,    \* runUnit's error is the watch's
  \* the server
  waits,      \* how long each session has waited on the collection session
  \* the fields of blockingWatch, guarded by mu
  armed, wspid, worst, fired, waiters, stopped, recovered, quit,
  \* the goroutine's program counter and locals
  gpc, gspid, sample, attempt,
  \* the manifest
  blockedWaits, \* the waits listed and left out, and how many units were cancelled
  \* history
  gap,        \* a poll of the goroutine has failed
  asked,      \* the session ids whose waiters are on the armed unit's record
  queries,    \* identity queries sent for the armed unit
  excused,    \* the operator's stop, or the failed call's own deadline, came first
  reached,    \* the watch had fired when the call returned its error
  failures,   \* polls and reconnects that failed since the last answer
  failedLive, \* the run was not stopping when the last of them failed
  last        \* what the manifest says of the unit disarmed last, until the next is armed

runVars  == <<phase, unit, spid>>
ctxVars  == <<ctxDead, runCause, cause>>
fields   == <<armed, wspid, worst, fired, waiters, asked, queries>>
ending   == <<cut, blocked, excused, reached>>
goVars   == <<gpc, gspid, sample, attempt>>
tailVars == <<stopped, recovered, gap, failures, failedLive>>
reports  == <<blockedWaits, last>>
vars == <<phase, unit, spid, ctxDead, runCause, cause, waits, armed, wspid,
          worst, fired, waiters, stopped, recovered, quit, gpc, gspid, sample,
          attempt, gap, failures, failedLive, asked, queries, blockedWaits, last,
          cut, blocked, excused, reached>>

---------------------------------------------------------------------------
(* Values *)

\* Inside a unit: its calls, a failed call before and after its cause was asked
\* for, and the rest of it once the rows are read.
Inside   == {"armed", "failing", "failed", "leaving"}
Phases   == Inside \cup {"starting", "between", "closing", "closed"}
Places   == {"off", "idle", "polling", "pausing", "givingUp", "answered", "identifying", "done"}
Causes   == {"none", "bound", "stop", "watch"}
Statuses == {"not_attempted", "ok", "no_session", "failed"}
Accounts == {"none", "cancelled", "atTheBound", "rowsRead", "underTheLimit"}

\* A sample also carries, as history, the session it was asked about.
Samples  == [session : Sessions \cup {NoSession}, waited : 0..MaxWait, about : 0..Spids]
NoSample == [session |-> NoSession, waited |-> 0, about |-> 0]

seen(s) == s.session # NoSession

NoReport == [unit |-> 0, worst |-> NoSample, waiters |-> 0, status |-> "not_attempted",
             cancelled |-> FALSE, account |-> "none", rowsRead |-> FALSE, excused |-> FALSE,
             reached |-> FALSE]
Reports  == [unit : 0..Units, worst : Samples, waiters : Nat, status : Statuses,
             cancelled : BOOLEAN, account : Accounts, rowsRead : BOOLEAN, excused : BOOLEAN,
             reached : BOOLEAN]

Waits == [waited : Nat, cancelled : BOOLEAN]
Lists == [items : Seq(Waits), omitted : Nat, cancelled : Nat]

NoWaits == [s \in Sessions |-> 0]

NoRecords == [s \in {} |-> "not_attempted"]

\* The sessions the watch holds a record of: the keys of the waiters map.
known == DOMAIN waiters

Init ==
  /\ phase = "starting" /\ unit = 0 /\ spid = 1
  /\ ctxDead = FALSE /\ runCause = "none" /\ cause = "none"
  /\ waits = NoWaits
  /\ armed = FALSE /\ wspid = 0 /\ worst = NoSample /\ fired = FALSE
  /\ waiters = NoRecords /\ stopped = FALSE /\ recovered = FALSE /\ quit = FALSE
  /\ gpc = "polling" /\ gspid = spid /\ sample = NoSample /\ attempt = 0
  /\ cut = FALSE /\ blocked = FALSE /\ excused = FALSE /\ reached = FALSE
  /\ gap = FALSE /\ failures = 0 /\ failedLive = FALSE /\ asked = {} /\ queries = 0 /\ last = NoReport
  /\ blockedWaits = [items |-> <<>>, omitted |-> 0, cancelled |-> 0]

---------------------------------------------------------------------------
(* The run loop: Run and runUnit *)

\* The unit's first reset has moved the session out of any database; then arm, on
\* a nil watch a no-op.  The unit's context inherits whatever already ended the
\* bound's context.
Arm ==
  /\ phase = "between" /\ unit < Units
  /\ phase' = "armed" /\ unit' = unit + 1 /\ cause' = runCause /\ waits' = NoWaits
  /\ last' = NoReport
  /\ IF gpc = "off"
       THEN UNCHANGED fields
       ELSE /\ armed' = TRUE /\ wspid' = spid
            /\ worst' = NoSample /\ fired' = FALSE /\ waiters' = NoRecords
            /\ asked' = {} /\ queries' = 0
  /\ UNCHANGED <<spid, ending, ctxDead, runCause, quit, blockedWaits, goVars, tailVars>>

\* leave moves the session out of the database, which ends every wait on it; its
\* reset may fail, and is only logged then.
leave == waits' \in {NoWaits, waits}

\* The rows are in memory.  The document is written after this, still armed.
RowsRead ==
  /\ phase = "armed"
  /\ phase' = "leaving" /\ leave
  /\ UNCHANGED <<unit, spid, ending, ctxVars, fields, quit, reports, goVars, tailVars>>

\* recordWatchOutcome: which of its four sentences the unit gets.
account_noBoundCase(isBlocked, isCut) ==
  IF isBlocked THEN "cancelled"
  ELSE IF fired THEN "rowsRead"
  ELSE IF seen(worst) THEN "underTheLimit" ELSE "none"
recordWatchOutcome(isBlocked, isCut) ==
  IF isBlocked THEN "cancelled"
  ELSE IF isCut /\ fired THEN "atTheBound"
  ELSE IF fired THEN "rowsRead"
  ELSE IF seen(worst) THEN "underTheLimit" ELSE "none"

\* blockedOr: the cause is asked of the unit's context, the driver having none.
blockedOr == cause = "watch"

\* incidentOf: the record of the session the incident reports, if one was kept.
incidentStatus == IF worst.session \in known THEN waiters[worst.session] ELSE "not_attempted"

\* AddBlockedWait: in a full list a cancellation takes the place of the shortest
\* wait that is none, the first of them.
displaceable(items) == {i \in DOMAIN items : ~items[i].cancelled}
victim(items) ==
  CHOOSE i \in displaceable(items) :
    \A j \in displaceable(items) :
      items[i].waited < items[j].waited \/ (items[i].waited = items[j].waited /\ i <= j)

\* Mutant: a list that is full keeps what it has.
kept_full(items, wait) == items
kept(items, wait) ==
  IF wait.cancelled /\ displaceable(items) # {}
    THEN [items EXCEPT ![victim(items)] = wait] ELSE items
AddBlockedWait(list, wait) ==
  IF Len(list.items) < MaxBlockedWaits
    THEN [list EXCEPT !.items = Append(list.items, wait)]
    ELSE [items |-> kept(list.items, wait), omitted |-> list.omitted + 1,
          cancelled |-> list.cancelled]

\* The wait, if one was seen, and the count of the units cancelled.
listed(isBlocked) ==
  LET l == IF seen(worst)
             THEN AddBlockedWait(blockedWaits, [waited |-> worst.waited, cancelled |-> isBlocked])
             ELSE blockedWaits
  IN  IF isBlocked THEN [l EXCEPT !.cancelled = @ + 1] ELSE l

\* A call of the unit returns its error, and cut is read from the first cause of
\* the call's context: the bound, or its own deadline when that came first.
CallFails ==
  /\ phase = "armed"
  /\ phase' = "failing"
  /\ cut' \in {FALSE, cause = "bound"} /\ reached' = fired
  /\ excused' = (cause = "stop" \/ (cause = "bound" /\ ~cut'))
  /\ UNCHANGED <<unit, spid, blocked, ctxVars, waits, fields, quit, reports, goVars, tailVars>>

\* The connection of a query is discarded, which ends the waits on it (that of a
\* failed USE is not); then the cause of the unit's own context is asked for.
AsksCause ==
  /\ phase = "failing"
  /\ phase' = "failed" /\ blocked' = blockedOr /\ leave
  /\ UNCHANGED <<unit, spid, cut, excused, reached, ctxVars, fields, quit, reports, goVars, tailVars>>

\* The deferred end of runUnit: what the watch saw until now, which may be after
\* the causes were asked for, and the account given of it.
disarm_staysArmed == UNCHANGED armed
disarm == armed' = FALSE
Disarm ==
  /\ phase \in {"failed", "leaving"}
  /\ last' = [unit |-> unit, worst |-> worst, waiters |-> Cardinality(known),
              status |-> incidentStatus, cancelled |-> blocked,
              account |-> recordWatchOutcome(blocked, cut), rowsRead |-> phase = "leaving",
              excused |-> excused, reached |-> reached]
  /\ blockedWaits' = listed(blocked)
  /\ cut' = FALSE /\ blocked' = FALSE /\ excused' = FALSE /\ reached' = FALSE
  /\ disarm
  /\ phase' = "between" /\ leave
  /\ UNCHANGED <<unit, spid, ctxVars, wspid, worst, fired, waiters, asked, queries,
                 quit, goVars, tailVars>>

\* recycleConn and reconnect: the pool of one gives the same session back, or a
\* new one; after a reconnect the id may be unreadable, and is then 0.
Recycle(new) ==
  /\ phase = "between" /\ unit > 0 /\ new # spid
  /\ spid' = new /\ waits' = NoWaits
  /\ UNCHANGED <<phase, unit, ending, ctxVars, fields, quit, reports, goVars, tailVars>>

\* The operator's stop cancels the run's context and everything under it; the
\* bound's expiry leaves the run's context alive.  First causes stand.
Stop ==
  /\ ~ctxDead /\ phase # "closed"
  /\ ctxDead' = TRUE
  /\ runCause' = IF runCause = "none" THEN "stop" ELSE runCause
  /\ cause' = IF cause = "none" THEN "stop" ELSE cause
  /\ UNCHANGED <<runVars, ending, waits, fields, quit, reports, goVars, tailVars>>

BoundFires ==
  /\ runCause = "none" /\ phase # "closed"
  /\ runCause' = "bound"
  /\ cause' = IF cause = "none" THEN "bound" ELSE cause
  /\ UNCHANGED <<runVars, ending, ctxDead, waits, fields, quit, reports, goVars, tailVars>>

\* The deferred stopWatch: close quit, then wait for done.
closesQuit_waitsOnly == UNCHANGED quit
closesQuit == quit' = (gpc # "off")
Close ==
  /\ phase = "between" /\ (unit = Units \/ runCause # "none" \/ ctxDead)
  /\ phase' = IF gpc = "off" THEN "closed" ELSE "closing"
  /\ closesQuit
  /\ UNCHANGED <<unit, spid, ending, ctxVars, waits, fields, reports, goVars, tailVars>>

Closed ==
  /\ phase = "closing" /\ gpc = "done"
  /\ phase' = "closed"
  /\ UNCHANGED <<unit, spid, ending, ctxVars, waits, fields, quit, reports, goVars, tailVars>>

---------------------------------------------------------------------------
(* The server *)

\* A wait begins on a unit that holds locks; one that leave did not end goes on.
WaitGrows(s) ==
  /\ phase \in {"armed", "failing", "failed"} \/ waits[s] > 0
  /\ waits[s] < MaxWait
  /\ waits' = [waits EXCEPT ![s] = @ + 1]
  /\ UNCHANGED <<runVars, ending, ctxVars, fields, quit, reports, goVars, tailVars>>

WaitEnds(s) ==
  /\ waits[s] > 0
  /\ waits' = [waits EXCEPT ![s] = 0]
  /\ UNCHANGED <<runVars, ending, ctxVars, fields, quit, reports, goVars, tailVars>>

---------------------------------------------------------------------------
(* The goroutine: loop, tick and retry; before it is started, firstPoll *)

\* tick's first critical section.
TickStarts ==
  /\ gpc = "idle" /\ armed
  /\ gpc' = "polling" /\ gspid' = wspid /\ attempt' = 0
  /\ UNCHANGED <<runVars, ending, ctxVars, waits, fields, quit, reports, sample, tailVars>>

LoopQuits ==
  /\ gpc = "idle" /\ quit
  /\ gpc' = "done"
  /\ UNCHANGED <<runVars, ending, ctxVars, waits, fields, quit, reports, gspid, sample, attempt, tailVars>>

\* The longest direct wait on session gspid, as the server sees it now.
longestWait(s) ==
  IF gspid # spid \/ gspid = 0 \/ waits = NoWaits
    THEN s = NoSample
    ELSE \E w \in Sessions :
           /\ waits[w] > 0 /\ \A x \in Sessions : waits[x] <= waits[w]
           /\ s = [session |-> w, waited |-> waits[w], about |-> gspid]

\* A poll that answers.  In firstPoll the answer is thrown away and the
\* goroutine is started with no recovery recorded; in retry a recovery is
\* recorded before the sample is used.
recover_forgets == UNCHANGED recovered
recover == recovered' = TRUE
PollAnswers ==
  /\ gpc = "polling"
  /\ \E s \in Samples : longestWait(s) /\ sample' = (IF phase = "starting" THEN NoSample ELSE s)
  /\ IF phase = "starting"
       THEN /\ phase' = "between" /\ gpc' = "idle"
            /\ recovered' = FALSE /\ attempt' = 0
       ELSE /\ gpc' = "answered" /\ UNCHANGED phase
            /\ IF attempt > 0 THEN recover ELSE UNCHANGED recovered
            /\ attempt' = 0
  /\ failures' = 0 /\ failedLive' = FALSE
  /\ UNCHANGED <<unit, spid, ending, ctxVars, waits, fields, quit, reports, gspid, stopped, gap>>

\* retry reads the run's context once its attempts are spent: quiet when the run
\* itself is ending.  In firstPoll every failure leaves the run without a watch.
retryGivesUp_quietly == gpc' = "done"
retryGivesUp_loudly  == gpc' = "givingUp"
retryGivesUp == gpc' = IF ctxDead THEN "done" ELSE "givingUp"
GiveUp ==
  /\ attempt' = 0
  /\ IF phase = "starting"
       THEN phase' = "between" /\ gpc' = "off"
       ELSE UNCHANGED phase /\ retryGivesUp

\* A poll, or the reconnect before it, fails: the next attempt, or the end.
attemptsLeft_oneMore == attempt <= Retries
attemptsLeft == attempt < Retries
Fails ==
  /\ gap' = (gap \/ phase # "starting")
  /\ failures' = failures + 1 /\ failedLive' = ~ctxDead
  /\ IF attemptsLeft
       THEN gpc' = "pausing" /\ attempt' = attempt + 1 /\ UNCHANGED phase
       ELSE GiveUp

PollFails ==
  /\ gpc = "polling"
  /\ Fails
  /\ UNCHANGED <<unit, spid, ending, ctxVars, waits, fields, quit, reports, gspid, sample, stopped, recovered>>

\* tick takes the lock and records that the watch stopped, whatever the operator
\* has done since retry looked.
Stops ==
  /\ gpc = "givingUp"
  /\ gpc' = "done" /\ stopped' = TRUE
  /\ UNCHANGED <<runVars, ending, ctxVars, waits, fields, quit, reports, gspid, sample, attempt,
                 recovered, gap, failures, failedLive>>

\* firstPoll does not retry a permission refusal.
FirstPollRefused ==
  /\ gpc = "polling" /\ phase = "starting" /\ attempt = 0
  /\ phase' = "between" /\ gpc' = "off"
  /\ UNCHANGED <<unit, spid, ending, ctxVars, waits, fields, quit, reports, gspid, sample, attempt, tailVars>>

\* The pause of an attempt ends at its timer: reconnect, then poll again.
Reconnects ==
  /\ gpc = "pausing"
  /\ gpc' = "polling"
  /\ UNCHANGED <<runVars, ending, ctxVars, waits, fields, quit, reports, gspid, sample, attempt, tailVars>>

ReconnectFails ==
  /\ gpc = "pausing"
  /\ Fails
  /\ UNCHANGED <<unit, spid, ending, ctxVars, waits, fields, quit, reports, gspid, sample, stopped, recovered>>

\* The pause ends because the watch is being closed or the run is stopping.
RetryIsQuiet ==
  /\ gpc = "pausing" /\ (quit \/ ctxDead)
  /\ attempt' = 0
  /\ IF phase = "starting"
       THEN phase' = "between" /\ gpc' = "off"
       ELSE gpc' = "done" /\ UNCHANGED phase
  /\ UNCHANGED <<unit, spid, ending, ctxVars, waits, fields, quit, reports, gspid, sample, tailVars>>

\* Whether a sample is used: the guard of tick's second critical section.
stillArmed_anySession == armed /\ seen(sample)
stillArmed == armed /\ wspid = gspid /\ seen(sample)

limitReached_early(s) == s.waited + 1 >= CancelAfter
limitReached_past(s) == s.waited > CancelAfter
limitReached(s) == s.waited >= CancelAfter

SampleDropped ==
  /\ gpc = "answered" /\ ~stillArmed
  /\ gpc' = "idle"
  /\ UNCHANGED <<runVars, ending, ctxVars, waits, fields, quit, reports, gspid, sample, attempt, tailVars>>

\* The cancel comes before the identity is read.  identifyLocked refuses beyond
\* the bound without a query, and the refusal is a record like another.
SampleUsed ==
  /\ gpc = "answered" /\ stillArmed
  /\ worst' = IF sample.waited > worst.waited THEN sample ELSE worst
  /\ IF limitReached(sample) /\ ~fired
       THEN fired' = TRUE /\ cause' = IF cause = "none" THEN "watch" ELSE cause
       ELSE UNCHANGED <<fired, cause>>
  /\ IF sample.session \in known
       THEN gpc' = "idle" /\ UNCHANGED <<waiters, asked, queries>>
       ELSE IF Cardinality(known) >= IdentifyMax
         THEN /\ gpc' = "idle" /\ asked' = asked \cup {gspid} /\ UNCHANGED queries
              /\ waiters' = [s \in known \cup {sample.session} |->
                               IF s \in known THEN waiters[s] ELSE "not_attempted"]
         ELSE gpc' = "identifying" /\ queries' = queries + 1 /\ UNCHANGED <<waiters, asked>>
  /\ UNCHANGED <<runVars, ending, ctxDead, runCause, waits, armed, wspid, quit, reports,
                 gspid, sample, attempt, tailVars>>

\* The identity query ran without the lock: whoever is armed is asked again.
identifyKept_failuresForgotten(status) == armed /\ wspid = gspid /\ status # "failed"
identifyKept_anySession(status) == armed
identifyKept(status) == armed /\ wspid = gspid
Identifies(status) ==
  /\ gpc = "identifying"
  /\ gpc' = "idle"
  /\ IF identifyKept(status)
       THEN /\ asked' = asked \cup {gspid}
            /\ waiters' = [s \in known \cup {sample.session} |->
                             IF s = sample.session THEN status ELSE waiters[s]]
       ELSE UNCHANGED <<waiters, asked>>
  /\ UNCHANGED <<runVars, ending, ctxVars, waits, armed, wspid, worst, fired, queries,
                 quit, reports, gspid, sample, attempt, tailVars>>

---------------------------------------------------------------------------
RunLoop ==
  \/ Arm \/ RowsRead \/ CallFails \/ AsksCause \/ Disarm
   \/ (\E n \in 0..Spids : Recycle(n)) \/ Close \/ Closed

Environment == Stop \/ BoundFires \/ \E s \in Sessions : WaitGrows(s) \/ WaitEnds(s)

Goroutine ==
  \/ TickStarts \/ LoopQuits
  \/ PollAnswers \/ PollFails \/ Stops \/ FirstPollRefused
  \/ Reconnects \/ ReconnectFails \/ RetryIsQuiet
  \/ SampleDropped \/ SampleUsed
  \/ \E st \in Statuses \ {"not_attempted"} : Identifies(st)

Next == RunLoop \/ Environment \/ Goroutine

Spec == Init /\ [][Next]_vars

\* Every query of the goroutine has a deadline and every pause a timer, so the
\* goroutine always takes its next step; nothing is assumed of the server's
\* sessions, of the operator or of how long a unit runs.
FairSpec == Spec /\ WF_vars(Goroutine) /\ WF_vars(Closed)

---------------------------------------------------------------------------
(* Properties *)

\* The type invariant: the run loop and its contexts, the server, what mu
\* guards, the goroutine, and the history; the Booleans together.
TypeFlags ==
  /\ ctxDead \in BOOLEAN /\ armed \in BOOLEAN /\ fired \in BOOLEAN /\ stopped \in BOOLEAN
  /\ recovered \in BOOLEAN /\ quit \in BOOLEAN /\ gap \in BOOLEAN /\ failedLive \in BOOLEAN
  /\ cut \in BOOLEAN /\ blocked \in BOOLEAN /\ excused \in BOOLEAN /\ reached \in BOOLEAN
TypeRunLoop ==
  /\ phase \in Phases /\ unit \in 0..Units /\ spid \in 0..Spids
  /\ runCause \in Causes /\ cause \in Causes /\ waits \in [Sessions -> 0..MaxWait]
TypeFields == wspid \in 0..Spids /\ worst \in Samples
TypeRecords == known \subseteq Sessions /\ waiters \in [known -> Statuses]
TypeGoroutine ==
  gpc \in Places /\ gspid \in 0..Spids /\ sample \in Samples /\ attempt \in 0..Retries
TypeHistory ==
  /\ asked \in SUBSET (0..Spids) /\ queries \in Nat /\ failures \in Nat
  /\ last \in Reports /\ blockedWaits \in Lists

TypeOK ==
  TypeFlags /\ TypeRunLoop /\ TypeFields /\ TypeRecords /\ TypeGoroutine /\ TypeHistory

\* The watch cancels nothing but a unit that is armed now, and nothing once it
\* is being closed: "a fire can never land on the next unit" as far as the
\* cancel function goes (watch.go:143-146).
CancelHitsArmedUnit ==
  [][cause # "watch" /\ cause' = "watch" => armed /\ phase \in Inside /\ ~quit]_vars

\* What is credited to the armed unit, its longest wait and the sessions on its
\* record, was read on the session that unit runs on, whatever reconnects happened
\* while the poll or the identity query was in flight.
CreditedToItsSession ==
  armed => (seen(worst) => worst.about = wspid) /\ asked \subseteq {wspid}

\* A unit is reported as cancelled by the watch only for a wait that reached
\* the limit, and never also under another of recordWatchOutcome's sentences.
CancelledAtTheLimit ==
  last.cancelled => last.worst.waited >= CancelAfter /\ last.account = "cancelled"

\* The warning "the collector had already read its rows" is said of no unit whose
\* call was still under way when the watch fired, unless the rows were read after
\* all, or the operator's stop or the call's own deadline came before both the
\* watch and the bound.  It is false of a unit whose call failed for a reason of
\* its own and for which the watch fires only then: hence "reached".
RowsReadIsTrueInTheCall ==
  last.account = "rowsRead" /\ last.reached => last.rowsRead \/ last.excused

\* A watch that is gone says so in the manifest, unless it was closed or the run
\* is stopping: no collector runs unwatched behind an "enabled" watch.
DeadWatchIsReported == gpc = "done" => stopped \/ quit \/ ctxDead

\* The watch is recorded as stopped only once the poll and every retry after it
\* failed with no answer between them, and only if the run was not stopping when
\* the last of them did.  A stop after that comes too late: the record stays.
BlameIsEarned == stopped => failures = Retries + 1 /\ failedLive

\* A poll that failed and was followed by one that answered is recorded: the
\* collector running then went unwatched for the length of the retry.
GapIsRecorded == gap /\ gpc \in {"idle", "answered", "identifying"} => recovered

\* A cancellation is on the list, whatever waits came before or after it, unless
\* the list is full of cancellations; and one is left out only of a full list.
\* The count of cancelled units says how many there were.
CancellationsAreListed ==
  LET c == {i \in DOMAIN blockedWaits.items : blockedWaits.items[i].cancelled}
  IN  /\ \/ Cardinality(c) = blockedWaits.cancelled
         \/ Cardinality(c) = MaxBlockedWaits /\ blockedWaits.cancelled > MaxBlockedWaits
      /\ blockedWaits.omitted > 0 => Len(blockedWaits.items) = MaxBlockedWaits

\* What the manifest says of a unit the watch met and of the watch itself is what
\* happened: who ended the unit, whether its rows were read, what went unwatched.
OutcomeIsTrue ==
  /\ TypeOK
  /\ CancelledAtTheLimit
  /\ RowsReadIsTrueInTheCall
  /\ GapIsRecorded
  /\ CancellationsAreListed

\* One armed unit costs at most IdentifyMax identity queries, however many
\* sessions queue behind it and however the queries end.
IdentifyIsBounded == queries <= IdentifyMax

\* A session that keeps waiting past the limit on the watched session sees the
\* unit cancelled, unless the unit ends, the wait ends or the watch is stopped.
LongWaitIsEnded ==
  \A s \in Sessions :
    (armed /\ wspid = spid /\ spid # 0 /\ waits[s] >= CancelAfter)
      ~> (cause # "none" \/ waits[s] < CancelAfter \/ phase # "armed" \/ stopped \/ ctxDead)

\* close returns: the goroutine is never left waiting on anything but its own
\* deadlines, so the run's end is not held up by its watch.
CloseReturns == phase = "closing" ~> phase = "closed"

=============================================================================
