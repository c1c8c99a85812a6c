------------------------------- MODULE Command -------------------------------
(* sql-auditor collect, around collect.Run: the gauge of                      *)
(* cmd/sql-auditor/progress.go, repainted by the run's callbacks and by a     *)
(* ticker of its own, the lines that must outlive it, the goroutine that      *)
(* hears ctrl-c, and main, which takes the gauge down before it says why the  *)
(* run ended.  Run is what it tells its observer and nothing else.            *)
EXTENDS Interrupt, FiniteSets

CONSTANT Units      \* how many units the plan has

ASSUME CommandAssumption == Units \in Nat /\ MaxSignals \in Nat

VARIABLES
    tty,        \* stderr is a terminal that takes escapes
    screen,     \* the terminal's last line, and what landed on a gauge
    gauge,      \* progress: started, planned, done, dirty, finished
    run,        \* where Run is, and how many units it has left
    ticker,     \* the ticker's goroutine
    told,       \* lines the handler has written
    main        \* where main is

cmdVars == <<tty, screen, gauge, run, ticker, told, main>>
vars == <<cmdVars, sigVars>>

-----------------------------------------------------------------------------
(* The gauge.  Every method holds the mutex from its first line to its last,  *)
(* so a call is one step.                                                     *)

\* What a write leaves: [s |-> the screen, g |-> the gauge].
View == [s |-> screen, g |-> gauge]

\* paint: nothing without a terminal, nor before Planned has started the clock.
Painted(v) ==
    IF ~tty \/ ~v.g.started THEN v
    ELSE [s |-> [v.s EXCEPT !.line = "gauge"], g |-> [v.g EXCEPT !.dirty = TRUE]]

Cleared(v) ==
    IF tty /\ v.g.dirty
    THEN [s |-> [v.s EXCEPT !.line = "clean"], g |-> [v.g EXCEPT !.dirty = FALSE]]
    ELSE v

\* A line that ends in a newline, and the ones that land on a painted gauge.
Printed(v, who) ==
    [v EXCEPT !.s = [line |-> "clean",
                     spoilt |-> IF v.s.line = "gauge" THEN @.spoilt \cup {who} ELSE @.spoilt]]

Shows(v) == screen' = v.s /\ gauge' = v.g

\* progressWriter.Write: the run's own commentary.
Commented(v) == Painted(Printed(Cleared(v), "comment"))

Planned(v) == Painted([v EXCEPT !.g.started = TRUE, !.g.planned = Units])

\* UnitDone: a failure, and a skip that is not the bound's, outlive the gauge.
UnitDone(v, how) ==
    LET n == [v EXCEPT !.g.done = @ + 1]
    IN  Painted(IF how \in {"failed", "skipped"} THEN Printed(Cleared(n), "unit")
                ELSE IF how = "done" /\ ~tty THEN Printed(n, "unit") ELSE n)

\* Finished, and main's own Done.
TakenDown(v) == Cleared([v EXCEPT !.g.finished = TRUE])

\* Once the verdict is in a phase is a line of its own.
Phase(v) ==
    IF ~v.g.finished THEN Painted(v)
    ELSE IF tty THEN Printed(Cleared(v), "phase") ELSE Cleared(v)

-----------------------------------------------------------------------------
(* Run, as its observer and its streams see it.                               *)

Runs(next, v) ==
    /\ main = "running"
    /\ run' = next /\ Shows(v)
    /\ UNCHANGED <<tty, ticker, told, main>>
Going(at) == run.at = at
To(at) == [run EXCEPT !.at = at]

\* A warning, the notice of a lost connection, the note of the bound, a manifest
\* that went elsewhere, a superseded run that is kept: never more than one
\* between two callbacks here.
Comments ==
    /\ run.at \notin {"manifest", "returned"} /\ ~run.said
    /\ Runs([run EXCEPT !.said = TRUE], Commented(View))

\* A refusal before there is a folder, or a failure that finishWith records.
ReturnsEarly == Going("before") /\ Runs([run EXCEPT !.at = "returned", !.err = TRUE], View)
FailsEarly ==
    /\ Going("before")
    /\ \E e \in BOOLEAN :
        Runs([run EXCEPT !.at = "closing", !.err = e, !.said = FALSE], TakenDown(View))

Plans == Going("before") /\ Runs([run EXCEPT !.at = "between", !.said = FALSE], Planned(View))

\* The loop asks nothing of the context before a unit, only after one.
StartsUnit ==
    /\ Going("between") /\ run.left > 0
    /\ Runs([run EXCEPT !.at = "unit", !.said = FALSE], Painted(View))

\* A unit held back, or that the bound left no time for.
SkipsUnit ==
    /\ Going("between") /\ run.left > 0
    /\ \E how \in {"skipped", "bound"} :
        Runs([run EXCEPT !.left = @ - 1, !.said = FALSE], UnitDone(View, how))

EndsUnit ==
    /\ Going("unit")
    /\ \E how \in {"done", "failed"} :
        Runs([run EXCEPT !.at = "after", !.left = @ - 1, !.said = FALSE], UnitDone(View, how))

\* The session recycled, or not: a stop breaks the loop off, and what is no stop
\* ends the run.  A unit that closed its connection meets the same before it is
\* reported.
Recycles == Going("after") /\ ~cancelled /\ Runs(To("between"), View)
BreaksOff(at) == Going(at) /\ cancelled /\ Runs([run EXCEPT !.at = "looped", !.said = FALSE], View)
FailsForGood(at) ==
    /\ Going(at) /\ ~cancelled
    /\ Runs([run EXCEPT !.at = "closing", !.err = TRUE, !.said = FALSE], TakenDown(View))

WritesManifest ==
    /\ Going("looped") \/ (Going("between") /\ run.left = 0)
    /\ Runs(To("manifest"), Phase(View))
Finishes ==
    /\ Going("manifest")
    /\ Runs([run EXCEPT !.at = "finished", !.said = FALSE], TakenDown(View))

\* The manifest could not be written, or the run had failed anyway.
Returns ==
    \/ Going("closing") /\ \E e \in {run.err, TRUE} : Runs([run EXCEPT !.at = "returned", !.err = e], View)
    \/ Going("finished") /\ Runs([run EXCEPT !.at = "returned", !.err = TRUE], View)

Archives ==
    /\ Going("finished")
    /\ Runs([run EXCEPT !.at = "archiving", !.said = FALSE], Phase(View))

\* The summary and the archive's path, on stdout and so past the gauge.
Summarises == Going("archiving") /\ Runs(To("returned"), Printed(View, "summary"))
ArchiveFails ==
    /\ Going("archiving") /\ ~run.said
    /\ Runs([run EXCEPT !.at = "returned", !.err = TRUE], View)

RunSteps ==
    \/ Comments \/ ReturnsEarly \/ FailsEarly \/ Plans \/ StartsUnit \/ SkipsUnit
    \/ Recycles \/ BreaksOff("after") \/ FailsForGood("after") \/ WritesManifest
    \/ Finishes \/ Returns \/ Archives \/ Summarises \/ ArchiveFails

\* What the collector's own answer decides.
UnitSteps == EndsUnit \/ BreaksOff("unit") \/ FailsForGood("unit")

-----------------------------------------------------------------------------
(* The ticker and main.                                                       *)

Ticks ==
    /\ ticker = "ticking"
    /\ Shows(Painted(View))
    /\ UNCHANGED <<tty, run, ticker, told, main>>

\* The channel done is closed, and read when the select comes to it.
TickerExits ==
    /\ ticker = "ticking" /\ main = "stopping"
    /\ ticker' = "exited"
    /\ UNCHANGED <<tty, screen, gauge, run, told, main>>

MainGoes(from, to) == main = from /\ main' = to /\ UNCHANGED <<tty, run, ticker, told>>

ClosesDone == run.at = "returned" /\ MainGoes("running", "stopping") /\ UNCHANGED <<screen, gauge>>

\* Mutant: the stop does not wait for the goroutine.
Joins_atOnce == MainGoes("stopping", "joined") /\ UNCHANGED <<screen, gauge>>
Joins == ticker = "exited" /\ MainGoes("stopping", "joined") /\ UNCHANGED <<screen, gauge>>

TakesDown == MainGoes("joined", "down") /\ Shows(TakenDown(View))

\* The error of Run, and the end of the process.
Ends ==
    /\ MainGoes("down", "exited")
    /\ Shows(IF run.err THEN Printed(View, "error") ELSE View)
    /\ StopSignals

-----------------------------------------------------------------------------
(* The handler's two lines, straight to stderr: the first begins with a       *)
(* newline, which leaves the gauge behind it.                                 *)

TellsStopping ==
    /\ handler = "telling" /\ told = 0 /\ told' = 1
    /\ screen' = [screen EXCEPT !.line = "clean"]
    /\ UNCHANGED <<tty, gauge, run, ticker, main>>
TellsAgain ==
    /\ handler = "telling" /\ told = 1 /\ told' = 2
    /\ Shows(Printed(View, "again"))
    /\ UNCHANGED <<tty, run, ticker, main>>

-----------------------------------------------------------------------------

Init ==
    /\ SigInit
    /\ tty \in BOOLEAN
    /\ screen = [line |-> "clean", spoilt |-> {}]
    /\ gauge = [started |-> FALSE, planned |-> 0, done |-> 0, dirty |-> FALSE, finished |-> FALSE]
    /\ run = [at |-> "before", left |-> Units, said |-> FALSE, err |-> FALSE]
    /\ ticker = IF tty THEN "ticking" ELSE "exited"
    /\ told = 0 /\ main = "running"

Alive == ~killed /\ main # "exited"
Quiet == UNCHANGED sigVars

RunGoes == Alive /\ RunSteps /\ Quiet
UnitEnds == Alive /\ UnitSteps /\ Quiet
Tick == Alive /\ Ticks /\ Quiet
TickerEnds == Alive /\ TickerExits /\ Quiet
Main == Alive /\ (((ClosesDone \/ Joins \/ TakesDown) /\ Quiet) \/ Ends)
Handler ==
    /\ Alive
    /\ \/ (TellsStopping \/ TellsAgain) /\ Quiet
       \/ (TakesSignal \/ (told = 2 /\ HandsBack) \/ Cancels) /\ UNCHANGED cmdVars
Operator == Alive /\ Signal /\ UNCHANGED cmdVars
Gone == ~Alive /\ UNCHANGED vars

Next == RunGoes \/ UnitEnds \/ Tick \/ TickerEnds \/ Main \/ Handler \/ Operator \/ Gone
Spec == Init /\ [][Next]_vars

\* A collector may never answer by itself, and ends once the context it was given
\* is done.  The ticker's select takes the closed channel in the end: the other
\* one fires once a second.
FairSpec ==
    /\ Spec
    /\ WF_vars(RunGoes) /\ WF_vars(UnitEnds /\ cancelled)
    /\ SF_vars(TickerEnds) /\ WF_vars(Main) /\ WF_vars(Handler)

-----------------------------------------------------------------------------
(* Properties.                                                                *)

TypeOK ==
    /\ SigTypeOK
    /\ tty \in BOOLEAN /\ told \in 0..2
    /\ screen.line \in {"clean", "gauge"}
    /\ screen.spoilt \subseteq {"comment", "unit", "phase", "summary", "again", "error"}
    /\ gauge.done + run.left = Units
    /\ gauge.dirty \in BOOLEAN /\ gauge.started \in BOOLEAN /\ gauge.finished \in BOOLEAN
    /\ run.at \in {"before", "between", "unit", "after", "looped", "manifest", "closing",
                     "finished", "archiving", "returned"}
    /\ ticker \in {"ticking", "exited"}
    /\ main \in {"running", "stopping", "joined", "down", "exited"}

\* A gauge on the screen is one the progress knows it has to erase, whoever wrote
\* to the terminal last.
GaugeIsKnown == screen.line = "gauge" => tty /\ gauge.dirty /\ gauge.started

\* Nothing that goes through the gauge lands on it, and neither does the reason
\* the run died, which main prints past it: a failure, a notice or an error is
\* read whole.  (What is written straight to the terminal while the ticker runs
\* has no such promise: the handler's second line, and Run's summary.)
LinesAreReadable == screen.spoilt \cap {"comment", "unit", "phase", "error"} = {}

\* Once main has taken the gauge down none comes back, so the shell's prompt has
\* a line of its own.
NothingIsPaintedAfter == main \in {"down", "exited"} => screen.line = "clean"

\* The gauge never costs a line, on any interleaving with the ticker.
ScreenIsKept == TypeOK /\ GaugeIsKnown /\ LinesAreReadable /\ NothingIsPaintedAfter

\* A ctrl-c ends the command, be it in the middle of a collector that does not
\* answer: the first by cancelling the run, which returns, or a second by killing
\* it; and once the first has cancelled, none is swallowed.
StopIsObeyed ==
    /\ (pending ~> (main = "exited" \/ killed))
    /\ SecondSignalKills
=============================================================================
