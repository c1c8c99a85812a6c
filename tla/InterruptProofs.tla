--------------------------- MODULE InterruptProofs ---------------------------
(* Proofs about the two commands that Interrupt composes with.                *)
(*                                                                            *)
(* Command, for any plan and any number of signals: on every interleaving of  *)
(* the run's callbacks, the ticker, the handler and main, the gauge costs no  *)
(* line and none is painted once main has taken it down; and no ctrl-c is     *)
(* swallowed once the first has cancelled.                                    *)
(*                                                                            *)
(* Host, for any sources, any logs, any disk and any budget: the manifest and *)
(* the exit code answer for what the archive holds, and a source that says it *)
(* read everything has every record the log let it read.                      *)
EXTENDS Command, Host, FiniteSetTheorems, WellFoundedInduction, TLAPS

-----------------------------------------------------------------------------
(* The inductive invariant *)

Speakers == {"comment", "unit", "phase", "summary", "again", "error"}
Through  == {"comment", "unit", "phase", "error"}
Screens  == [line : {"clean", "gauge"}, spoilt : SUBSET Speakers]
Gauges   == [started : BOOLEAN, planned : 0..Units, done : 0..Units, dirty : BOOLEAN,
             finished : BOOLEAN]
Places   == {"before", "between", "unit", "after", "looped", "manifest", "closing",
             "finished", "archiving", "returned"}
RunStates == [at : Places, left : 0..Units, said : BOOLEAN, err : BOOLEAN]

\* A terminal and a gauge that agree: what is painted is known to be, and no line that
\* goes through the gauge was spoilt by it.
Sound(v) ==
    /\ v.s \in Screens /\ v.g \in Gauges
    /\ v.s.line = "gauge" => tty /\ v.g.dirty /\ v.g.started
    /\ v.s.spoilt \cap Through = {}

Typed ==
    /\ SigTypeOK
    /\ tty \in BOOLEAN /\ told \in 0..2 /\ run \in RunStates
    /\ ticker \in {"ticking", "exited"}
    /\ main \in {"running", "stopping", "joined", "down", "exited"}

\* Main waits for the ticker, and the gauge is down from then on.
Down ==
    /\ main \in {"joined", "down", "exited"} => ticker = "exited"
    /\ main \in {"down", "exited"} => screen.line = "clean"

\* The signal is handed back before the context is cancelled.
HandedBack ==
    /\ handler \in {"cancelling", "ended"} => ~caught
    /\ cancelled => ~caught

\* The unit under way is one of those that are left.
UnderWay(r) == r.at = "unit" => r.left > 0

IInv ==
    /\ Typed /\ Sound(View) /\ gauge.done + run.left = Units /\ UnderWay(run)
    /\ Down /\ HandedBack

\* The inductive invariant gives the property the run checks.
LEMMA IInvImplies == IInv => ScreenIsKept
BY DEF IInv, Typed, Sound, Down, View, Screens, Gauges, RunStates, Places, Speakers, Through,
   ScreenIsKept, TypeOK, GaugeIsKnown, LinesAreReadable, NothingIsPaintedAfter

-----------------------------------------------------------------------------
(* What a write to the terminal keeps *)

Views == [s : Screens, g : Gauges]

\* One field of the gauge is set.
Dirtied(g, b)  == [g EXCEPT !.dirty = b]
Finished(g, b) == [g EXCEPT !.finished = b]
Started(g, b)  == [g EXCEPT !.started = b, !.planned = Units]

\* Setting one field of the gauge leaves the others.
LEMMA Setting ==
    ASSUME NEW g \in Gauges, NEW b \in BOOLEAN
    PROVE  /\ Dirtied(g, b) \in Gauges /\ Dirtied(g, b).done = g.done
           /\ Dirtied(g, b).started = g.started /\ Dirtied(g, b).dirty = b
           /\ Finished(g, b) \in Gauges /\ Finished(g, b).done = g.done
           /\ Finished(g, b).started = g.started /\ Finished(g, b).dirty = g.dirty
           /\ Started(g, b) \in Gauges /\ Started(g, b).done = g.done
           /\ Started(g, b).started = b /\ Started(g, b).dirty = g.dirty
<1>1. Dirtied(g, b) = [started |-> g.started, planned |-> g.planned, done |-> g.done,
                       dirty |-> b, finished |-> g.finished]
  BY DEF Gauges, Dirtied
<1>2. Finished(g, b) = [started |-> g.started, planned |-> g.planned, done |-> g.done,
                        dirty |-> g.dirty, finished |-> b]
  BY DEF Gauges, Finished
<1>3. Started(g, b) = [started |-> b, planned |-> Units, done |-> g.done,
                       dirty |-> g.dirty, finished |-> g.finished]
  <2> DEFINE r == [started |-> b, planned |-> g.planned, done |-> g.done,
                   dirty |-> g.dirty, finished |-> g.finished]
  <2>1. [g EXCEPT !.started = b] = r
    BY DEF Gauges
  <2>2. [r EXCEPT !.planned = Units] = [started |-> b, planned |-> Units, done |-> g.done,
                                        dirty |-> g.dirty, finished |-> g.finished]
    OBVIOUS
  <2> HIDE DEF r
  <2> QED
    BY <2>1, <2>2, Zenon DEF Started
<1>4. Dirtied(g, b) \in Gauges /\ Finished(g, b) \in Gauges /\ Started(g, b) \in Gauges
  BY <1>1, <1>2, <1>3, CommandAssumption DEF Gauges
<1> QED
  BY <1>1, <1>2, <1>3, <1>4

\* A screen and a gauge that agree are a sound view.
LEMMA Pair ==
    ASSUME NEW s \in Screens, NEW g \in Gauges, s.spoilt \cap Through = {},
           s.line = "gauge" => tty /\ g.dirty /\ g.started
    PROVE  /\ [s |-> s, g |-> g] \in Views /\ Sound([s |-> s, g |-> g])
           /\ [s |-> s, g |-> g].g = g /\ [s |-> s, g |-> g].s = s
BY DEF Views, Sound

\* A view whose gauge is replaced keeps its screen.
LEMMA Regauged ==
    ASSUME NEW v \in Views, NEW g
    PROVE  [v EXCEPT !.g = g] = [s |-> v.s, g |-> g]
BY DEF Views

\* A screen whose line is replaced keeps the list of what was spoilt.
LEMMA Lined ==
    ASSUME NEW s \in Screens, NEW line \in {"clean", "gauge"}
    PROVE  /\ [s EXCEPT !.line = line] \in Screens
           /\ [s EXCEPT !.line = line].line = line
           /\ [s EXCEPT !.line = line].spoilt = s.spoilt
BY DEF Screens

\* The ticker's and the callbacks' repaint.
LEMMA Painting ==
    ASSUME NEW v \in Views, Sound(v), tty \in BOOLEAN
    PROVE  /\ Painted(v) \in Views /\ Sound(Painted(v)) /\ Painted(v).g.done = v.g.done
<1>1. CASE ~tty \/ ~v.g.started
  BY <1>1 DEF Painted
<1>2. CASE ~(~tty \/ ~v.g.started)
  <2> DEFINE s == [v.s EXCEPT !.line = "gauge"]
             g == Dirtied(v.g, TRUE)
  <2>1. v.g.started /\ tty
    BY <1>2
  <2>2. Painted(v) = [s |-> s, g |-> g]
    BY <1>2, Zenon DEF Painted, Dirtied
  <2>3. g \in Gauges /\ g.done = v.g.done /\ g.dirty = TRUE /\ g.started = v.g.started
    BY Setting, Zenon DEF Sound
  <2>4. s \in Screens /\ s.spoilt = v.s.spoilt /\ s.spoilt \cap Through = {}
    BY Lined, Zenon DEF Sound
  <2> HIDE DEF s, g
  <2>5. tty /\ g.dirty /\ g.started
    BY <2>1, <2>3, Zenon
  <2>6. [s |-> s, g |-> g] \in Views /\ Sound([s |-> s, g |-> g]) /\ [s |-> s, g |-> g].g = g
    BY <2>3, <2>4, <2>5, Pair
  <2> QED
    BY <2>2, <2>3, <2>6
<1> QED
  BY <1>1, <1>2

\* The erasure: none is left, whoever asked.
LEMMA Clearing ==
    ASSUME NEW v \in Views, Sound(v), tty \in BOOLEAN
    PROVE  /\ Cleared(v) \in Views /\ Sound(Cleared(v)) /\ Cleared(v).g.done = v.g.done
           /\ Cleared(v).s.line = "clean"
<1>1. CASE tty /\ v.g.dirty
  <2> DEFINE s == [v.s EXCEPT !.line = "clean"]
             g == Dirtied(v.g, FALSE)
  <2>1. Cleared(v) = [s |-> s, g |-> g]
    BY <1>1, Zenon DEF Cleared, Dirtied
  <2>2. g \in Gauges /\ g.done = v.g.done
    BY Setting, Zenon DEF Sound
  <2>3. s \in Screens /\ s.spoilt = v.s.spoilt /\ s.spoilt \cap Through = {} /\ s.line = "clean"
    BY Lined, Zenon DEF Sound
  <2> HIDE DEF s, g
  <2>4. /\ [s |-> s, g |-> g] \in Views /\ Sound([s |-> s, g |-> g])
        /\ [s |-> s, g |-> g].g = g /\ [s |-> s, g |-> g].s = s
    BY <2>2, <2>3, Pair
  <2> QED
    BY <2>1, <2>2, <2>3, <2>4
<1>2. CASE ~(tty /\ v.g.dirty)
  <2>1. Cleared(v) = v
    BY <1>2, Zenon DEF Cleared
  <2>2. v.s.line # "gauge"
    BY <1>2 DEF Sound
  <2>3. v.s.line = "clean"
    BY <2>2 DEF Sound, Screens
  <2> QED
    BY <2>1, <2>3
<1> QED
  BY <1>1, <1>2

\* A line, where no gauge is, or one of those that are promised nothing.
LEMMA Printing ==
    ASSUME NEW v \in Views, Sound(v), NEW who \in Speakers,
           v.s.line = "clean" \/ who \notin Through
    PROVE  /\ Printed(v, who) \in Views /\ Sound(Printed(v, who))
           /\ Printed(v, who).g = v.g /\ Printed(v, who).s.line = "clean"
<1> DEFINE spoilt == IF v.s.line = "gauge" THEN v.s.spoilt \cup {who} ELSE v.s.spoilt
<1>1. Printed(v, who) = [s |-> [line |-> "clean", spoilt |-> spoilt], g |-> v.g]
  BY DEF Printed, Views, Screens
<1>2. spoilt \in SUBSET Speakers /\ spoilt \cap Through = {}
  BY DEF Views, Screens, Sound
<1> QED
  BY <1>1, <1>2 DEF Views, Screens, Sound

-----------------------------------------------------------------------------
(* The run's own writes *)

\* A comment printed through the gauge keeps the view sound.
LEMMA Commenting ==
    ASSUME NEW v \in Views, Sound(v), tty \in BOOLEAN
    PROVE  Commented(v) \in Views /\ Sound(Commented(v)) /\ Commented(v).g.done = v.g.done
<1>1. "comment" \in Speakers
  BY DEF Speakers
<1> QED
  BY <1>1, Clearing, Printing, Painting DEF Commented

\* Taking the gauge down leaves a clean line.
LEMMA TakingDown ==
    ASSUME NEW v \in Views, Sound(v), tty \in BOOLEAN
    PROVE  /\ TakenDown(v) \in Views /\ Sound(TakenDown(v)) /\ TakenDown(v).g.done = v.g.done
           /\ TakenDown(v).s.line = "clean"
<1> DEFINE g == Finished(v.g, TRUE)
           w == [s |-> v.s, g |-> g]
<1>1. g \in Gauges /\ g.done = v.g.done /\ g.dirty = v.g.dirty /\ g.started = v.g.started
  BY Setting, Zenon DEF Sound
<1>2. [v EXCEPT !.g = g] = w
  BY Regauged, Zenon
<1>3. TakenDown(v) = Cleared(w)
  BY <1>2, Zenon DEF TakenDown, Finished
<1> HIDE DEF g
<1>4. w \in Views /\ Sound(w) /\ w.g = g
  BY <1>1, Pair DEF Sound
<1> QED
  BY <1>1, <1>3, <1>4, Clearing

\* Announcing the plan keeps the view sound.
LEMMA Announcing ==
    ASSUME NEW v \in Views, Sound(v), tty \in BOOLEAN
    PROVE  Planned(v) \in Views /\ Sound(Planned(v)) /\ Planned(v).g.done = v.g.done
<1> DEFINE g == Started(v.g, TRUE)
           w == [s |-> v.s, g |-> g]
<1>1. g \in Gauges /\ g.done = v.g.done /\ g.dirty = v.g.dirty /\ g.started = TRUE
  BY Setting, Zenon DEF Sound
<1>2. [v EXCEPT !.g = g] = w
  BY Regauged, Zenon
<1>3. Planned(v) = Painted(w)
  BY <1>2, Zenon DEF Planned, Started
<1> HIDE DEF g
<1>4. w \in Views /\ Sound(w) /\ w.g = g
  BY <1>1, Pair DEF Sound
<1> QED
  BY <1>1, <1>3, <1>4, Painting

\* Announcing a phase keeps the view sound.
LEMMA Phasing ==
    ASSUME NEW v \in Views, Sound(v), tty \in BOOLEAN
    PROVE  Phase(v) \in Views /\ Sound(Phase(v)) /\ Phase(v).g.done = v.g.done
<1>1. "phase" \in Speakers
  BY DEF Speakers
<1> QED
  BY <1>1, Clearing, Printing, Painting DEF Phase

\* The report of a unit keeps the view sound and counts one more unit.
LEMMA Reporting ==
    ASSUME NEW v \in Views, Sound(v), tty \in BOOLEAN, v.g.done + 1 \in 0..Units,
           NEW how \in {"done", "failed", "skipped", "bound"}
    PROVE  UnitDone(v, how) \in Views /\ Sound(UnitDone(v, how))
           /\ UnitDone(v, how).g.done = v.g.done + 1
<1> DEFINE n == [v EXCEPT !.g.done = @ + 1]
<1>1. n = [s |-> v.s, g |-> [v.g EXCEPT !.done = @ + 1]]
  BY DEF Views
<1>2. n \in Views /\ Sound(n) /\ n.g.done = v.g.done + 1
  BY <1>1 DEF Views, Gauges, Sound
<1>3. "unit" \in Speakers
  BY DEF Speakers
<1>4. ~tty => n.s.line = "clean"
  BY <1>2 DEF Sound, Views, Screens
<1> HIDE DEF n
<1>5. CASE how \in {"failed", "skipped"}
  <2>1. UnitDone(v, how) = Painted(Printed(Cleared(n), "unit"))
    BY <1>5 DEF UnitDone, n
  <2> QED
    BY <1>2, <1>3, <2>1, Clearing, Printing, Painting
<1>6. CASE how = "done" /\ ~tty
  <2>1. UnitDone(v, how) = Painted(Printed(n, "unit"))
    BY <1>6 DEF UnitDone, n
  <2> QED
    BY <1>2, <1>3, <1>4, <1>6, <2>1, Printing, Painting
<1>7. CASE ~(how \in {"failed", "skipped"}) /\ ~(how = "done" /\ ~tty)
  <2>1. UnitDone(v, how) = Painted(n)
    BY <1>7, Zenon DEF UnitDone, n
  <2> QED
    BY <1>2, <2>1, Painting
<1> QED
  BY <1>5, <1>6, <1>7

-----------------------------------------------------------------------------
(* A step of the run *)

\* One field of the run is set.
Placed(r, at)    == [r EXCEPT !.at = at]
Said(r, b)   == [r EXCEPT !.said = b]
Erred(r, b) == [r EXCEPT !.err = b]
Fewer(r)     == [r EXCEPT !.left = @ - 1]

\* Setting one field of the run leaves the others.
LEMMA Advancing ==
    ASSUME NEW r \in RunStates, NEW at \in Places, NEW b \in BOOLEAN
    PROVE  /\ Placed(r, at) \in RunStates /\ Placed(r, at).left = r.left /\ Placed(r, at).at = at
           /\ Said(r, b) \in RunStates /\ Said(r, b).left = r.left /\ Said(r, b).at = r.at
           /\ Erred(r, b) \in RunStates /\ Erred(r, b).left = r.left /\ Erred(r, b).at = r.at
           /\ r.left > 0 => /\ Fewer(r) \in RunStates /\ Fewer(r).left = r.left - 1
                            /\ Fewer(r).at = r.at
<1>1. Placed(r, at) = [at |-> at, left |-> r.left, said |-> r.said, err |-> r.err]
  BY DEF RunStates, Placed
<1>2. Said(r, b) = [at |-> r.at, left |-> r.left, said |-> b, err |-> r.err]
  BY DEF RunStates, Said
<1>3. Erred(r, b) = [at |-> r.at, left |-> r.left, said |-> r.said, err |-> b]
  BY DEF RunStates, Erred
<1>4. Fewer(r) = [at |-> r.at, left |-> r.left - 1, said |-> r.said, err |-> r.err]
  BY DEF RunStates, Fewer
<1>5. /\ Placed(r, at) \in RunStates /\ Said(r, b) \in RunStates /\ Erred(r, b) \in RunStates
      /\ r.left > 0 => Fewer(r) \in RunStates
  BY <1>1, <1>2, <1>3, <1>4, CommandAssumption DEF RunStates
<1> QED
  BY <1>1, <1>2, <1>3, <1>4, <1>5

\* The run is in the hands of main until it returns, so it never paints after.
LEMMA RunKeeps ==
    ASSUME IInv, NEW next \in RunStates, NEW v \in Views, Runs(next, v), Quiet,
           Sound(v), v.g.done + next.left = Units, UnderWay(next)
    PROVE  IInv'
<1>1. /\ main = "running" /\ run' = next /\ screen' = v.s /\ gauge' = v.g
      /\ UNCHANGED <<tty, ticker, told, main>> /\ UNCHANGED sigVars
  BY DEF Runs, Shows, Quiet
<1>2. Typed'
  BY <1>1 DEF IInv, Typed, SigTypeOK, sigVars
<1>3. Sound(View)' /\ UnderWay(run)'
  BY <1>1 DEF Sound, View, UnderWay
<1>4. Down' /\ HandedBack'
  BY <1>1 DEF IInv, Down, HandedBack, sigVars
<1> QED
  BY <1>1, <1>2, <1>3, <1>4 DEF IInv

\* What a run step starts from.
LEMMA Here ==
    ASSUME IInv
    PROVE  /\ View \in Views /\ Sound(View) /\ View.g = gauge /\ View.s = screen
           /\ tty \in BOOLEAN /\ run \in RunStates /\ run.err \in BOOLEAN /\ run.left \in 0..Units
           /\ View.g.done + run.left = Units /\ View.g.done \in Nat /\ UnderWay(run)
BY CommandAssumption DEF IInv, Typed, Sound, View, Views, RunStates, Gauges

\* The steps of the collection, one per callback, keep IInv.
LEMMA RunStepKeeps == ASSUME IInv, RunGoes \/ UnitEnds PROVE IInv'
<1> USE Here
<1>0. Quiet /\ (RunSteps \/ UnitSteps)
  BY DEF RunGoes, UnitEnds
<1>a. \A p \in {"before", "between", "unit", "after", "looped", "manifest", "closing",
                "finished", "archiving", "returned"} : p \in Places
  BY DEF Places
\* Whatever the step writes, the counts are those of before, but for a unit reported.
<1>b. ASSUME NEW v \in Views, Sound(v), v.g.done = View.g.done,
             NEW next \in RunStates, next.left = run.left, UnderWay(next), Runs(next, v)
      PROVE  IInv'
  BY <1>0, <1>b, RunKeeps
<1>c. ASSUME NEW how \in {"done", "failed", "skipped", "bound"}, run.left > 0,
             NEW next \in RunStates, next.left = run.left - 1, next.at # "unit",
             Runs(next, UnitDone(View, how))
      PROVE  IInv'
  <2>1. View.g.done + 1 \in 0..Units
    BY <1>c, CommandAssumption
  <2>2. /\ UnitDone(View, how) \in Views /\ Sound(UnitDone(View, how))
        /\ UnitDone(View, how).g.done = View.g.done + 1
    BY <2>1, Reporting
  <2>3. UnitDone(View, how).g.done + next.left = Units /\ UnderWay(next)
    BY <1>c, <2>2 DEF UnderWay
  <2> QED
    BY <1>0, <1>c, <2>2, <2>3, RunKeeps
\* Where a step leaves the run when no unit is reported.
<1>d. ASSUME NEW at \in Places, at # "unit" \/ run.left > 0, NEW e \in BOOLEAN
      PROVE  /\ Placed(run, at) \in RunStates /\ UnderWay(Placed(run, at)) /\ Placed(run, at).left = run.left
             /\ LET r == Said(Placed(run, at), FALSE)
                IN  r \in RunStates /\ UnderWay(r) /\ r.left = run.left
             /\ LET r == Erred(Placed(run, at), e)
                IN  r \in RunStates /\ UnderWay(r) /\ r.left = run.left
             /\ LET r == Said(Erred(Placed(run, at), e), FALSE)
                IN  r \in RunStates /\ UnderWay(r) /\ r.left = run.left
  <2>1. Placed(run, at) \in RunStates /\ Placed(run, at).left = run.left /\ Placed(run, at).at = at
    BY Advancing
  <2>2. /\ Erred(Placed(run, at), e) \in RunStates /\ Erred(Placed(run, at), e).left = run.left
        /\ Erred(Placed(run, at), e).at = at
    BY <2>1, Advancing
  <2>3. /\ Said(Placed(run, at), FALSE) \in RunStates /\ Said(Placed(run, at), FALSE).left = run.left
        /\ Said(Placed(run, at), FALSE).at = at
    BY <2>1, Advancing
  <2>4. /\ Said(Erred(Placed(run, at), e), FALSE) \in RunStates
        /\ Said(Erred(Placed(run, at), e), FALSE).left = run.left
        /\ Said(Erred(Placed(run, at), e), FALSE).at = at
    BY <2>2, Advancing
  <2> QED
    BY <1>d, <2>1, <2>2, <2>3, <2>4 DEF UnderWay
<1>1. CASE Comments
  <2>1. Runs(Said(run, TRUE), Commented(View))
    BY <1>1 DEF Comments, Said
  <2>2. Said(run, TRUE) \in RunStates /\ Said(run, TRUE).left = run.left
        /\ Said(run, TRUE).at = run.at
    BY <1>a, Advancing
  <2>3. UnderWay(Said(run, TRUE))
    BY <2>2 DEF UnderWay
  <2>4. /\ Commented(View) \in Views /\ Sound(Commented(View))
        /\ Commented(View).g.done = View.g.done
    BY Commenting
  <2> QED
    BY <1>b, <2>1, <2>2, <2>3, <2>4
<1>2. CASE ReturnsEarly
  <2>1. Runs(Erred(Placed(run, "returned"), TRUE), View)
    BY <1>2, Zenon DEF ReturnsEarly, Erred, Placed
  <2> QED
    BY <1>a, <1>b, <1>d, <2>1
<1>3. CASE FailsEarly
  <2>1. PICK e \in BOOLEAN : Runs(Said(Erred(Placed(run, "closing"), e), FALSE), TakenDown(View))
    BY <1>3, Zenon DEF FailsEarly, Erred, Placed, Said
  <2> QED
    BY <1>a, <1>b, <1>d, <2>1, TakingDown
<1>4. CASE Plans
  <2>1. Runs(Said(Placed(run, "between"), FALSE), Planned(View))
    BY <1>4, Zenon DEF Plans, Placed, Said
  <2> QED
    BY <1>a, <1>b, <1>d, <2>1, Announcing
<1>5. CASE StartsUnit
  <2>1. Runs(Said(Placed(run, "unit"), FALSE), Painted(View)) /\ run.left > 0
    BY <1>5, Zenon DEF StartsUnit, Placed, Said
  <2> QED
    BY <1>a, <1>b, <1>d, <2>1, Painting
<1>6. CASE SkipsUnit
  <2>1. PICK how \in {"skipped", "bound"} : Runs(Said(Fewer(run), FALSE), UnitDone(View, how))
    BY <1>6, Zenon DEF SkipsUnit, Fewer, Said
  <2>2. run.left > 0 /\ run.at = "between"
    BY <1>6 DEF SkipsUnit, Going
  <2>3. /\ Said(Fewer(run), FALSE) \in RunStates /\ Said(Fewer(run), FALSE).left = run.left - 1
        /\ Said(Fewer(run), FALSE).at = "between"
    <3>1. Fewer(run) \in RunStates /\ Fewer(run).left = run.left - 1 /\ Fewer(run).at = "between"
      BY <2>2, <1>a, Advancing
    <3> QED
      BY <1>a, <3>1, Advancing
  <2>4. how \in {"done", "failed", "skipped", "bound"}
    OBVIOUS
  <2> QED
    BY <1>c, <2>1, <2>2, <2>3, <2>4
<1>7. CASE EndsUnit
  <2>1. PICK how \in {"done", "failed"} :
            Runs(Said(Fewer(Placed(run, "after")), FALSE), UnitDone(View, how))
    BY <1>7, Zenon DEF EndsUnit, Fewer, Said, Placed
  <2>2. run.left > 0
    BY <1>7 DEF EndsUnit, Going, UnderWay
  <2>3. /\ Said(Fewer(Placed(run, "after")), FALSE) \in RunStates
        /\ Said(Fewer(Placed(run, "after")), FALSE).left = run.left - 1
        /\ Said(Fewer(Placed(run, "after")), FALSE).at = "after"
    <3>1. /\ Placed(run, "after") \in RunStates /\ Placed(run, "after").left = run.left
          /\ Placed(run, "after").at = "after"
      BY <1>a, Advancing
    <3>2. /\ Fewer(Placed(run, "after")) \in RunStates /\ Fewer(Placed(run, "after")).left = run.left - 1
          /\ Fewer(Placed(run, "after")).at = "after"
      BY <1>a, <2>2, <3>1, Advancing
    <3> QED
      BY <1>a, <3>2, Advancing
  <2>4. how \in {"done", "failed", "skipped", "bound"}
    OBVIOUS
  <2> QED
    BY <1>c, <2>1, <2>2, <2>3, <2>4
<1>8. CASE Recycles
  <2>1. Runs(Placed(run, "between"), View)
    BY <1>8, Zenon DEF Recycles, To, Placed
  <2> QED
    BY <1>a, <1>b, <1>d, <2>1
<1>9. CASE BreaksOff("after") \/ BreaksOff("unit")
  <2>1. Runs(Said(Placed(run, "looped"), FALSE), View)
    BY <1>9, Zenon DEF BreaksOff, Placed, Said
  <2> QED
    BY <1>a, <1>b, <1>d, <2>1
<1>10. CASE FailsForGood("after") \/ FailsForGood("unit")
  <2>1. Runs(Said(Erred(Placed(run, "closing"), TRUE), FALSE), TakenDown(View))
    BY <1>10, Zenon DEF FailsForGood, Placed, Said, Erred
  <2> QED
    BY <1>a, <1>b, <1>d, <2>1, TakingDown
<1>11. CASE WritesManifest
  <2>1. Runs(Placed(run, "manifest"), Phase(View))
    BY <1>11, Zenon DEF WritesManifest, To, Placed
  <2> QED
    BY <1>a, <1>b, <1>d, <2>1, Phasing
<1>12. CASE Finishes
  <2>1. Runs(Said(Placed(run, "finished"), FALSE), TakenDown(View))
    BY <1>12, Zenon DEF Finishes, Placed, Said
  <2> QED
    BY <1>a, <1>b, <1>d, <2>1, TakingDown
<1>13. CASE Returns
  <2>1. \E e \in {run.err, TRUE} : Runs(Erred(Placed(run, "returned"), e), View)
    BY <1>13, Zenon DEF Returns, Placed, Erred
  <2>2. PICK e \in BOOLEAN : Runs(Erred(Placed(run, "returned"), e), View)
    BY <2>1
  <2> QED
    BY <1>a, <1>b, <1>d, <2>2
<1>14. CASE Archives
  <2>1. Runs(Said(Placed(run, "archiving"), FALSE), Phase(View))
    BY <1>14, Zenon DEF Archives, Placed, Said
  <2> QED
    BY <1>a, <1>b, <1>d, <2>1, Phasing
<1>15. CASE Summarises
  <2>1. Runs(Placed(run, "returned"), Printed(View, "summary"))
    BY <1>15, Zenon DEF Summarises, To, Placed
  <2>2. "summary" \in Speakers \ Through
    BY DEF Speakers, Through
  <2>3. /\ Printed(View, "summary") \in Views /\ Sound(Printed(View, "summary"))
        /\ Printed(View, "summary").g = View.g
    BY <2>2, Printing
  <2> QED
    BY <1>a, <1>b, <1>d, <2>1, <2>3
<1>16. CASE ArchiveFails
  <2>1. Runs(Erred(Placed(run, "returned"), TRUE), View)
    BY <1>16, Zenon DEF ArchiveFails, Erred, Placed
  <2> QED
    BY <1>a, <1>b, <1>d, <2>1
<1> QED
  BY <1>0, <1>1, <1>2, <1>3, <1>4, <1>5, <1>6, <1>7, <1>8, <1>9, <1>10, <1>11, <1>12, <1>13,
     <1>14, <1>15, <1>16 DEF RunSteps, UnitSteps

-----------------------------------------------------------------------------
(* The ticker, main, the handler and the operator *)

\* A write by somebody else than the run.
LEMMA OthersKeep ==
    ASSUME IInv, NEW v \in Views, Sound(v), v.g.done = View.g.done, Shows(v),
           UNCHANGED <<tty, run>>, Typed', HandedBack',
           main' \in {"joined", "down", "exited"} => ticker' = "exited",
           main' \in {"down", "exited"} => v.s.line = "clean"
    PROVE  IInv'
<1>1. screen' = v.s /\ gauge' = v.g
  BY DEF Shows
<1>2. Sound(View)' /\ UnderWay(run)'
  BY <1>1 DEF IInv, Sound, View, UnderWay
<1>3. Down'
  BY <1>1 DEF Down
<1>4. gauge'.done + run'.left = Units
  BY <1>1, Here
<1> QED
  BY <1>2, <1>3, <1>4 DEF IInv

\* A step that writes nothing leaves the view.
LEMMA Shown == ASSUME IInv, UNCHANGED <<screen, gauge>> PROVE Shows(View)
BY DEF Shows, View

\* The steps of the ticker keep IInv.
LEMMA TickerKeeps == ASSUME IInv, Tick \/ TickerEnds PROVE IInv'
<1> USE Here
<1>1. /\ ticker = "ticking" /\ ticker' \in {"ticking", "exited"}
      /\ UNCHANGED <<tty, run, told, main>> /\ UNCHANGED sigVars
  BY DEF Tick, TickerEnds, Ticks, TickerExits, Quiet
<1>2. Typed' /\ HandedBack'
  BY <1>1 DEF IInv, Typed, SigTypeOK, HandedBack, sigVars
<1>3. main' \notin {"joined", "down", "exited"}
  BY <1>1 DEF IInv, Down
<1>4. CASE Shows(Painted(View))
  BY <1>1, <1>2, <1>3, <1>4, Painting, OthersKeep
<1>5. CASE UNCHANGED <<screen, gauge>>
  BY <1>1, <1>2, <1>3, <1>5, Shown, OthersKeep
<1> QED
  BY <1>4, <1>5 DEF Tick, TickerEnds, Ticks, TickerExits

\* The steps of main keep IInv.
LEMMA MainKeeps == ASSUME IInv, Main PROVE IInv'
<1> USE Here
<1>1. UNCHANGED <<tty, run, ticker, told>>
  BY DEF Main, ClosesDone, Joins, TakesDown, Ends, MainGoes
<1>2. CASE (ClosesDone \/ Joins \/ TakesDown) /\ Quiet
  <2>1. main' \in {"stopping", "joined", "down"} /\ UNCHANGED sigVars
    BY <1>2 DEF ClosesDone, Joins, TakesDown, MainGoes, Quiet
  <2>2. Typed' /\ HandedBack'
    BY <1>1, <2>1 DEF IInv, Typed, SigTypeOK, HandedBack, sigVars
  <2>3. main' \in {"joined", "down", "exited"} => ticker' = "exited"
    BY <1>1, <1>2 DEF IInv, Down, ClosesDone, Joins, TakesDown, MainGoes
  <2>4. CASE ClosesDone \/ Joins
    <3>1. main' \notin {"down", "exited"} /\ UNCHANGED <<screen, gauge>>
      BY <2>4 DEF ClosesDone, Joins, MainGoes
    <3> QED
      BY <1>1, <2>2, <2>3, <3>1, Shown, OthersKeep
  <2>5. CASE TakesDown
    <3>1. Shows(TakenDown(View))
      BY <2>5 DEF TakesDown
    <3> QED
      BY <1>1, <2>2, <2>3, <3>1, TakingDown, OthersKeep
  <2> QED
    BY <1>2, <2>4, <2>5
<1>3. CASE Ends
  <2>1. main = "down" /\ main' = "exited" /\ StopSignals
    BY <1>3 DEF Ends, MainGoes
  <2>2. screen.line = "clean" /\ ticker' = "exited"
    BY <1>1, <2>1 DEF IInv, Down
  <2>3. Typed' /\ HandedBack'
    BY <1>1, <2>1 DEF IInv, Typed, SigTypeOK, HandedBack, StopSignals
  <2>4. CASE run.err
    <3>1. Shows(Printed(View, "error"))
      BY <1>3, <2>4, Zenon DEF Ends
    <3>2. "error" \in Speakers
      BY DEF Speakers
    <3>3. /\ Printed(View, "error") \in Views /\ Sound(Printed(View, "error"))
          /\ Printed(View, "error").g = View.g /\ Printed(View, "error").s.line = "clean"
      BY <2>2, <3>2, Printing
    <3> QED
      BY <1>1, <2>2, <2>3, <3>1, <3>3, OthersKeep
  <2>5. CASE ~run.err
    <3>1. Shows(View)
      BY <1>3, <2>5, Zenon DEF Ends
    <3> QED
      BY <1>1, <2>2, <2>3, <3>1, OthersKeep
  <2> QED
    BY <2>4, <2>5
<1> QED
  BY <1>2, <1>3 DEF Main

\* The steps of the interrupt handler keep IInv.
LEMMA HandlerKeeps == ASSUME IInv, Handler PROVE IInv'
<1> USE Here
<1>1. CASE (TellsStopping \/ TellsAgain) /\ Quiet
  <2>1. UNCHANGED <<tty, run, ticker, main>> /\ UNCHANGED sigVars /\ told' \in 1..2
    BY <1>1 DEF TellsStopping, TellsAgain, Quiet
  <2>2. Typed' /\ HandedBack'
    BY <2>1 DEF IInv, Typed, SigTypeOK, HandedBack, sigVars
  <2>3. CASE TellsStopping
    <3> DEFINE s == [screen EXCEPT !.line = "clean"]
    <3>1. screen' = s /\ gauge' = gauge
      BY <2>3 DEF TellsStopping
    <3>2. s \in Screens /\ s.line = "clean" /\ s.spoilt = screen.spoilt
      BY Lined DEF Sound, View
    <3> HIDE DEF s
    <3>3. s.spoilt \cap Through = {} /\ gauge \in Gauges
      BY <3>2 DEF Sound, View
    <3>4. /\ [s |-> s, g |-> gauge] \in Views /\ Sound([s |-> s, g |-> gauge])
          /\ [s |-> s, g |-> gauge].g = gauge /\ [s |-> s, g |-> gauge].s = s
      BY <3>2, <3>3, Pair
    <3>5. Shows([s |-> s, g |-> gauge])
      BY <3>1, <3>4 DEF Shows
    <3>6. main' \in {"joined", "down", "exited"} => ticker' = "exited"
      BY <2>1 DEF IInv, Down
    <3> QED
      BY <2>1, <2>2, <3>2, <3>4, <3>5, <3>6, OthersKeep
  <2>4. CASE TellsAgain
    <3>1. Shows(Printed(View, "again"))
      BY <2>4 DEF TellsAgain
    <3>2. "again" \in Speakers \ Through
      BY DEF Speakers, Through
    <3>3. /\ Printed(View, "again") \in Views /\ Sound(Printed(View, "again"))
          /\ Printed(View, "again").g = View.g /\ Printed(View, "again").s.line = "clean"
      BY <3>2, Printing
    <3>4. main' \in {"joined", "down", "exited"} => ticker' = "exited"
      BY <2>1 DEF IInv, Down
    <3> QED
      BY <2>1, <2>2, <3>1, <3>3, <3>4, OthersKeep
  <2> QED
    BY <1>1, <2>3, <2>4
<1>2. CASE (TakesSignal \/ (told = 2 /\ HandsBack) \/ Cancels) /\ UNCHANGED cmdVars
  <2>1. UNCHANGED <<tty, run, ticker, told, main>> /\ UNCHANGED <<screen, gauge>>
    BY <1>2 DEF cmdVars
  <2>2. Typed' /\ HandedBack'
    <3>1. CASE TakesSignal
      BY <2>1, <3>1 DEF IInv, Typed, SigTypeOK, HandedBack, TakesSignal
    <3>2. CASE HandsBack
      BY <2>1, <3>2 DEF IInv, Typed, SigTypeOK, HandedBack, HandsBack
    <3>3. CASE Cancels
      BY <2>1, <3>3 DEF IInv, Typed, SigTypeOK, HandedBack, Cancels
    <3> QED
      BY <1>2, <3>1, <3>2, <3>3
  <2>3. /\ main' \in {"joined", "down", "exited"} => ticker' = "exited"
        /\ main' \in {"down", "exited"} => View.s.line = "clean"
    BY <2>1 DEF IInv, Down
  <2> QED
    BY <2>1, <2>2, <2>3, Shown, OthersKeep
<1> QED
  BY <1>1, <1>2 DEF Handler

\* The operator, and a stutter, keep IInv.
LEMMA OperatorKeeps == ASSUME IInv, Operator \/ UNCHANGED vars PROVE IInv'
<1> USE Here
<1>1. UNCHANGED <<tty, run, ticker, told, main>> /\ UNCHANGED <<screen, gauge>>
  BY DEF Operator, cmdVars, vars
<1>2. Typed' /\ HandedBack'
  <2>1. CASE Signal
    BY <1>1, <2>1, CommandAssumption DEF IInv, Typed, SigTypeOK, HandedBack, Signal
  <2>2. CASE UNCHANGED sigVars
    BY <1>1, <2>2 DEF IInv, Typed, SigTypeOK, HandedBack, sigVars
  <2> QED
    BY <2>1, <2>2 DEF Operator, vars
<1>3. /\ main' \in {"joined", "down", "exited"} => ticker' = "exited"
      /\ main' \in {"down", "exited"} => View.s.line = "clean"
  BY <1>1 DEF IInv, Down
<1> QED
  BY <1>1, <1>2, <1>3, Shown, OthersKeep

-----------------------------------------------------------------------------
(* The invariant holds *)

\* The inductive invariant holds initially.
LEMMA InitIInv == ASSUME Init PROVE IInv
<1>1. Typed /\ HandedBack
  <2>1. SigTypeOK
    <3>1. sent \in 0..MaxSignals
      BY CommandAssumption DEF Init, SigInit
    <3>2. caught \in BOOLEAN /\ pending \in BOOLEAN /\ cancelled \in BOOLEAN /\ killed \in BOOLEAN
      BY Zenon DEF Init, SigInit
    <3> QED
      BY <3>1, <3>2 DEF Init, SigInit, SigTypeOK
  <2>3. HandedBack
    <3>1. handler \notin {"cancelling", "ended"} /\ ~cancelled
      BY DEF Init, SigInit
    <3> QED
      BY <3>1, Zenon DEF HandedBack
  <2>2. run \in RunStates
    BY CommandAssumption DEF Init, RunStates, Places
  <2> QED
    BY <2>1, <2>2, <2>3 DEF Init, Typed
<1>3. Down /\ UnderWay(run) /\ gauge.done + run.left = Units
  BY CommandAssumption DEF Init, Down, UnderWay
<1>2. Sound(View)
  BY CommandAssumption DEF Init, Sound, View, Screens, Gauges, Through, Speakers
<1> QED
  BY <1>1, <1>2, <1>3 DEF IInv

\* Every step of the system keeps IInv.
LEMMA Inductive == ASSUME IInv, [Next]_vars PROVE IInv'
BY RunStepKeeps, TickerKeeps, MainKeeps, HandlerKeeps, OperatorKeeps DEF Next, Gone

\* IInv holds of every behaviour of the command.
THEOREM Invariance == Spec => []IInv
<1>1. Init => IInv
  BY InitIInv
<1>2. IInv /\ [Next]_vars => IInv'
  BY Inductive
<1> QED
  BY <1>1, <1>2, PTL DEF Spec

\* The gauge is repainted by the run's callbacks and by a ticker of its own
\* (progress.go), and is erased before every line that goes through it: on every
\* interleaving with the handler and with main, none of those lines lands on it, and
\* none is painted once main has taken it down for the shell's prompt.
THEOREM ScreenKept == Spec => []ScreenIsKept
BY Invariance, IInvImplies, PTL

\* A ctrl-c sent after the first one has cancelled the run meets the system's own
\* disposition: the handler gives the signal back before it cancels (main.go:
\* interruptibleOn).
THEOREM SecondKills == Spec => SecondSignalKills
<1>1. IInv /\ [Next]_vars => [sent' # sent /\ cancelled => killed']_sigVars
  <2> SUFFICES ASSUME IInv, [Next]_vars, sent' # sent, cancelled
               PROVE  killed'
    OBVIOUS
  <2>1. CASE Operator
    BY <2>1 DEF Operator, Signal, IInv, HandedBack
  <2>2. CASE ~Operator
    <3>1. sent' = sent
      BY <2>2 DEF Next, RunGoes, UnitEnds, Tick, TickerEnds, Main, Handler, Gone, Quiet, Ends,
         StopSignals, TakesSignal, HandsBack, Cancels, vars, sigVars
    <3> QED
      BY <3>1
  <2> QED
    BY <2>1, <2>2
<1> QED
  BY <1>1, Invariance, PTL DEF Spec, SecondSignalKills

-----------------------------------------------------------------------------
(* Host: the inductive invariant *)

Sources ==
    {s \in [name : STRING, kind : Kinds] :
        /\ s.kind = "events" <=> s.name \in Channels
        /\ s.kind = "sqlwriter" <=> s.name = "sqlwriter"}
Titles == STRING \cup {None}
Asked == {"1", "2", "2c", "3a", "3b", "4"}
Envs == [facts : BOOLEAN, match : BOOLEAN, decided : BOOLEAN,
         steps : {None, "refused", "error", "read"}, count : Nat]
EntryNames == {<<"MANIFEST.txt">>} \cup (Titles \X {"json"}) \cup (Titles \X Nat \X Nat)
Zips == [made : BOOLEAN, there : BOOLEAN, entries : Seq([name : EntryNames, whole : BOOLEAN]),
             broken : BOOLEAN, closed : BOOLEAN, stray : BOOLEAN]
Notes == [entry : Titles \X Nat \X Nat, file : Disk,
          verdict : {"copied", "budget", "refused", "window"}]
Lists == {l \in SUBSET (Asked \X Nat) : IsFiniteSet(l)}
Outcomes ==
    [name : Titles, status : Statuses, files : SUBSET Notes, bad : BOOLEAN, list : Lists,
     cut : SUBSET (Asked \X Nat), counted : Nat, notRun : SUBSET OwnQueries,
     noted : SUBSET {"refused", "changed", "nothing"}]
Reading ==
    [src : [name : Titles, kind : Kinds \cup {None}],
     at : {"idle", "open", "queries", "writing", "files", "steps"},
     res : Outcomes, queries : Seq(Asked), todo : SUBSET Disk, left : Int, step : Nat, err : BOOLEAN]
PipeStates ==
    [writer : {None, "writing", "eof", "error"}, left : Int, offered : BOOLEAN,
     sink : {None, "copying", "eof", "error", "disk"}, shut : BOOLEAN]
Before_ == {"check", "connect", "facts", "machine", "steps", "create"}
Over == {"returned", "exited"}

HostTyped ==
    /\ SigTypeOK
    /\ pc \in Before_ \cup Over \cup {"loop", "reading", "manifest", "close", "verdict", "abort"}
    /\ env \in Envs /\ (env.match => env.facts)
    /\ plan \in Seq(Sources) /\ log \in Logs
    /\ arch \in Zips /\ cur \in Reading /\ pipe \in PipeStates
    /\ results \in Seq(Outcomes) /\ code \in {0, 2, Running}

\* The source that is read, and which of its steps it is at.
Placed_(c) ==
    /\ c.at # "idle" => c.src \in Sources
    /\ c.at \in {"queries", "writing"} => c.src.kind = "events" /\ c.src.name \in DOMAIN log
    /\ c.at = "files" => c.src.kind \in {"sqlwriter", "extensions"}
    /\ c.at = "steps" <=> c.src.kind = "jobs" /\ c.at \notin {"idle", "open"}
    /\ c.at = "open" => c = Opened(c.src)
    /\ c.at # "steps" => c.step = 0 /\ ~c.err
    /\ c.src.kind \notin {"sqlwriter", "extensions", "jobs"} => c.res.files = {}
    /\ c.res.name = c.src.name /\ c.res.status = "read"

Piped ==
    /\ pipe.writer # None => cur.at = "writing"
    /\ pipe.writer = None <=> pipe.sink = None
    /\ pipe.sink = "eof" => pipe.writer = "eof"

\* Where Run is.
Onward ==
    /\ (pc = "reading") <=> (cur.at # "idle")
    /\ pc # "reading" => cur = Idle /\ pipe = NoPipe
    /\ Placed_(cur) /\ Piped
    /\ pc \in Before_ => arch = NoArchive /\ results = <<>>
    /\ pc \in {"loop", "reading", "manifest", "close", "abort"} =>
          arch.there /\ ~arch.closed /\ ~arch.stray
    /\ pc \in {"manifest", "close", "verdict"} => plan = <<>>
    /\ pc = "close" => arch.broken \/ <<"MANIFEST.txt">> \in Names
    /\ pc = "verdict" => /\ arch.there /\ arch.closed /\ ~arch.broken /\ ~arch.stray
                         /\ <<"MANIFEST.txt">> \in Names
    /\ pc \in {"create", "loop", "reading", "manifest", "close", "verdict"} =>
          (env.match => env.steps # None)
    /\ (code # Running) <=> pc \in Over

-----------------------------------------------------------------------------
(* The account of what was copied. *)

NamesOf(a) == {a.entries[i].name : i \in DOMAIN a.entries}
WholeOf(a) == {a.entries[i].name : i \in {j \in DOMAIN a.entries : a.entries[j].whole}}
Torn(a) == \E i \in DOMAIN a.entries : ~a.entries[i].whole
Filed(a) == {n \in NamesOf(a) : Len(n) = 3}
AFailure(rs) == \E i \in DOMAIN rs : rs[i].status = "failed"
ListedOf(rs) == UNION {FilesOf(rs[i]) : i \in DOMAIN rs}

\* An archive holds whole what is listed; and, as long as nothing went wrong, nothing
\* that is not, and nothing that is cut.
Accounted(a, listed, wrong) ==
    /\ listed \subseteq WholeOf(a)
    /\ wrong \/ (Filed(a) \subseteq listed /\ ~Torn(a))

Wrong == arch.broken \/ AFailure(results) \/ cur.err \/ pipe.sink \in {"error", "disk"}

Accounts ==
    /\ Accounted(arch, ListedOf(results) \cup FilesOf(cur.res), Wrong)
    /\ \A i \in DOMAIN results : results[i].status = "skipped" => ~env.match

\* What an archive that was not given up is.
Concluded ==
    /\ code = 0 => ExitZeroIsWhole
    /\ AbandonedLeavesNothing

HostInv == HostTyped /\ Onward /\ Accounts /\ Concluded


-----------------------------------------------------------------------------
(* Host: that nothing is missing without a word *)

\* What is told of one query of a channel, of what the log l holds.
Met(l, c, q) == {i \in 1..Len(l[c]) : q \in l[c][i].queries}
Read_(l, c, q) == {i \in Met(l, c, q) : ~l[c][i].bad}
NewerThanCut(l, r, q, n) == \A x \in r.cut : x[1] = q => l[r.name][n].time > x[2]
Tells(l, r, q) ==
    /\ q # "2c" => \A i \in Read_(l, r.name, q) :
          NewerThanCut(l, r, q, i) => <<q, l[r.name][i].id>> \in r.list
    /\ q = "2c" => r.counted = Cardinality(Read_(l, r.name, q))
    /\ \A i \in Met(l, r.name, q) : l[r.name][i].bad /\ NewerThanCut(l, r, q, i) => r.bad
TellsAll(l, r) ==
    r.name \in DOMAIN l /\ r.status = "read" => \A q \in Matched(r.name) \ r.notRun : Tells(l, r, q)
Complete(l, rs) == \A i \in DOMAIN rs : TellsAll(l, rs[i])

\* The queries of the channel that are still to be asked.
Yet(qs) == {qs[i] : i \in DOMAIN qs}
TellsSoFar(l, c) ==
    \A q \in Matched(c.src.name) \ c.res.notRun : q \in Yet(c.queries) \/ Tells(l, c.res, q)

\* A run that a ctrl-c has not met has told everything so far; and one that goes
\* on to its manifest was not met.
SaysAll ==
    /\ pc \in {"loop", "reading"} => cancelled \/ Complete(log, results)
    /\ pc \in {"manifest", "close", "verdict"} \/ Kept_ => Complete(log, results)
    /\ cur.at \in {"queries", "writing"} => cancelled \/ TellsSoFar(log, cur)
    /\ cur.at = "writing" => cur.queries = <<>>

\* What the budget of a source has let in and kept out.
ComesAfter(name, y, x) ==
    \/ y.entry[2] < x.entry[2]
    \/ y.entry[2] = x.entry[2] /\ Before(name, y.file, x.file)
InOrder(name, files) ==
    \A x \in files : x.verdict = "budget" =>
        /\ \A y \in files : y.verdict = "copied" => ComesAfter(name, y, x)
        /\ name = "sqlwriter" /\ x.file.active => x.file.size > Budget /\ TailBytes > Budget

\* The files still to come follow those of the same step that have been noted;
\* none is copied after one that was over the budget; and the active log is the
\* first to be charged.
Charged(c) ==
    /\ InOrder(c.src.name, c.res.files)
    /\ \A z \in c.res.files : /\ z.entry[2] <= c.step
                              /\ z.entry[2] = c.step => \A t \in c.todo : Before(c.src.name, z.file, t)
    /\ \A z \in c.res.files : z.verdict = "budget" => c.left < 0
    /\ \A t \in c.todo : c.src.name = "sqlwriter" /\ t.active => c.left = Budget

TellInv ==
    /\ SaysAll
    /\ \A i \in DOMAIN results : InOrder(results[i].name, results[i].files)
    /\ Charged(cur)

-----------------------------------------------------------------------------
(* What a Put does to the account *)

\* An entry more, and the list and the disk's first error with it.
With(a, name, whole, bad) ==
    [a EXCEPT !.entries = Append(@, [name |-> name, whole |-> whole]), !.broken = bad]

\* Two fields of an archive are set.
LEMMA Entered ==
    ASSUME NEW a \in Zips, NEW es, NEW bad
    PROVE  [a EXCEPT !.entries = es, !.broken = bad] =
               [made |-> a.made, there |-> a.there, entries |-> es, broken |-> bad,
                closed |-> a.closed, stray |-> a.stray]
<1> DEFINE r == [made |-> a.made, there |-> a.there, entries |-> es, broken |-> a.broken,
                 closed |-> a.closed, stray |-> a.stray]
<1>1. [a EXCEPT !.entries = es] = r
  BY DEF Zips
<1>2. [r EXCEPT !.broken = bad] = [made |-> a.made, there |-> a.there, entries |-> es,
                                   broken |-> bad, closed |-> a.closed, stray |-> a.stray]
  OBVIOUS
<1> HIDE DEF r
<1> QED
  BY <1>1, <1>2, Zenon

\* One field of it is.
LEMMA EnteredAlone ==
    ASSUME NEW a \in Zips, NEW es
    PROVE  [a EXCEPT !.entries = es] =
               [made |-> a.made, there |-> a.there, entries |-> es, broken |-> a.broken,
                closed |-> a.closed, stray |-> a.stray]
BY DEF Zips

\* One entry more is the only difference.
LEMMA Appending ==
    ASSUME NEW a \in Zips, NEW name \in EntryNames, NEW whole \in BOOLEAN, NEW bad \in BOOLEAN
    PROVE  LET b == With(a, name, whole, bad) IN
           /\ b \in Zips /\ b.broken = bad
           /\ b.made = a.made /\ b.there = a.there /\ b.closed = a.closed /\ b.stray = a.stray
           /\ NamesOf(b) = NamesOf(a) \cup {name}
           /\ whole => WholeOf(b) = WholeOf(a) \cup {name} /\ (Torn(b) <=> Torn(a))
           /\ WholeOf(a) \subseteq WholeOf(b)
<1> DEFINE e == [name |-> name, whole |-> whole]
           b == With(a, name, whole, bad)
           es == Append(a.entries, e)
           n == Len(a.entries)
<1>1. b = [made |-> a.made, there |-> a.there, entries |-> es, broken |-> bad,
           closed |-> a.closed, stray |-> a.stray]
  BY Entered, Zenon DEF With
<1>2. a.entries \in Seq([name : EntryNames, whole : BOOLEAN])
  BY DEF Zips
<1>3. /\ e \in [name : EntryNames, whole : BOOLEAN] /\ e.name = name /\ e.whole = whole
      /\ es \in Seq([name : EntryNames, whole : BOOLEAN])
  BY <1>2
<1>w. e.whole <=> whole
  BY Zenon
<1> HIDE DEF e
<1>4. /\ n \in Nat /\ DOMAIN a.entries = 1..n /\ DOMAIN es = 1..(n + 1)
      /\ es[n + 1] = e /\ \A i \in 1..n : es[i] = a.entries[i]
  BY <1>2, <1>3
<1> HIDE DEF n, es, b
<1>5. b \in Zips /\ b.entries = es
  BY <1>1, <1>3 DEF Zips
<1>6. NamesOf(b) = NamesOf(a) \cup {name}
  <2>1. ASSUME NEW x \in NamesOf(b) PROVE x \in NamesOf(a) \cup {name}
    BY <1>3, <1>4, <1>5, <2>1 DEF NamesOf
  <2>2. ASSUME NEW x \in NamesOf(a) PROVE x \in NamesOf(b)
    <3>1. PICK i \in 1..n : x = a.entries[i].name
      BY <1>4, <2>2 DEF NamesOf
    <3>2. i \in DOMAIN es /\ es[i].name = x
      BY <1>4, <3>1
    <3> QED
      BY <1>5, <3>2 DEF NamesOf
  <2>3. name \in NamesOf(b)
    <3>1. n + 1 \in DOMAIN es /\ es[n + 1].name = name
      BY <1>3, <1>4
    <3> QED
      BY <1>5, <3>1 DEF NamesOf
  <2> QED
    BY <2>1, <2>2, <2>3
<1>7. WholeOf(a) \subseteq WholeOf(b)
  <2> SUFFICES ASSUME NEW x \in WholeOf(a) PROVE x \in WholeOf(b)
    OBVIOUS
  <2>1. PICK i \in 1..n : a.entries[i].whole /\ x = a.entries[i].name
    BY <1>4 DEF WholeOf
  <2>2. i \in DOMAIN es /\ es[i].whole /\ es[i].name = x
    BY <1>4, <2>1
  <2> QED
    BY <1>5, <2>2 DEF WholeOf
<1>8. ASSUME whole PROVE WholeOf(b) = WholeOf(a) \cup {name} /\ (Torn(b) <=> Torn(a))
  <2>1. ASSUME NEW x \in WholeOf(b) PROVE x \in WholeOf(a) \cup {name}
    <3>1. PICK i \in 1..(n + 1) : es[i].whole /\ x = es[i].name
      BY <1>4, <1>5, <2>1 DEF WholeOf
    <3>2. CASE i = n + 1
      BY <1>3, <1>4, <3>1, <3>2
    <3>3. CASE i \in 1..n
      BY <1>4, <3>1, <3>3 DEF WholeOf
    <3> QED
      BY <1>4, <3>1, <3>2, <3>3
  <2>2. name \in WholeOf(b)
    <3>0. e.whole
      BY <1>8, <1>w, Zenon
    <3>1. n + 1 \in DOMAIN es /\ es[n + 1].name = name /\ es[n + 1].whole
      BY <1>3, <1>4, <3>0
    <3> QED
      BY <1>5, <3>1 DEF WholeOf
  <2>3. ASSUME Torn(b) PROVE Torn(a)
    <3>1. PICK i \in 1..(n + 1) : ~es[i].whole
      BY <1>4, <1>5, <2>3 DEF Torn
    <3>0. e.whole
      BY <1>8, <1>w, Zenon
    <3>2. i \in 1..n
      BY <1>3, <1>4, <3>0, <3>1
    <3> QED
      BY <1>4, <3>1, <3>2 DEF Torn
  <2>4. ASSUME Torn(a) PROVE Torn(b)
    <3>1. PICK i \in 1..n : ~a.entries[i].whole
      BY <1>4, <2>4 DEF Torn
    <3>2. i \in DOMAIN es /\ ~es[i].whole
      BY <1>4, <3>1
    <3> QED
      BY <1>5, <3>2 DEF Torn
  <2> QED
    BY <1>7, <2>1, <2>2, <2>3, <2>4
<1>9. /\ b.broken = bad /\ b.made = a.made /\ b.there = a.there /\ b.closed = a.closed
      /\ b.stray = a.stray
  BY <1>1
<1> QED
  BY <1>5, <1>6, <1>7, <1>8, <1>9 DEF b

\* What stays of an archive as long as Run writes to it.
Open(a, b) == b \in Zips /\ b.there = a.there /\ b.closed = a.closed /\ b.stray = a.stray

\* The three things Put may do, or the fourth when the archive is broken.
LEMMA Putting ==
    ASSUME NEW a \in Zips, NEW name \in EntryNames, NEW mayFail \in BOOLEAN,
           NEW p \in Put(a, name, mayFail)
    PROVE  /\ p.ok \in BOOLEAN /\ Open(a, p.arch) /\ WholeOf(a) \subseteq WholeOf(p.arch)
           /\ p.ok => /\ ~a.broken /\ ~p.arch.broken
                      /\ NamesOf(p.arch) = NamesOf(a) \cup {name}
                      /\ WholeOf(p.arch) = WholeOf(a) \cup {name} /\ (Torn(p.arch) <=> Torn(a))
           /\ ~p.ok => p.arch.broken \/ mayFail
           /\ a.broken => p.arch.broken
<1>1. CASE a.broken
  <2>1. p = [arch |-> a, ok |-> FALSE]
    BY <1>1 DEF Put
  <2> QED
    BY <1>1, <2>1 DEF Open
<1>2. CASE ~a.broken
  <2>1. \/ p = [arch |-> With(a, name, TRUE, FALSE), ok |-> TRUE]
        \/ p = [arch |-> With(a, name, FALSE, TRUE), ok |-> FALSE]
        \/ p = [arch |-> With(a, name, FALSE, FALSE), ok |-> FALSE] /\ mayFail
    BY <1>2, Zenon DEF Put, With
  <2>2. CASE p = [arch |-> With(a, name, TRUE, FALSE), ok |-> TRUE]
    <3> DEFINE b == With(a, name, TRUE, FALSE)
    <3>1. /\ b \in Zips /\ b.broken = FALSE
          /\ b.made = a.made /\ b.there = a.there /\ b.closed = a.closed /\ b.stray = a.stray
          /\ NamesOf(b) = NamesOf(a) \cup {name}
          /\ WholeOf(b) = WholeOf(a) \cup {name} /\ (Torn(b) <=> Torn(a))
      BY Appending, Zenon
    <3>2. p.arch = b /\ p.ok = TRUE
      BY <2>2
    <3> HIDE DEF b
    <3> QED
      BY <1>2, <3>1, <3>2 DEF Open
  <2>3. ASSUME NEW bad \in BOOLEAN, p = [arch |-> With(a, name, FALSE, bad), ok |-> FALSE],
               bad \/ mayFail
        PROVE  /\ p.ok = FALSE /\ Open(a, p.arch) /\ WholeOf(a) \subseteq WholeOf(p.arch)
               /\ p.arch.broken \/ mayFail
    <3> DEFINE no == FALSE
               b == With(a, name, no, bad)
    <3>0. no \in BOOLEAN
      OBVIOUS
    <3> HIDE DEF no
    <3>1. /\ b \in Zips /\ b.broken = bad
          /\ b.made = a.made /\ b.there = a.there /\ b.closed = a.closed /\ b.stray = a.stray
          /\ WholeOf(a) \subseteq WholeOf(b)
      BY <3>0, Appending
    <3>2. p.arch = b /\ p.ok = FALSE
      BY <2>3 DEF no
    <3> HIDE DEF b
    <3> QED
      BY <2>3, <3>1, <3>2 DEF Open
  <2>4. CASE p = [arch |-> With(a, name, FALSE, TRUE), ok |-> FALSE]
    BY <1>2, <2>3, <2>4
  <2>5. CASE p = [arch |-> With(a, name, FALSE, FALSE), ok |-> FALSE] /\ mayFail
    BY <1>2, <2>3, <2>5
  <2> QED
    BY <2>1, <2>2, <2>4, <2>5, Zenon
<1> QED
  BY <1>1, <1>2 DEF Zips

\* A Put that succeeds accounts for what it wrote.
LEMMA PutAccounts ==
    ASSUME NEW a \in Zips, NEW name \in EntryNames, NEW mayFail \in BOOLEAN,
           NEW p \in Put(a, name, mayFail), NEW listed, NEW wrong,
           Accounted(a, listed, wrong), p.ok
    PROVE  /\ name \in Titles \X Nat \X Nat => Accounted(p.arch, listed \cup {name}, wrong)
           /\ Len(name) # 3 => Accounted(p.arch, listed, wrong)
<1>1. /\ NamesOf(p.arch) = NamesOf(a) \cup {name}
      /\ WholeOf(p.arch) = WholeOf(a) \cup {name} /\ (Torn(p.arch) <=> Torn(a))
  BY Putting, Zenon
<1> QED
  BY <1>1 DEF Accounted, Filed

-----------------------------------------------------------------------------
(* The results *)

\* A result with nothing in it yet.
LEMMA Fresh ==
    ASSUME NEW status \in Statuses, NEW name \in Titles
    PROVE  LET r == Result(status, name) IN
           /\ r \in Outcomes /\ r.status = status /\ r.name = name /\ r.files = {}
           /\ r.bad = FALSE /\ r.list = {} /\ r.cut = {} /\ r.counted = 0 /\ r.notRun = {}
           /\ r.noted = {} /\ FilesOf(r) = {}
<1> DEFINE r == Result(status, name)
<1>1. {} \in Lists
  BY FS_EmptySet DEF Lists
<1>2. r = [name |-> name, status |-> status, files |-> {}, bad |-> FALSE, list |-> {},
           cut |-> {}, counted |-> 0, notRun |-> {}, noted |-> {}]
  BY DEF Result
<1>3. r \in Outcomes
  BY <1>1, <1>2 DEF Outcomes
<1> QED
  BY <1>2, <1>3 DEF FilesOf

\* A source that has just been opened, or none.
LEMMA Opening ==
    ASSUME NEW name \in Titles, NEW kind \in Kinds \cup {None}
    PROVE  LET s == [name |-> name, kind |-> kind]
               c == Opened(s) IN
           /\ c \in Reading /\ c.src = s /\ c.at = "open" /\ c.res = Result("read", name)
           /\ c.queries = <<>> /\ c.todo = {} /\ c.left = Budget /\ c.step = 0 /\ c.err = FALSE
<1> DEFINE s == [name |-> name, kind |-> kind]
           c == Opened(s)
<1>1. "read" \in Statuses
  BY DEF Statuses
<1>2. Result("read", name) \in Outcomes
  BY <1>1, Fresh
<1>3. c = [src |-> s, at |-> "open", res |-> Result("read", name), queries |-> <<>>, todo |-> {},
           left |-> Budget, step |-> 0, err |-> FALSE]
  BY DEF Opened
<1>4. <<>> \in Seq(Asked) /\ Budget \in Int /\ s \in [name : Titles, kind : Kinds \cup {None}]
  BY HostAssumption
<1> HIDE DEF s
<1>5. /\ c \in Reading /\ c.src = s /\ c.at = "open" /\ c.res = Result("read", name)
      /\ c.queries = <<>> /\ c.todo = {} /\ c.left = Budget /\ c.step = 0 /\ c.err = FALSE
  <2>1. s \in [name : Titles, kind : Kinds \cup {None}] /\ {} \in SUBSET Disk /\ 0 \in Nat
        /\ FALSE \in BOOLEAN
    BY <1>4
  <2> HIDE DEF c
  <2>2. /\ c.src = s /\ c.at = "open" /\ c.res = Result("read", name)
        /\ c.queries = <<>> /\ c.todo = {} /\ c.left = Budget /\ c.step = 0 /\ c.err = FALSE
    BY <1>3
  <2> QED
    BY <1>2, <1>3, <1>4, <2>1, <2>2 DEF Reading
<1> QED
  BY <1>5, Zenon DEF s

\* What cur is when no source is read.
LEMMA Idling ==
    /\ Idle \in Reading /\ Idle.at = "idle" /\ Idle.err = FALSE /\ FilesOf(Idle.res) = {}
    /\ Idle.res = Result("read", None) /\ Idle.src.kind = None /\ Placed_(Idle)
    /\ NoPipe \in PipeStates /\ NoPipe.writer = None /\ NoPipe.sink = None
<1> DEFINE n == None
           s == [name |-> n, kind |-> n]
           c == Opened(s)
<1>1. n \in Titles /\ n \in Kinds \cup {None} /\ n \notin Kinds /\ "read" \in Statuses
  <2>0. n \in Titles /\ n \in Kinds \cup {None}
    BY DEF Titles
  <2>2. n \notin Kinds
    BY DEF None, Kinds
  <2>3. "read" \in Statuses
    BY DEF Statuses
  <2> QED
    BY <2>0, <2>2, <2>3
<1>2. s.name = n /\ s.kind = n
  OBVIOUS
<1>3. Idle = [c EXCEPT !.at = "idle"]
  BY Zenon DEF Idle
<1> HIDE DEF n
<1>4. /\ c \in Reading /\ c.src = s /\ c.res = Result("read", n) /\ c.step = 0 /\ c.err = FALSE
      /\ c.todo = {}
  BY <1>1, Opening, Zenon
<1>5. /\ Result("read", n) \in Outcomes /\ Result("read", n).status = "read"
      /\ Result("read", n).name = n /\ Result("read", n).files = {}
      /\ FilesOf(Result("read", n)) = {}
  BY <1>1, Fresh, ZenonT(60)
<1> HIDE DEF c
<1>6. /\ Idle \in Reading /\ Idle.at = "idle" /\ Idle.src = c.src /\ Idle.res = c.res
      /\ Idle.step = c.step /\ Idle.err = c.err
  BY <1>3, <1>4 DEF Reading
<1>7. Placed_(Idle)
  BY <1>1, <1>2, <1>4, <1>5, <1>6 DEF Placed_, Kinds
<1>8. NoPipe \in PipeStates /\ NoPipe.writer = None /\ NoPipe.sink = None
  BY DEF NoPipe, PipeStates
<1> QED
  BY <1>2, <1>4, <1>5, <1>6, <1>7, <1>8 DEF n

\* One result more.
LEMMA Listing ==
    ASSUME NEW rs \in Seq(Outcomes), NEW r \in Outcomes
    PROVE  /\ Append(rs, r) \in Seq(Outcomes)
           /\ ListedOf(Append(rs, r)) = ListedOf(rs) \cup FilesOf(r)
           /\ AFailure(Append(rs, r)) <=> AFailure(rs) \/ r.status = "failed"
           /\ \A P \in SUBSET Outcomes :
                 (\A i \in DOMAIN rs : rs[i] \in P) /\ r \in P
                     => \A i \in DOMAIN Append(rs, r) : Append(rs, r)[i] \in P
<1> DEFINE n == Len(rs)
           es == Append(rs, r)
<1>1. /\ n \in Nat /\ DOMAIN rs = 1..n /\ DOMAIN es = 1..(n + 1) /\ es \in Seq(Outcomes)
      /\ es[n + 1] = r /\ \A i \in 1..n : es[i] = rs[i]
  OBVIOUS
<1> HIDE DEF n, es
<1>2. ListedOf(es) = ListedOf(rs) \cup FilesOf(r)
  <2>1. ASSUME NEW x \in ListedOf(es) PROVE x \in ListedOf(rs) \cup FilesOf(r)
    <3>1. PICK i \in 1..(n + 1) : x \in FilesOf(es[i])
      BY <1>1, <2>1, Zenon DEF ListedOf
    <3>2. CASE i \in 1..n
      BY <1>1, <3>1, <3>2, Zenon DEF ListedOf
    <3>3. CASE i = n + 1
      BY <1>1, <3>1, <3>3
    <3> QED
      BY <1>1, <3>2, <3>3
  <2>2. ASSUME NEW x \in ListedOf(rs) PROVE x \in ListedOf(es)
    <3>1. PICK i \in 1..n : x \in FilesOf(rs[i])
      BY <1>1, <2>2, Zenon DEF ListedOf
    <3>2. i \in DOMAIN es /\ x \in FilesOf(es[i])
      BY <1>1, <3>1
    <3> QED
      BY <3>2, Zenon DEF ListedOf
  <2>3. ASSUME NEW x \in FilesOf(r) PROVE x \in ListedOf(es)
    <3>1. n + 1 \in DOMAIN es /\ x \in FilesOf(es[n + 1])
      BY <1>1, <2>3
    <3> QED
      BY <3>1, Zenon DEF ListedOf
  <2> QED
    BY <2>1, <2>2, <2>3
<1>3. AFailure(es) <=> AFailure(rs) \/ r.status = "failed"
  <2>1. n + 1 \in DOMAIN es
    BY <1>1
  <2> QED
    BY <1>1, <2>1 DEF AFailure
<1>4. ASSUME NEW P \in SUBSET Outcomes, \A i \in DOMAIN rs : rs[i] \in P, r \in P
      PROVE  \A i \in DOMAIN es : es[i] \in P
  BY <1>1, <1>4
<1> QED
  BY <1>1, <1>2, <1>3, <1>4 DEF es

-----------------------------------------------------------------------------
(* What a step of a source keeps *)

\* The source is still read: its account stays right.
LEMMA StaysKeeps ==
    ASSUME HostInv, pc = "reading", UNCHANGED <<pc, env, plan, log, results, code>>,
           UNCHANGED sigVars, cur' \in Reading, cur'.at # "idle", pipe' \in PipeStates,
           Placed_(cur'), Piped', Open(arch, arch'),
           Accounted(arch', ListedOf(results) \cup FilesOf(cur'.res),
                     arch'.broken \/ AFailure(results) \/ cur'.err \/ pipe'.sink \in {"error", "disk"})
    PROVE  HostInv'
<1>1. HostTyped'
  BY DEF HostInv, HostTyped, SigTypeOK, sigVars, Open
<1>2. Onward'
  <2>1. Placed_(cur)'
    BY DEF Placed_
  <2> QED
    BY <2>1 DEF HostInv, HostTyped, Onward, Open, Before_, Over, Reading
<1>3. Accounts'
  BY DEF HostInv, Accounts, Wrong
<1>4. Concluded'
  <2>1. pc' = "reading" /\ code' = Running
    BY DEF HostInv, Onward, Over
  <2> QED
    BY <2>1 DEF Concluded, AbandonedLeavesNothing, Running
<1> QED
  BY <1>1, <1>2, <1>3, <1>4 DEF HostInv

\* The source is done with: its account is the run's.
LEMMA DoneKeeps ==
    ASSUME HostInv, pc = "reading", NEW res \in Outcomes, NEW a, Open(arch, a), Done(res, a),
           UNCHANGED sigVars, res.status = "skipped" => ~env.match,
           Accounted(a, ListedOf(results) \cup FilesOf(res),
                     a.broken \/ AFailure(results) \/ res.status = "failed")
    PROVE  HostInv'
<1>1. /\ results' = Append(results, res) /\ cur' = Idle /\ arch' = a /\ pipe' = NoPipe
      /\ pc' \in {"abort", "loop"} /\ UNCHANGED <<env, plan, log, code>>
  BY DEF Done
<1>2. results \in Seq(Outcomes)
  BY DEF HostInv, HostTyped
<1>3. /\ results' \in Seq(Outcomes) /\ ListedOf(results') = ListedOf(results) \cup FilesOf(res)
      /\ AFailure(results') <=> AFailure(results) \/ res.status = "failed"
  BY <1>1, <1>2, Listing
<1>4. HostTyped'
  BY <1>1, <1>3, Idling DEF HostInv, HostTyped, SigTypeOK, sigVars, Open
<1>5. Onward'
  <2>1. Placed_(cur)'
    BY <1>1, Idling DEF Placed_
  <2> QED
    BY <1>1, <2>1, Idling DEF HostInv, HostTyped, Onward, Open, Before_, Over, Piped
<1>6. Accounts'
  <2>1. Accounted(a, ListedOf(results') \cup FilesOf(cur'.res), Wrong')
    <3>1. FilesOf(cur'.res) = {}
      BY <1>1, Idling
    <3>2. a.broken \/ AFailure(results) \/ res.status = "failed" => Wrong'
      BY <1>1, <1>3 DEF Wrong
    <3> QED
      BY <1>3, <3>1, <3>2 DEF Accounted
  <2>2. \A i \in DOMAIN results' : results'[i].status = "skipped" => ~env.match
    <3> DEFINE P == {r \in Outcomes : r.status = "skipped" => ~env.match}
    <3>1. \A i \in DOMAIN results : results[i] \in P
      BY <1>2 DEF HostInv, Accounts
    <3>2. res \in P /\ P \in SUBSET Outcomes
      OBVIOUS
    <3>3. \A i \in DOMAIN results' : results'[i] \in P
      <4> HIDE DEF P
      <4> QED
        BY <1>1, <1>2, <3>1, <3>2, Listing
    <3> QED
      BY <3>3
  <2> QED
    BY <1>1, <2>1, <2>2 DEF Accounts
<1>7. Concluded'
  <2>1. pc' \in {"abort", "loop"} /\ code' = Running
    BY <1>1 DEF HostInv, Onward, Over
  <2> QED
    BY <2>1 DEF Concluded, AbandonedLeavesNothing, Running
<1> QED
  BY <1>4, <1>5, <1>6, <1>7 DEF HostInv

-----------------------------------------------------------------------------
(* The event logs *)

Below == {r \in Nat \X Nat : r[1] < r[2]}

\* There is no way down from a number for ever.
LEMMA NoWayDown == IsWellFoundedOn(Below, Nat)
BY NatLessThanWellFounded DEF OpToRel, Below

\* A set of numbers that is not empty has a smallest one.
LEMMA Smallest ==
    ASSUME NEW S \in SUBSET Nat, S # {}
    PROVE  Min(S) \in S /\ \A y \in S : Min(S) <= y
<1>1. PICK x \in S : \A y \in S : <<y, x>> \notin Below
  BY NoWayDown, WFMin
<1>2. \A y \in S : ~(y < x)
  BY <1>1 DEF Below
<1>3. \A y \in S : x <= y
  BY <1>2
<1> QED
  BY <1>3 DEF Min

\* And one that has a bound has a greatest one.
LEMMA Greatest ==
    ASSUME NEW n \in Nat, NEW S \in SUBSET (1..n), S # {}
    PROVE  Max(S) \in S /\ \A y \in S : y <= Max(S)
<1> DEFINE B == {k \in Nat : \A y \in S : y <= k}
           m == Min(B)
<1>1. n \in B
  OBVIOUS
<1>2. m \in B /\ \A k \in B : m <= k
  <2> HIDE DEF B
  <2>1. B \in SUBSET Nat
    BY DEF B
  <2> QED
    BY <1>1, <2>1, Smallest
<1>3. m \in Nat /\ \A y \in S : y <= m
  BY <1>2
<1> HIDE DEF m
<1>4. m \in S
  <2> SUFFICES ASSUME m \notin S PROVE FALSE
    OBVIOUS
  <2>1. PICK y \in S : TRUE
    OBVIOUS
  <2>2. m >= 1
    BY <1>3, <2>1
  <2>3. \A z \in S : z <= m - 1
    BY <1>3
  <2>4. m - 1 \in B
    BY <1>3, <2>2, <2>3
  <2> QED
    BY <1>2, <1>3, <2>4
<1> QED
  BY <1>3, <1>4 DEF Max

Records(c) == [id : Nat, time : Nat, queries : SUBSET Matched(c), bad : BOOLEAN]

\* The log of a channel, newest first.
LEMMA Logged ==
    ASSUME log \in Logs, NEW c \in DOMAIN log
    PROVE  /\ c \in Channels /\ log[c] \in Seq(Records(c)) /\ Len(log[c]) \in Nat
           /\ \A i \in 1..Len(log[c]) : log[c][i] \in Records(c)
           /\ \A i, j \in 1..Len(log[c]) : i < j => log[c][i].time >= log[c][j].time
<1>1. /\ DOMAIN log \subseteq Channels /\ log[c] \in Seq(Records(c))
      /\ \A i, j \in DOMAIN log[c] : i < j => log[c][i].time >= log[c][j].time
  BY HostAssumption, Zenon DEF Records
<1>2. Len(log[c]) \in Nat /\ DOMAIN log[c] = 1..Len(log[c])
  BY <1>1
<1> QED
  BY <1>1, <1>2

\* The records a query matches, of the n newest.
LEMMA Indexed ==
    ASSUME NEW c, NEW q, NEW n \in Nat
    PROVE  /\ Kept(c, q, n) \subseteq Parsed(c, q, n) /\ Parsed(c, q, n) \subseteq Matching(c, q, n)
           /\ Matching(c, q, n) \subseteq 1..n
           /\ IsFiniteSet(Kept(c, q, n)) /\ IsFiniteSet(Parsed(c, q, n))
           /\ Cardinality(Parsed(c, q, n)) \in Nat
<1>1. /\ Kept(c, q, n) \subseteq Parsed(c, q, n) /\ Parsed(c, q, n) \subseteq Matching(c, q, n)
      /\ Matching(c, q, n) \subseteq 1..n
  BY DEF Kept, Parsed, Matching
<1>2. IsFiniteSet(1..n)
  BY FS_Interval
<1>3. IsFiniteSet(Kept(c, q, n)) /\ IsFiniteSet(Parsed(c, q, n))
  BY <1>1, <1>2, FS_Subset
<1> QED
  BY <1>1, <1>3, FS_CardinalityType

\* What a query may read ends where the log does; and when it has more events than the
\* cap, where the first past it is.
LEMMA Reaching ==
    ASSUME NEW c, NEW q, Len(log[c]) \in Nat
    PROVE  /\ Reach(c, q) \in 0..Len(log[c])
           /\ Past(c, q, Len(log[c])) => Past(c, q, Reach(c, q))
           /\ ~Past(c, q, Len(log[c])) => Reach(c, q) = Len(log[c])
<1> DEFINE S == {n \in 1..Len(log[c]) : Past(c, q, n)}
<1>1. CASE ~Past(c, q, Len(log[c]))
  BY <1>1 DEF Reach
<1>2. CASE Past(c, q, Len(log[c]))
  <2>1. Len(log[c]) # 0
    <3> SUFFICES ASSUME Len(log[c]) = 0 PROVE FALSE
      OBVIOUS
    <3>1. Parsed(c, q, 0) = {}
      BY Indexed
    <3>2. Cardinality(Parsed(c, q, 0)) = 0
      BY <3>1, FS_EmptySet
    <3> QED
      BY <1>2, <3>2, HostAssumption DEF Past
  <2>2. S # {} /\ S \in SUBSET Nat
    BY <1>2, <2>1
  <2>3. Min(S) \in S
    <3> HIDE DEF S
    <3> QED
      BY <2>2, Smallest
  <2>4. Reach(c, q) = Min(S)
    BY <1>2, Zenon DEF Reach
  <2> QED
    BY <1>2, <2>3, <2>4
<1> QED
  BY <1>1, <1>2

\* A query that is past its cap has kept something.
LEMMA KeepsSome ==
    ASSUME NEW c, NEW q, NEW n \in Nat, Past(c, q, n)
    PROVE  Kept(c, q, n) # {} /\ Max(Kept(c, q, n)) \in Kept(c, q, n)
           /\ \A i \in Kept(c, q, n) : i <= Max(Kept(c, q, n))
<1> DEFINE P == Parsed(c, q, n)
           m == Min(P)
<1>1. P \subseteq 1..n /\ P \in SUBSET Nat
  BY Indexed
<1>2. P # {}
  <2> SUFFICES ASSUME P = {} PROVE FALSE
    OBVIOUS
  <2>1. Cardinality(P) = 0
    BY FS_EmptySet
  <2> QED
    BY <2>1, HostAssumption DEF Past
<1>3. m \in P /\ \A y \in P : m <= y
  <2> HIDE DEF P
  <2> QED
    BY <1>1, <1>2, Smallest
<1>4. {j \in P : j <= m} = {m}
  BY <1>1, <1>3
<1>5. Cardinality({j \in P : j <= m}) = 1
  BY <1>4, FS_Singleton
<1>6. m \in Kept(c, q, n)
  BY <1>3, <1>5, HostAssumption DEF Kept
<1>7. Kept(c, q, n) \in SUBSET (1..n)
  BY <1>1 DEF Kept
<1> QED
  BY <1>6, <1>7, Greatest

\* The events of the records kept.
LEMMA Listed_ ==
    ASSUME NEW c, NEW q, NEW n \in Nat, NEW list, IsFiniteSet(list)
    PROVE  IsFiniteSet(list \cup {<<q, log[c][i].id>> : i \in Kept(c, q, n)})
<1> DEFINE T == {<<q, log[c][i].id>> : i \in Kept(c, q, n)}
           f == [i \in Kept(c, q, n) |-> <<q, log[c][i].id>>]
<1>1. f \in Surjection(Kept(c, q, n), T)
  BY DEF Surjection
<1>2. IsFiniteSet(Kept(c, q, n))
  BY Indexed
<1>3. IsFiniteSet(T)
  <2> HIDE DEF T, f
  <2> QED
    BY <1>1, <1>2, FS_Surjection
<1> QED
  BY <1>3, FS_Union

\* A result with the lists of a query.
Told(r, list, cut, counted, bad) ==
    [name |-> r.name, status |-> r.status, files |-> r.files, bad |-> bad, list |-> list,
     cut |-> cut, counted |-> counted, notRun |-> r.notRun, noted |-> r.noted]

\* Setting the lists leaves the rest.
LEMMA Telling ==
    ASSUME NEW r \in Outcomes, NEW list \in Lists, NEW cut \in SUBSET (Asked \X Nat),
           NEW counted \in Nat, NEW bad \in BOOLEAN
    PROVE  LET t == Told(r, list, cut, counted, bad) IN
           /\ t \in Outcomes /\ t.name = r.name /\ t.status = r.status /\ t.files = r.files
           /\ t.notRun = r.notRun /\ t.bad = bad /\ t.list = list /\ t.cut = cut
           /\ t.counted = counted
BY DEF Outcomes, Told

\* What a query adds to the file of its channel.
LEMMA Recording ==
    ASSUME HostTyped, NEW c \in DOMAIN log, NEW q \in Asked, NEW n \in 0..Len(log[c])
    PROVE  LET r == Recorded(c, q, n)
               badly == \E i \in Matching(c, q, n) : log[c][i].bad IN
           /\ r \in Outcomes /\ r.name = cur.res.name /\ r.status = cur.res.status
           /\ r.files = cur.res.files /\ r.notRun = cur.res.notRun
           /\ r.bad <=> cur.res.bad \/ badly
           /\ q = "2c" => /\ r.counted = Cardinality(Parsed(c, q, n)) /\ r.list = cur.res.list
                          /\ r.cut = cur.res.cut
           /\ q # "2c" => /\ r.counted = cur.res.counted
                          /\ r.list = cur.res.list \cup {<<q, log[c][i].id>> : i \in Kept(c, q, n)}
                          /\ r.cut = cur.res.cut \cup Truncated(c, q, n)
<1> DEFINE badly == \E i \in Matching(c, q, n) : log[c][i].bad
           b == cur.res.bad \/ badly
           r == Recorded(c, q, n)
           more == cur.res.list \cup {<<q, log[c][i].id>> : i \in Kept(c, q, n)}
           cuts == cur.res.cut \cup Truncated(c, q, n)
           k == Cardinality(Parsed(c, q, n))
<1>1. /\ log \in Logs /\ cur.res \in Outcomes /\ cur.res.bad \in BOOLEAN
  BY DEF HostTyped, Reading, Outcomes
<1>2. /\ Len(log[c]) \in Nat /\ n \in Nat /\ n <= Len(log[c])
      /\ \A i \in 1..Len(log[c]) : log[c][i] \in Records(c)
  BY <1>1, Logged
<1>3. \A i \in 1..n : log[c][i].id \in Nat /\ log[c][i].time \in Nat
  BY <1>2 DEF Records
<1>4. /\ Kept(c, q, n) \subseteq 1..n /\ k \in Nat
  BY <1>2, Indexed
<1>5. more \in Lists
  <2>1. IsFiniteSet(more)
    <3>1. IsFiniteSet(cur.res.list)
      BY <1>1 DEF Outcomes, Lists
    <3> QED
      BY <1>2, <3>1, Listed_, ZenonT(60)
  <2>2. more \subseteq Asked \X Nat
    BY <1>1, <1>3, <1>4 DEF Outcomes, Lists
  <2> QED
    BY <2>1, <2>2 DEF Lists
<1>6. cuts \in SUBSET (Asked \X Nat)
  <2>1. ASSUME Past(c, q, n) PROVE log[c][Max(Kept(c, q, n))].time \in Nat
    BY <1>2, <1>3, <1>4, <2>1, KeepsSome
  <2> QED
    BY <1>1, <2>1 DEF Outcomes, Truncated
<1>7. CASE q = "2c"
  <2>1. r = [cur.res EXCEPT !.counted = k, !.bad = b]
    BY <1>7, Zenon DEF Recorded
  <2> HIDE DEF k, b, r
  <2>2. r = Told(cur.res, cur.res.list, cur.res.cut, k, b)
    BY <1>1, <2>1 DEF Outcomes, Told
  <2>3. b \in BOOLEAN
    BY <1>1 DEF b
  <2>4. /\ cur.res.list \in Lists /\ cur.res.cut \in SUBSET (Asked \X Nat) /\ k \in Nat
    BY <1>1, <1>4 DEF Outcomes, k
  <2>5. /\ r \in Outcomes /\ r.name = cur.res.name /\ r.status = cur.res.status
        /\ r.files = cur.res.files /\ r.notRun = cur.res.notRun /\ r.bad = b
        /\ r.counted = k /\ r.list = cur.res.list /\ r.cut = cur.res.cut
    BY <1>1, <2>2, <2>3, <2>4, Telling
  <2> QED
    BY <1>7, <2>5, Zenon DEF b, k, r
<1>8. CASE q # "2c"
  <2>1. r = [cur.res EXCEPT !.list = more, !.cut = cuts, !.bad = b]
    BY <1>8, Zenon DEF Recorded
  <2> HIDE DEF more, cuts, b, r
  <2>2. r = Told(cur.res, more, cuts, cur.res.counted, b)
    BY <1>1, <2>1 DEF Outcomes, Told
  <2>3. b \in BOOLEAN
    BY <1>1 DEF b
  <2>4. more \in Lists /\ cuts \in SUBSET (Asked \X Nat) /\ cur.res.counted \in Nat
    BY <1>1, <1>5, <1>6 DEF Outcomes, more, cuts
  <2>5. /\ r \in Outcomes /\ r.name = cur.res.name /\ r.status = cur.res.status
        /\ r.files = cur.res.files /\ r.notRun = cur.res.notRun /\ r.bad = b
        /\ r.counted = cur.res.counted /\ r.list = more /\ r.cut = cuts
    BY <1>1, <2>2, <2>3, <2>4, Telling
  <2> QED
    BY <1>8, <2>5, Zenon DEF b, more, cuts, r
<1> QED
  BY <1>7, <1>8

-----------------------------------------------------------------------------
(* The ways a source ends *)

\* What a step of a source starts from.
LEMMA Reads_ ==
    ASSUME HostInv, pc = "reading"
    PROVE  /\ cur \in Reading /\ cur.at # "idle" /\ cur.src \in Sources /\ cur.src.name \in Titles
           /\ arch \in Zips /\ pipe \in PipeStates /\ results \in Seq(Outcomes) /\ log \in Logs
           /\ cur.res \in Outcomes /\ cur.res.name = cur.src.name /\ cur.res.status = "read"
           /\ Open(arch, arch) /\ Placed_(cur) /\ Piped
           /\ cur.at # "writing" => pipe.writer = None /\ pipe.sink = None
           /\ cur.at # "steps" => cur.step = 0 /\ ~cur.err
           /\ ListedOf(results) \cup FilesOf(cur.res) \subseteq WholeOf(arch)
           /\ Accounted(arch, ListedOf(results) \cup FilesOf(cur.res), Wrong)
<1>1. /\ cur \in Reading /\ arch \in Zips /\ pipe \in PipeStates /\ results \in Seq(Outcomes)
      /\ log \in Logs /\ cur.at # "idle" /\ Placed_(cur) /\ Piped
  BY DEF HostInv, HostTyped, Onward
<1>2. cur.res \in Outcomes /\ cur.res.name = cur.src.name /\ cur.res.status = "read"
      /\ cur.src \in Sources /\ cur.src.name \in Titles
  BY <1>1 DEF Reading, Placed_
<1>3. /\ cur.at # "writing" => pipe.writer = None /\ pipe.sink = None
      /\ cur.at # "steps" => cur.step = 0 /\ ~cur.err
  BY <1>1 DEF Placed_, Piped
<1>4. Accounted(arch, ListedOf(results) \cup FilesOf(cur.res), Wrong)
  BY DEF HostInv, Accounts
<1>5. ListedOf(results) \cup FilesOf(cur.res) \subseteq WholeOf(arch)
  BY <1>4 DEF Accounted
<1> QED
  BY <1>1, <1>2, <1>3, <1>4, <1>5 DEF Open

\* It failed, and lists no more than it did.
LEMMA FailingKeeps ==
    ASSUME HostInv, pc = "reading", NEW res \in Outcomes, NEW a, Open(arch, a), Done(res, a),
           UNCHANGED sigVars, res.status = "failed", FilesOf(res) \subseteq FilesOf(cur.res),
           WholeOf(arch) \subseteq WholeOf(a)
    PROVE  HostInv'
<1>1. ListedOf(results) \cup FilesOf(cur.res) \subseteq WholeOf(arch)
  BY Reads_
<1>2. Accounted(a, ListedOf(results) \cup FilesOf(res),
                a.broken \/ AFailure(results) \/ res.status = "failed")
  BY <1>1 DEF Accounted
<1> QED
  BY <1>2, DoneKeeps

\* The source failed and lists nothing.
LEMMA FailedKeeps ==
    ASSUME HostInv, pc = "reading", NEW a, Open(arch, a), Done(Failed, a), UNCHANGED sigVars,
           WholeOf(arch) \subseteq WholeOf(a)
    PROVE  HostInv'
<1>1. "failed" \in Statuses
  BY DEF Statuses
<1>2. Failed \in Outcomes /\ Failed.status = "failed" /\ FilesOf(Failed) = {}
  BY <1>1, Reads_, Fresh DEF Failed
<1> QED
  BY <1>2, FailingKeeps

\* A source that has copied nothing, or all it lists, ends without an entry more.
LEMMA EndingKeeps ==
    ASSUME HostInv, pc = "reading", NEW res \in Outcomes, Done(res, arch), UNCHANGED sigVars,
           FilesOf(res) = FilesOf(cur.res), res.status = "skipped" => ~env.match,
           cur.err => res.status = "failed", pipe.sink \notin {"error", "disk"}
    PROVE  HostInv'
<1>1. Accounted(arch, ListedOf(results) \cup FilesOf(res), Wrong) /\ Open(arch, arch)
  BY Reads_
<1>2. Wrong => arch.broken \/ AFailure(results) \/ res.status = "failed"
  BY DEF Wrong
<1>3. Accounted(arch, ListedOf(results) \cup FilesOf(res),
                arch.broken \/ AFailure(results) \/ res.status = "failed")
  BY <1>1, <1>2 DEF Accounted
<1> QED
  BY <1>1, <1>3, DoneKeeps

\* A source that has read nothing says why.
LEMMA WithoutKeeps ==
    ASSUME HostInv, pc = "reading", NEW status \in Statuses \ {"failed"},
           Done(Result(status, cur.src.name), arch), UNCHANGED sigVars,
           FilesOf(cur.res) = {}, status = "skipped" => ~env.match, cur.at # "writing", ~cur.err
    PROVE  HostInv'
<1>1. LET r == Result(status, cur.src.name)
      IN  r \in Outcomes /\ r.status = status /\ FilesOf(r) = {}
  BY Reads_, Fresh
<1>2. pipe.sink = None /\ None \notin {"error", "disk"}
  BY Reads_ DEF None
<1> QED
  BY <1>1, <1>2, EndingKeeps

\* One field of a result is set.
Status(r, s) == [r EXCEPT !.status = s]

\* Setting the status leaves the rest.
LEMMA Stating ==
    ASSUME NEW r \in Outcomes, NEW s \in Statuses
    PROVE  LET t == Status(r, s) IN
           t \in Outcomes /\ t.status = s /\ t.name = r.name /\ t.files = r.files
              /\ FilesOf(t) = FilesOf(r)
<1>1. LET t == Status(r, s)
      IN  t \in Outcomes /\ t.status = s /\ t.name = r.name /\ t.files = r.files
  BY DEF Outcomes, Status
<1> QED
  BY <1>1 DEF FilesOf

\* It is written.
LEMMA WrittenKeeps ==
    ASSUME HostInv, pc = "reading", NEW res \in Outcomes, Written(res), UNCHANGED sigVars,
           FilesOf(res) = FilesOf(cur.res), res.status # "skipped", cur.at # "writing",
           cur.err => res.status = "failed"
    PROVE  HostInv'
<1> DEFINE name == <<cur.src.name, "json">>
           no == FALSE
           L == ListedOf(results) \cup FilesOf(cur.res)
<1>1. name \in EntryNames /\ Len(name) # 3 /\ no \in BOOLEAN
  <2>1. name \in EntryNames
    BY Reads_ DEF EntryNames
  <2>2. Len(name) = 2
    OBVIOUS
  <2> QED
    BY <2>1, <2>2
<1>2. PICK p \in Put(arch, name, no) :
          Done(IF p.ok THEN res ELSE Status(res, "failed"), p.arch)
  BY Zenon DEF Written, Status
<1> HIDE DEF name, no
<1>3. /\ Open(arch, p.arch) /\ p.ok \in BOOLEAN /\ WholeOf(arch) \subseteq WholeOf(p.arch)
      /\ arch.broken => p.arch.broken
  BY <1>1, Reads_, Putting
<1>4. Accounted(arch, L, Wrong) /\ arch \in Zips
  BY Reads_
<1>5. ASSUME p.ok PROVE Accounted(p.arch, L, Wrong)
  <2> DEFINE w == Wrong
  <2>1. Accounted(arch, L, w)
    BY <1>4
  <2> HIDE DEF L, w
  <2>2. Accounted(p.arch, L, w)
    BY <1>1, <1>4, <1>5, <2>1, PutAccounts
  <2> QED
    BY <2>2 DEF w
<1>6. CASE p.ok
  <2>1. pipe.sink = None /\ None \notin {"error", "disk"}
    BY Reads_ DEF None
  <2>2. Wrong => p.arch.broken \/ AFailure(results) \/ res.status = "failed"
    BY <1>3, <2>1 DEF Wrong
  <2>3. Accounted(p.arch, ListedOf(results) \cup FilesOf(res),
                  p.arch.broken \/ AFailure(results) \/ res.status = "failed")
    BY <1>5, <1>6, <2>2 DEF Accounted
  <2>4. Done(res, p.arch)
    BY <1>2, <1>6
  <2> QED
    BY <1>3, <2>3, <2>4, DoneKeeps
<1>7. CASE ~p.ok
  <2>1. "failed" \in Statuses
    BY DEF Statuses
  <2>2. /\ Status(res, "failed") \in Outcomes /\ Status(res, "failed").status = "failed"
        /\ FilesOf(Status(res, "failed")) = FilesOf(cur.res)
    BY <2>1, Stating
  <2>3. Done(Status(res, "failed"), p.arch)
    BY <1>2, <1>7
  <2> QED
    BY <1>3, <2>2, <2>3, FailingKeeps
<1> QED
  BY <1>6, <1>7

-----------------------------------------------------------------------------
(* The ways a source goes on *)

\* What the source is at, with what it has found.
Moved(c, at, res, queries, todo, left, step, err) ==
    [src |-> c.src, at |-> at, res |-> res, queries |-> queries, todo |-> todo, left |-> left,
     step |-> step, err |-> err]

\* Each field is what it is set to.
LEMMA Moving ==
    ASSUME NEW c \in Reading, NEW at \in {"queries", "writing", "files", "steps"},
           NEW res \in Outcomes, NEW queries \in Seq(Asked), NEW todo \in SUBSET Disk,
           NEW left \in Int, NEW step \in Nat, NEW err \in BOOLEAN
    PROVE  LET d == Moved(c, at, res, queries, todo, left, step, err) IN
           /\ d \in Reading /\ d.src = c.src /\ d.at = at /\ d.res = res /\ d.queries = queries
           /\ d.todo = todo /\ d.left = left /\ d.step = step /\ (d.err <=> err)
BY DEF Reading, Moved

\* It has copied no more than it had, and what went wrong is not forgotten.
LEMMA GoingOnKeeps ==
    ASSUME HostInv, pc = "reading", UNCHANGED sigVars, cur' \in Reading,
           UNCHANGED <<pc, env, plan, log, arch, pipe, results, code>>,
           cur.at # "writing", cur'.at \notin {"idle", "writing"}, Placed_(cur'),
           FilesOf(cur'.res) = FilesOf(cur.res), cur.err => cur'.err
    PROVE  HostInv'
<1>1. /\ Open(arch, arch') /\ pipe' \in PipeStates /\ pipe'.sink = None /\ pipe'.writer = None
  BY Reads_
<1>2. Piped'
  BY <1>1, Reads_ DEF Piped, None
<1>3. Accounted(arch, ListedOf(results) \cup FilesOf(cur.res), Wrong)
  BY Reads_
<1>4. Wrong => arch'.broken \/ AFailure(results) \/ cur'.err \/ pipe'.sink \in {"error", "disk"}
  BY DEF Wrong
<1>5. Accounted(arch', ListedOf(results) \cup FilesOf(cur'.res),
                arch'.broken \/ AFailure(results) \/ cur'.err \/ pipe'.sink \in {"error", "disk"})
  BY <1>3, <1>4 DEF Accounted
<1> QED
  BY <1>1, <1>2, <1>5, StaysKeeps

\* A note on a file.
LEMMA Noted ==
    ASSUME HostInv, pc = "reading", NEW f \in Disk,
           NEW verdict \in {"copied", "budget", "refused", "window"}
    PROVE  LET r == Noting(f, verdict) IN
           /\ Entry(f) \in Titles \X Nat \X Nat
           /\ r \in Outcomes /\ r.status = "read" /\ r.name = cur.src.name
           /\ r.files = cur.res.files \cup {[entry |-> Entry(f), file |-> f, verdict |-> verdict]}
           /\ FilesOf(r) = FilesOf(cur.res) \cup (IF verdict = "copied" THEN {Entry(f)} ELSE {})
<1> DEFINE x == [entry |-> Entry(f), file |-> f, verdict |-> verdict]
           r == Noting(f, verdict)
           s == cur.res
<1>1. s \in Outcomes /\ s.status = "read" /\ s.name = cur.src.name /\ cur \in Reading
      /\ cur.src.name \in Titles
  BY Reads_
<1>2. f.id \in Nat
  BY HostAssumption
<1>3. Entry(f) \in Titles \X Nat \X Nat
  BY <1>1, <1>2 DEF Entry, Reading
<1>4. x \in Notes /\ x.verdict = verdict /\ x.entry = Entry(f)
  BY <1>3 DEF Notes
<1>5. r = [s EXCEPT !.files = @ \cup {x}]
  BY DEF Noting
<1> HIDE DEF x, s, r
<1>6. r \in Outcomes /\ r.status = s.status /\ r.name = s.name /\ r.files = s.files \cup {x}
  BY <1>1, <1>4, <1>5 DEF Outcomes
<1>7. FilesOf(r) = FilesOf(s) \cup (IF verdict = "copied" THEN {Entry(f)} ELSE {})
  BY <1>4, <1>6 DEF FilesOf
<1> QED
  BY <1>1, <1>3, <1>6, <1>7 DEF r, s, x

\* What is left of the notes when the directory has changed: all that was copied.
LEMMA Changing ==
    ASSUME HostInv, pc = "reading"
    PROVE  /\ Changed \in Outcomes /\ Changed.status = "read" /\ Changed.name = cur.src.name
           /\ FilesOf(Changed) = FilesOf(cur.res) /\ Changed.files \subseteq cur.res.files
<1> DEFINE s == cur.res
           few == {x \in s.files : x.verdict = "copied" \/ x.entry[2] # cur.step}
           kinds == s.noted \cup {"changed"}
<1>1. s \in Outcomes /\ s.status = "read" /\ s.name = cur.src.name
  BY Reads_
<1>2. Changed = [s EXCEPT !.files = few, !.noted = kinds]
  BY Zenon DEF Changed
<1>3. few \in SUBSET Notes /\ kinds \in SUBSET {"refused", "changed", "nothing"}
      /\ few \subseteq s.files /\ \A x \in s.files : x.verdict = "copied" => x \in few
  BY <1>1 DEF Outcomes
<1> HIDE DEF few, kinds, s
<1>4. Changed = [name |-> s.name, status |-> s.status, files |-> few, bad |-> s.bad, list |-> s.list,
                 cut |-> s.cut, counted |-> s.counted, notRun |-> s.notRun, noted |-> kinds]
  BY <1>1, <1>2 DEF Outcomes
<1>5. Changed \in Outcomes
  BY <1>1, <1>3, <1>4 DEF Outcomes
<1>6. Changed.status = s.status /\ Changed.name = s.name /\ Changed.files = few
  BY <1>4
<1>7. FilesOf(Changed) = FilesOf(s)
  BY <1>3, <1>6 DEF FilesOf
<1> QED
  BY <1>1, <1>3, <1>5, <1>6, <1>7 DEF s

\* A file copied, or over the budget.
LEMMA SetTodoLeftRes ==
    ASSUME NEW c \in Reading, NEW todo, NEW left, NEW res
    PROVE  [c EXCEPT !.todo = todo, !.left = left, !.res = res] =
               Moved(c, c.at, res, c.queries, todo, left, c.step, c.err)
<1> DEFINE d1 == Moved(c, c.at, c.res, c.queries, todo, c.left, c.step, c.err)
           d2 == Moved(c, c.at, c.res, c.queries, todo, left, c.step, c.err)
<1>1. [c EXCEPT !.todo = todo] = d1
  BY DEF Reading, Moved
<1>2. [d1 EXCEPT !.left = left] = d2
  BY DEF Moved
<1>3. [d2 EXCEPT !.res = res] = Moved(c, c.at, res, c.queries, todo, left, c.step, c.err)
  BY DEF Moved
<1> HIDE DEF d1, d2
<1> QED
  BY <1>1, <1>2, <1>3, Zenon

\* A file passed over, or a directory that changed.
LEMMA SetTodoRes ==
    ASSUME NEW c \in Reading, NEW todo, NEW res
    PROVE  [c EXCEPT !.todo = todo, !.res = res] =
               Moved(c, c.at, res, c.queries, todo, c.left, c.step, c.err)
<1> DEFINE d1 == Moved(c, c.at, c.res, c.queries, todo, c.left, c.step, c.err)
<1>1. [c EXCEPT !.todo = todo] = d1
  BY DEF Reading, Moved
<1>2. [d1 EXCEPT !.res = res] = Moved(c, c.at, res, c.queries, todo, c.left, c.step, c.err)
  BY DEF Moved
<1> HIDE DEF d1
<1> QED
  BY <1>1, <1>2, Zenon

\* A step that fails.
LEMMA SetTodoErr ==
    ASSUME NEW c \in Reading, NEW todo, NEW err
    PROVE  [c EXCEPT !.todo = todo, !.err = err] =
               Moved(c, c.at, c.res, c.queries, todo, c.left, c.step, err)
<1> DEFINE d1 == Moved(c, c.at, c.res, c.queries, todo, c.left, c.step, c.err)
<1>1. [c EXCEPT !.todo = todo] = d1
  BY DEF Reading, Moved
<1>2. [d1 EXCEPT !.err = err] = Moved(c, c.at, c.res, c.queries, todo, c.left, c.step, err)
  BY DEF Moved
<1> HIDE DEF d1
<1> QED
  BY <1>1, <1>2, Zenon

\* A directory opened.
LEMMA SetAtTodo ==
    ASSUME NEW c \in Reading, NEW at, NEW todo
    PROVE  [c EXCEPT !.at = at, !.todo = todo] =
               Moved(c, at, c.res, c.queries, todo, c.left, c.step, c.err)
<1> DEFINE d1 == Moved(c, at, c.res, c.queries, c.todo, c.left, c.step, c.err)
<1>1. [c EXCEPT !.at = at] = d1
  BY DEF Reading, Moved
<1>2. [d1 EXCEPT !.todo = todo] = Moved(c, at, c.res, c.queries, todo, c.left, c.step, c.err)
  BY DEF Moved
<1> HIDE DEF d1
<1> QED
  BY <1>1, <1>2, Zenon

\* A channel opened.
LEMMA SetAtQueriesRes ==
    ASSUME NEW c \in Reading, NEW at, NEW q, NEW res
    PROVE  [c EXCEPT !.at = at, !.queries = q, !.res = res] =
               Moved(c, at, res, q, c.todo, c.left, c.step, c.err)
<1> DEFINE d1 == Moved(c, at, c.res, c.queries, c.todo, c.left, c.step, c.err)
           d2 == Moved(c, at, c.res, q, c.todo, c.left, c.step, c.err)
<1>1. [c EXCEPT !.at = at] = d1
  BY DEF Reading, Moved
<1>2. [d1 EXCEPT !.queries = q] = d2
  BY DEF Moved
<1>3. [d2 EXCEPT !.res = res] = Moved(c, at, res, q, c.todo, c.left, c.step, c.err)
  BY DEF Moved
<1> HIDE DEF d1, d2
<1> QED
  BY <1>1, <1>2, <1>3, Zenon

\* A query that has read.
LEMMA SetQueriesRes ==
    ASSUME NEW c \in Reading, NEW q, NEW res
    PROVE  [c EXCEPT !.queries = q, !.res = res] =
               Moved(c, c.at, res, q, c.todo, c.left, c.step, c.err)
<1> DEFINE d1 == Moved(c, c.at, c.res, q, c.todo, c.left, c.step, c.err)
<1>1. [c EXCEPT !.queries = q] = d1
  BY DEF Reading, Moved
<1>2. [d1 EXCEPT !.res = res] = Moved(c, c.at, res, q, c.todo, c.left, c.step, c.err)
  BY DEF Moved
<1> HIDE DEF d1
<1> QED
  BY <1>1, <1>2, Zenon

\* The next step.
LEMMA SetStep ==
    ASSUME NEW c \in Reading, NEW step
    PROVE  [c EXCEPT !.step = step] =
               Moved(c, c.at, c.res, c.queries, c.todo, c.left, step, c.err)
BY DEF Reading, Moved

-----------------------------------------------------------------------------
(* The copying of files *)

\* The source is where its files are.
LEMMA Files_ ==
    ASSUME HostInv, pc = "reading", cur.at \in {"files", "steps"}, NEW res \in Outcomes,
           res.name = cur.src.name, res.status = "read", NEW todo \in SUBSET Disk, NEW left \in Int,
           NEW step \in Nat, NEW err \in BOOLEAN, cur.at = "files" => step = 0 /\ ~err,
           cur' = Moved(cur, cur.at, res, cur.queries, todo, left, step, err)
    PROVE  /\ cur' \in Reading /\ Placed_(cur') /\ cur'.res = res /\ cur'.at = cur.at
           /\ cur'.src = cur.src /\ (cur'.err <=> err) /\ cur'.todo = todo /\ cur'.left = left
           /\ cur'.step = step
<1>1. cur \in Reading /\ cur.queries \in Seq(Asked) /\ Placed_(cur)
  BY Reads_ DEF Reading
<1>2. /\ cur' \in Reading /\ cur'.src = cur.src /\ cur'.res = res /\ cur'.at = cur.at
      /\ (cur'.err <=> err) /\ cur'.todo = todo /\ cur'.left = left /\ cur'.step = step
  BY <1>1, Moving
<1>3. Placed_(cur')
  BY <1>1, <1>2 DEF Placed_
<1> QED
  BY <1>2, <1>3

\* A source or a step goes on to its next file, or to its end, with a note that lists
\* nothing more.
LEMMA FileKeeps ==
    ASSUME HostInv, pc = "reading", UNCHANGED sigVars, cur.at \in {"files", "steps"},
           NEW res \in Outcomes, res.name = cur.src.name, res.status = "read",
           NEW todo \in SUBSET Disk, NEW left \in Int, NEW step \in Nat, NEW err \in BOOLEAN,
           cur.at = "files" => step = 0 /\ ~err, cur.err => err,
           FilesOf(res) = FilesOf(cur.res),
           Continues(Moved(cur, cur.at, res, cur.queries, todo, left, step, err))
    PROVE  HostInv'
<1>1. /\ cur' = Moved(cur, cur.at, res, cur.queries, todo, left, step, err)
      /\ UNCHANGED <<pc, env, plan, log, arch, pipe, results, code>>
  BY DEF Continues
<1>2. /\ cur' \in Reading /\ Placed_(cur') /\ cur'.res = res /\ cur'.at = cur.at /\ (cur'.err <=> err)
  BY <1>1, Files_
<1>3. cur.at # "writing" /\ cur'.at \notin {"idle", "writing"}
  BY <1>2
<1> QED
  BY <1>1, <1>2, <1>3, GoingOnKeeps

\* A file is passed over.
LEMMA PassKeeps ==
    ASSUME HostInv, pc = "reading", UNCHANGED sigVars, cur.at \in {"files", "steps"},
           NEW f \in Due, NEW verdict \in {"refused", "window"}, Passes(f, Noting(f, verdict))
    PROVE  HostInv'
<1> DEFINE res == Noting(f, verdict)
<1>1. cur \in Reading /\ f \in Disk /\ cur.left \in Int /\ cur.step \in Nat /\ cur.err \in BOOLEAN
      /\ cur.todo \ {f} \in SUBSET Disk /\ (cur.at = "files" => cur.step = 0 /\ ~cur.err)
  BY Reads_ DEF Due, Reading
<1>2. res \in Outcomes /\ res.name = cur.src.name /\ res.status = "read"
      /\ FilesOf(res) = FilesOf(cur.res)
  BY <1>1, Noted
<1> HIDE DEF res
<1>3. [cur EXCEPT !.todo = @ \ {f}, !.res = res] =
          Moved(cur, cur.at, res, cur.queries, cur.todo \ {f}, cur.left, cur.step, cur.err)
  BY <1>1, SetTodoRes, Zenon
<1>4. Continues(Moved(cur, cur.at, res, cur.queries, cur.todo \ {f}, cur.left, cur.step, cur.err))
  BY <1>3, Zenon DEF Passes, res
<1> QED
  BY <1>1, <1>2, <1>4, FileKeeps

\* A file does not fit.
LEMMA OverBudgetKeeps ==
    ASSUME HostInv, pc = "reading", UNCHANGED sigVars, cur.at \in {"files", "steps"},
           NEW f \in Due, OverBudget(f)
    PROVE  HostInv'
<1> DEFINE v == "budget"
           res == Noting(f, v)
           less == -1
<1>1. cur \in Reading /\ f \in Disk /\ less \in Int /\ cur.step \in Nat /\ cur.err \in BOOLEAN
      /\ cur.todo \ {f} \in SUBSET Disk /\ (cur.at = "files" => cur.step = 0 /\ ~cur.err)
  BY Reads_ DEF Due, Reading
<1>2. res \in Outcomes /\ res.name = cur.src.name /\ res.status = "read"
      /\ FilesOf(res) = FilesOf(cur.res)
  BY <1>1, Noted
<1> HIDE DEF res, less
<1>3. [cur EXCEPT !.todo = @ \ {f}, !.left = less, !.res = res] =
          Moved(cur, cur.at, res, cur.queries, cur.todo \ {f}, less, cur.step, cur.err)
  <2> DEFINE t == cur.todo \ {f}
  <2>1. cur \in Reading
    BY <1>1
  <2> HIDE DEF t
  <2>2. [cur EXCEPT !.todo = t, !.left = less, !.res = res] =
            Moved(cur, cur.at, res, cur.queries, t, less, cur.step, cur.err)
    BY <2>1, SetTodoLeftRes, ZenonT(60)
  <2> QED
    BY <2>2, Zenon DEF t
<1>4. Continues(Moved(cur, cur.at, res, cur.queries, cur.todo \ {f}, less, cur.step, cur.err))
  BY <1>3, Zenon DEF OverBudget, res, less
<1> QED
  BY <1>1, <1>2, <1>4, FileKeeps

\* A file's entry is written and listed: the account grows by the same name on both sides.
LEMMA CopyKeeps ==
    ASSUME HostInv, pc = "reading", UNCHANGED sigVars, cur.at \in {"files", "steps"},
           NEW f \in Due, Copies(f)
    PROVE  HostInv'
<1> DEFINE v == "copied"
           res == Noting(f, v)
           less == cur.left - Charge(f)
           yes == TRUE
           L == ListedOf(results) \cup FilesOf(cur.res)
<1>1. cur \in Reading /\ f \in Disk /\ cur.step \in Nat /\ cur.err \in BOOLEAN
      /\ cur.todo \ {f} \in SUBSET Disk /\ (cur.at = "files" => cur.step = 0 /\ ~cur.err)
      /\ arch \in Zips /\ Accounted(arch, L, Wrong)
  BY Reads_ DEF Due, Reading
<1>2. less \in Int
  <2>1. f.size \in Nat /\ TailBytes \in Nat /\ cur.left \in Int
    BY <1>1, HostAssumption DEF Reading
  <2> QED
    BY <2>1 DEF Charge
<1>3. res \in Outcomes /\ res.name = cur.src.name /\ res.status = "read"
      /\ FilesOf(res) = FilesOf(cur.res) \cup {Entry(f)} /\ Entry(f) \in Titles \X Nat \X Nat
  BY <1>1, Noted
<1>4. Entry(f) \in EntryNames /\ yes \in BOOLEAN
  BY <1>3 DEF EntryNames
<1> HIDE DEF res, less, yes, L
<1>5. PICK p \in Put(arch, Entry(f), yes) :
        /\ p.ok
        /\ cur' = [cur EXCEPT !.todo = @ \ {f}, !.left = less, !.res = res]
        /\ arch' = p.arch
        /\ UNCHANGED <<pc, env, plan, log, pipe, results, code>>
  <2>1. [cur EXCEPT !.todo = @ \ {f}, !.left = less, !.res = res] =
        [cur EXCEPT !.todo = @ \ {f}, !.left = @ - Charge(f), !.res = Noting(f, "copied")]
    BY DEF less, res
  <2> QED
    BY <2>1, Zenon DEF Copies, yes
<1>6. [cur EXCEPT !.todo = @ \ {f}, !.left = less, !.res = res] =
          Moved(cur, cur.at, res, cur.queries, cur.todo \ {f}, less, cur.step, cur.err)
  <2> DEFINE t == cur.todo \ {f}
  <2>1. cur \in Reading
    BY <1>1
  <2> HIDE DEF t
  <2>2. [cur EXCEPT !.todo = t, !.left = less, !.res = res] =
            Moved(cur, cur.at, res, cur.queries, t, less, cur.step, cur.err)
    BY <2>1, SetTodoLeftRes, ZenonT(60)
  <2> QED
    BY <2>2, Zenon DEF t
<1>7. cur' = Moved(cur, cur.at, res, cur.queries, cur.todo \ {f}, less, cur.step, cur.err)
  BY <1>5, <1>6
<1>8. /\ cur' \in Reading /\ Placed_(cur') /\ cur'.res = res /\ cur'.at = cur.at
      /\ (cur'.err <=> cur.err)
  BY <1>1, <1>2, <1>3, <1>7, Files_
<1>9. /\ Open(arch, arch') /\ ~arch'.broken /\ ~arch.broken
  BY <1>1, <1>4, <1>5, Putting
<1>10. pipe' \in PipeStates /\ pipe' = pipe /\ pipe.sink = None /\ pipe.writer = None
  BY <1>5, Reads_
<1>11. Piped'
  BY <1>10 DEF Piped, None
<1>12. Accounted(arch', L \cup {Entry(f)}, Wrong)
  <2> DEFINE w == Wrong
  <2>1. Accounted(arch, L, w)
    BY <1>1
  <2> HIDE DEF w
  <2>2. Accounted(p.arch, L \cup {Entry(f)}, w)
    BY <1>1, <1>3, <1>4, <1>5, <2>1, PutAccounts
  <2> QED
    BY <1>5, <2>2 DEF w
<1>13. Wrong => arch'.broken \/ AFailure(results) \/ cur'.err \/ pipe'.sink \in {"error", "disk"}
  BY <1>8, <1>9, <1>10 DEF Wrong
<1>14. Accounted(arch', ListedOf(results) \cup FilesOf(cur'.res),
                arch'.broken \/ AFailure(results) \/ cur'.err \/ pipe'.sink \in {"error", "disk"})
  BY <1>3, <1>8, <1>12, <1>13 DEF Accounted, L
<1>15. cur'.at # "idle"
  BY <1>8
<1> QED
  BY <1>5, <1>8, <1>9, <1>10, <1>11, <1>14, <1>15, StaysKeeps

\* A copy that fails leaves what was listed.
LEMMA CopyFailing ==
    ASSUME HostInv, pc = "reading", cur.at \in {"files", "steps"}, NEW f \in Due,
           NEW a \in CopyFails(f)
    PROVE  Open(arch, a) /\ WholeOf(arch) \subseteq WholeOf(a) /\ (arch.broken => a.broken)
<1> DEFINE yes == TRUE
<1>1. f \in Disk /\ arch \in Zips /\ Open(arch, arch)
  BY Reads_ DEF Due, Reading
<1>2. Entry(f) \in Titles \X Nat \X Nat
  BY <1>1, Noted
<1>3. Entry(f) \in EntryNames /\ yes \in BOOLEAN
  BY <1>2 DEF EntryNames
<1> HIDE DEF yes
<1>4. a = arch \/ \E p \in Put(arch, Entry(f), yes) : a = p.arch
  BY Zenon DEF CopyFails, yes
<1> QED
  BY <1>1, <1>3, <1>4, Putting

\* And the source fails with it, keeping what it had copied.
LEMMA CopyFailedKeeps ==
    ASSUME HostInv, pc = "reading", UNCHANGED sigVars, cur.at \in {"files", "steps"}, NEW f \in Due,
           NEW a \in CopyFails(f), Done([cur.res EXCEPT !.status = "failed"], a)
    PROVE  HostInv'
<1> DEFINE r == Status(cur.res, "failed")
<1>1. "failed" \in Statuses /\ cur.res \in Outcomes
  BY Reads_ DEF Statuses
<1>2. r \in Outcomes /\ r.status = "failed" /\ FilesOf(r) = FilesOf(cur.res)
  BY <1>1, Stating
<1>3. Done(r, a)
  BY DEF Status
<1>4. Open(arch, a) /\ WholeOf(arch) \subseteq WholeOf(a)
  BY CopyFailing
<1> QED
  BY <1>2, <1>3, <1>4, FailingKeeps

-----------------------------------------------------------------------------
(* The steps of the sources *)

\* A source that is open has found nothing yet.
LEMMA Opened_ ==
    ASSUME HostInv, pc = "reading", cur.at = "open"
    PROVE  FilesOf(cur.res) = {} /\ ~cur.err /\ cur.res = Result("read", cur.src.name)
           /\ pipe.sink = None /\ cur.todo = {} /\ cur.left = Budget /\ cur.step = 0
<1>1. cur = Opened(cur.src)
  BY Reads_ DEF Placed_
<1>2. cur.res = Result("read", cur.src.name) /\ ~cur.err /\ cur.todo = {} /\ cur.left = Budget
      /\ cur.step = 0
  <2> DEFINE s == cur.src
  <2>1. cur = Opened(s)
    BY <1>1
  <2> HIDE DEF s
  <2>2. cur.res = Result("read", s.name) /\ ~cur.err /\ cur.todo = {} /\ cur.left = Budget
        /\ cur.step = 0
    BY <2>1 DEF Opened
  <2> QED
    BY <2>2 DEF s
<1>3. "read" \in Statuses
  BY DEF Statuses
<1> QED
  BY <1>2, <1>3, Reads_, Fresh

\* One field of a result that is not read by the account is set.
Marked(r, noted)   == [r EXCEPT !.noted = noted]
Without(r, notRun) == [r EXCEPT !.notRun = notRun]
Badly(r, bad)      == [r EXCEPT !.bad = bad]

\* Setting them leaves the account.
LEMMA Marking ==
    ASSUME NEW r \in Outcomes, NEW noted \in SUBSET {"refused", "changed", "nothing"},
           NEW notRun \in SUBSET OwnQueries
    PROVE  /\ LET t == Marked(r, noted) IN
              t \in Outcomes /\ t.status = r.status /\ t.name = r.name /\ FilesOf(t) = FilesOf(r)
                 /\ t.files = r.files
           /\ LET t == Without(r, notRun) IN
              t \in Outcomes /\ t.status = r.status /\ t.name = r.name /\ FilesOf(t) = FilesOf(r)
                 /\ t.files = r.files
<1>1. LET t == Marked(r, noted) IN
      t \in Outcomes /\ t.status = r.status /\ t.name = r.name /\ t.files = r.files
  BY DEF Outcomes, Marked
<1>2. LET t == Without(r, notRun) IN
      t \in Outcomes /\ t.status = r.status /\ t.name = r.name /\ t.files = r.files
  BY DEF Outcomes, Without
<1> QED
  BY <1>1, <1>2 DEF FilesOf

\* The panic, the single reads.
LEMMA SingleKeeps ==
    ASSUME HostInv, UNCHANGED sigVars, Panics \/ ReadVSS \/ ReadMachine \/ ReadCluster
    PROVE  HostInv'
<1>1. ASSUME Panics PROVE HostInv'
  BY <1>1, Reads_, FailedKeeps DEF Panics
<1>2. ASSUME pc = "reading", cur.at = "open", Probes PROVE HostInv'
  <2>1. CASE Done(Failed, arch)
    BY <1>2, <2>1, Reads_, FailedKeeps
  <2>2. CASE Written(cur.res)
    <3>1. /\ cur.res \in Outcomes /\ cur.res.status # "skipped" /\ cur.at # "writing" /\ ~cur.err
      BY <1>2, Reads_, Opened_
    <3> QED
      BY <1>2, <2>2, <3>1, WrittenKeeps
  <2> QED
    BY <1>2, <2>1, <2>2 DEF Probes
<1>3. CASE ReadCluster
  <2>1. pc = "reading" /\ cur.at = "open" /\ (Probes \/ Done(Result("absent", cur.src.name), arch))
    BY <1>3 DEF ReadCluster, At, Reads
  <2>2. "absent" \in Statuses \ {"failed"} /\ "absent" # "skipped"
    BY DEF Statuses
  <2> QED
    BY <1>2, <2>1, <2>2, Opened_, WithoutKeeps
<1> QED
  BY <1>1, <1>2, <1>3 DEF ReadVSS, ReadMachine, At, Reads

\* The queries of a channel are among those there are.
LEMMA Queries ==
    ASSUME NEW c, NEW decided \in BOOLEAN
    PROVE  BuildEventQueries(c, decided) \in Seq(Asked)
<1>1. <<"1", "2", "2c", "3b">> \in Seq(Asked) /\ <<"1">> \in Seq(Asked) /\ <<"1", "3a">> \in Seq(Asked)
      /\ <<"4">> \in Seq(Asked)
  BY DEF Asked
<1> QED
  BY <1>1 DEF BuildEventQueries

\* A channel is opened.
LEMMA OpenChannelKeeps == ASSUME HostInv, UNCHANGED sigVars, OpenChannel PROVE HostInv'
<1>1. pc = "reading" /\ cur.at = "open" /\ cur.src.kind = "events"
  BY DEF OpenChannel, At, Reads
<1>2. CASE Done(Result("absent", cur.src.name), arch)
  <2>1. "absent" \in Statuses \ {"failed"} /\ "absent" # "skipped"
    BY DEF Statuses
  <2> QED
    BY <1>1, <1>2, <2>1, Opened_, WithoutKeeps
<1>3. CASE ~Done(Result("absent", cur.src.name), arch)
  <2> DEFINE nr == IF cur.src.name = "Application" /\ ~env.decided THEN OwnQueries ELSE {}
             at == "queries"
             q == BuildEventQueries(cur.src.name, env.decided)
             res == Without(cur.res, nr)
             no == FALSE
  <2>0. /\ cur.src.name \in DOMAIN log
        /\ Continues([cur EXCEPT !.at = at, !.queries = q, !.res.notRun = nr])
    BY <1>3, Zenon DEF OpenChannel
  <2>1. cur \in Reading /\ cur.res \in Outcomes /\ cur.todo \in SUBSET Disk /\ cur.left \in Int
        /\ cur.step \in Nat /\ cur.err \in BOOLEAN /\ cur.step = 0 /\ ~cur.err
        /\ cur.res.name = cur.src.name /\ cur.res.status = "read" /\ cur.src \in Sources
    BY <1>1, Reads_ DEF Reading
  <2>2. q \in Seq(Asked)
    <3>1. env.decided \in BOOLEAN
      BY DEF HostInv, HostTyped, Envs
    <3> QED
      BY <3>1, Queries
  <2>3. nr \in SUBSET OwnQueries
    OBVIOUS
  <2> HIDE DEF nr, q
  <2>4. /\ res \in Outcomes /\ res.status = "read" /\ res.name = cur.src.name
        /\ FilesOf(res) = FilesOf(cur.res) /\ res.files = cur.res.files
    <3>1. {} \in SUBSET {"refused", "changed", "nothing"}
      OBVIOUS
    <3> QED
      BY <2>1, <2>3, <3>1, Marking
  <2>5. [cur EXCEPT !.at = at, !.queries = q, !.res.notRun = nr] =
        [cur EXCEPT !.at = at, !.queries = q, !.res = [cur.res EXCEPT !.notRun = nr]]
    OBVIOUS
  <2> HIDE DEF res, at
  <2>6. [cur EXCEPT !.at = at, !.queries = q, !.res = res] =
            Moved(cur, at, res, q, cur.todo, cur.left, cur.step, cur.err)
    <3>1. cur \in Reading
      BY <2>1
    <3> QED
      BY <3>1, SetAtQueriesRes, Zenon
  <2>7. cur' = Moved(cur, at, res, q, cur.todo, cur.left, cur.step, cur.err)
        /\ UNCHANGED <<pc, env, plan, log, arch, pipe, results, code>>
    BY <2>0, <2>5, <2>6, Zenon DEF Continues, Without, res
  <2>8. at \in {"queries", "writing", "files", "steps"} /\ at = "queries"
    BY DEF at
  <2>9. /\ cur' \in Reading /\ cur'.src = cur.src /\ cur'.at = "queries" /\ cur'.res = res
        /\ cur'.step = 0 /\ ~cur'.err
    BY <2>1, <2>2, <2>4, <2>7, <2>8, Moving
  <2>10. res.files = {}
    <3>1. cur.res = Result("read", cur.src.name)
      BY <1>1, Opened_
    <3>2. cur.res.files = {}
      BY <3>1 DEF Result
    <3> QED
      BY <2>4, <3>2
  <2>11. Placed_(cur')
    BY <1>1, <2>0, <2>1, <2>4, <2>9, <2>10 DEF Placed_
  <2> QED
    BY <1>1, <2>1, <2>4, <2>7, <2>9, <2>11, GoingOnKeeps
<1> QED
  BY <1>2, <1>3

\* A query fails, or reads.
LEMMA QueryKeeps == ASSUME HostInv, UNCHANGED sigVars, Query PROVE HostInv'
<1> DEFINE c == cur.src.name
           q == Head(cur.queries)
<1>1. pc = "reading" /\ cur.at = "queries" /\ cur.src.kind = "events" /\ cur.queries # <<>>
  BY DEF Query, At, Reads
<1>2. /\ cur \in Reading /\ cur.res \in Outcomes /\ cur.queries \in Seq(Asked) /\ cur.left \in Int
      /\ cur.todo \in SUBSET Disk /\ cur.step \in Nat /\ cur.err \in BOOLEAN /\ cur.src \in Sources
      /\ c \in DOMAIN log /\ cur.step = 0 /\ ~cur.err /\ cur.res.files = {} /\ log \in Logs
      /\ cur.res.name = cur.src.name /\ cur.res.status = "read"
  BY <1>1, Reads_ DEF Reading, Placed_
<1>3. q \in Asked /\ Tail(cur.queries) \in Seq(Asked)
  BY <1>1, <1>2
<1>4. CASE Done(Failed, arch)
  BY <1>1, <1>4, Reads_, FailedKeeps
<1>5. CASE Done(Result("absent", cur.src.name), arch)
  <2>1. "absent" \in Statuses \ {"failed"} /\ "absent" # "skipped"
    BY DEF Statuses
  <2>2. FilesOf(cur.res) = {}
    BY <1>2 DEF FilesOf
  <2> QED
    BY <1>1, <1>2, <1>5, <2>1, <2>2, WithoutKeeps
<1>6. ASSUME NEW n \in IF cancelled THEN 0..Reach(c, q) ELSE {Reach(c, q)},
             Continues([cur EXCEPT !.queries = Tail(@), !.res = Recorded(c, q, n)])
      PROVE  HostInv'
  <2> DEFINE res == Recorded(c, q, n)
             t == Tail(cur.queries)
  <2>1. n \in 0..Len(log[c])
    <3>1. Len(log[c]) \in Nat
      BY <1>2, Logged
    <3>2. Reach(c, q) \in 0..Len(log[c])
      BY <3>1, Reaching
    <3> QED
      BY <3>1, <3>2
  <2>2. /\ res \in Outcomes /\ res.name = cur.res.name /\ res.status = cur.res.status
        /\ res.files = cur.res.files
    <3>1. HostTyped
      BY DEF HostInv
    <3> QED
      BY <1>2, <1>3, <2>1, <3>1, Recording
  <2> HIDE DEF res, t
  <2>3. [cur EXCEPT !.queries = t, !.res = res] =
            Moved(cur, cur.at, res, t, cur.todo, cur.left, cur.step, cur.err)
    BY <1>2, SetQueriesRes, Zenon
  <2>4. /\ cur' = Moved(cur, cur.at, res, t, cur.todo, cur.left, cur.step, cur.err)
        /\ UNCHANGED <<pc, env, plan, log, arch, pipe, results, code>>
    BY <1>6, <2>3, Zenon DEF Continues, res, t
  <2>5. /\ cur' \in Reading /\ cur'.src = cur.src /\ cur'.at = "queries" /\ cur'.res = res
        /\ cur'.step = 0 /\ ~cur'.err
    <3>1. cur.at \in {"queries", "writing", "files", "steps"} /\ t \in Seq(Asked)
      BY <1>1, <1>3 DEF t
    <3> QED
      BY <1>1, <1>2, <2>2, <2>4, <3>1, Moving
  <2>6. Placed_(cur')
    BY <1>1, <1>2, <2>2, <2>5 DEF Placed_
  <2>7. FilesOf(res) = FilesOf(cur.res)
    BY <2>2 DEF FilesOf
  <2> QED
    BY <1>1, <1>2, <2>4, <2>5, <2>6, <2>7, GoingOnKeeps
<1> QED
  BY <1>4, <1>5, <1>6, Zenon DEF Query

-----------------------------------------------------------------------------
(* The pipe *)

\* The two ends, each field set.
EndsOf(writer, left, offered, sink, shut) ==
    [writer |-> writer, left |-> left, offered |-> offered, sink |-> sink, shut |-> shut]

\* Each field is what it is set to.
LEMMA Ending ==
    ASSUME NEW w \in {None, "writing", "eof", "error"}, NEW l \in Int, NEW o \in BOOLEAN,
           NEW s \in {None, "copying", "eof", "error", "disk"}, NEW sh \in BOOLEAN
    PROVE  LET p == EndsOf(w, l, o, s, sh) IN
           /\ p \in PipeStates /\ p.writer = w /\ p.sink = s /\ p.left = l
           /\ (p.offered <=> o) /\ (p.shut <=> sh)
BY DEF PipeStates, EndsOf

\* And the others are not set.
LEMMA SetEnds ==
    ASSUME NEW p \in PipeStates, NEW x, NEW y
    PROVE  /\ [p EXCEPT !.offered = x] = EndsOf(p.writer, p.left, x, p.sink, p.shut)
           /\ [p EXCEPT !.writer = x] = EndsOf(x, p.left, p.offered, p.sink, p.shut)
           /\ [p EXCEPT !.shut = x] = EndsOf(p.writer, p.left, p.offered, p.sink, x)
BY DEF PipeStates, EndsOf

\* A write offered.
LEMMA SetOffered ==
    ASSUME NEW p \in PipeStates, NEW x, NEW y
    PROVE  [p EXCEPT !.offered = x, !.left = y] = EndsOf(p.writer, y, x, p.sink, p.shut)
<1> DEFINE d == EndsOf(p.writer, p.left, x, p.sink, p.shut)
<1>1. [p EXCEPT !.offered = x] = d
  BY DEF PipeStates, EndsOf
<1>2. [d EXCEPT !.left = y] = EndsOf(p.writer, y, x, p.sink, p.shut)
  BY DEF EndsOf
<1> HIDE DEF d
<1> QED
  BY <1>1, <1>2, Zenon

\* A write refused.
LEMMA SetRefused ==
    ASSUME NEW p \in PipeStates, NEW x, NEW y
    PROVE  [p EXCEPT !.offered = x, !.writer = y] = EndsOf(y, p.left, x, p.sink, p.shut)
<1> DEFINE d == EndsOf(p.writer, p.left, x, p.sink, p.shut)
<1>1. [p EXCEPT !.offered = x] = d
  BY DEF PipeStates, EndsOf
<1>2. [d EXCEPT !.writer = y] = EndsOf(y, p.left, x, p.sink, p.shut)
  BY DEF EndsOf
<1> HIDE DEF d
<1> QED
  BY <1>1, <1>2, Zenon

\* The pipe opened.
LEMMA SetWriting ==
    ASSUME NEW p \in PipeStates, NEW w, NEW s, NEW l
    PROVE  [p EXCEPT !.writer = w, !.sink = s, !.left = l] = EndsOf(w, l, p.offered, s, p.shut)
<1> DEFINE d == EndsOf(w, p.left, p.offered, p.sink, p.shut)
           e == EndsOf(w, p.left, p.offered, s, p.shut)
<1>1. [p EXCEPT !.writer = w] = d
  BY DEF PipeStates, EndsOf
<1>2. [d EXCEPT !.sink = s] = e
  BY DEF EndsOf
<1>3. [e EXCEPT !.left = l] = EndsOf(w, l, p.offered, s, p.shut)
  BY DEF EndsOf
<1> HIDE DEF d, e
<1> QED
  BY <1>1, <1>2, <1>3, Zenon

\* The events of a result are finitely many.
LEMMA Merging ==
    ASSUME NEW list \in Lists
    PROVE  Cardinality(Merge(list)) \in Nat
<1> DEFINE T == Merge(list)
           f == [x \in list |-> x[2]]
<1>1. f \in Surjection(list, T)
  BY DEF Surjection, Merge
<1>2. IsFiniteSet(list)
  BY DEF Lists
<1> HIDE DEF f, T
<1>3. IsFiniteSet(T)
  BY <1>1, <1>2, FS_Surjection
<1> QED
  BY <1>3, FS_CardinalityType DEF T

\* The writing starts with the account as it is.
LEMMA WriteEventsKeeps == ASSUME HostInv, UNCHANGED sigVars, WriteEvents PROVE HostInv'
<1>1. /\ pc = "reading" /\ cur.at = "queries" /\ cur' = [cur EXCEPT !.at = "writing"]
      /\ pipe' = [NoPipe EXCEPT !.writer = "writing", !.sink = "copying",
                    !.left = 1 + Cardinality(Merge(cur.res.list))]
      /\ UNCHANGED <<pc, env, plan, log, arch, results, code>>
  BY DEF WriteEvents, At, Reads
<1>2. /\ cur \in Reading /\ cur.res \in Outcomes /\ arch \in Zips /\ Placed_(cur) /\ ~cur.err
      /\ pipe.sink = None /\ Open(arch, arch) /\ cur.step = 0
      /\ Accounted(arch, ListedOf(results) \cup FilesOf(cur.res), Wrong)
  BY <1>1, Reads_
<1>3. Cardinality(Merge(cur.res.list)) \in Nat
  BY <1>2, Merging DEF Outcomes
<1>4. /\ pipe' \in PipeStates /\ pipe'.writer = "writing" /\ pipe'.sink = "copying"
  <2> DEFINE w == "writing"
             s == "copying"
             l == 1 + Cardinality(Merge(cur.res.list))
             o == NoPipe.offered
             h == NoPipe.shut
  <2>1. /\ w \in {None, "writing", "eof", "error"} /\ s \in {None, "copying", "eof", "error", "disk"}
        /\ l \in Int /\ o \in BOOLEAN /\ h \in BOOLEAN /\ NoPipe \in PipeStates
    BY <1>3, Idling DEF PipeStates
  <2> HIDE DEF w, s, l
  <2>2. pipe' = EndsOf(w, l, o, s, h)
    <3>1. NoPipe \in PipeStates
      BY <2>1
    <3>2. [NoPipe EXCEPT !.writer = w, !.sink = s, !.left = l] = EndsOf(w, l, o, s, h)
      BY <3>1, SetWriting, Zenon
    <3> QED
      BY <1>1, <3>2, Zenon DEF w, s, l
  <2> HIDE DEF o, h
  <2>3. pipe' \in PipeStates /\ pipe'.writer = w /\ pipe'.sink = s
    BY <2>1, <2>2, Ending
  <2> QED
    BY <2>3 DEF w, s
<1>5. /\ cur' \in Reading /\ cur'.src = cur.src /\ cur'.at = "writing" /\ cur'.res = cur.res
      /\ cur'.step = 0 /\ ~cur'.err
  BY <1>1, <1>2 DEF Reading
<1>6. Placed_(cur') /\ Piped'
  BY <1>1, <1>2, <1>4, <1>5 DEF Placed_, Piped, None
<1>7. Wrong => arch'.broken \/ AFailure(results) \/ cur'.err \/ pipe'.sink \in {"error", "disk"}
  BY <1>1, <1>2 DEF Wrong, None
<1>8. Accounted(arch', ListedOf(results) \cup FilesOf(cur'.res),
                arch'.broken \/ AFailure(results) \/ cur'.err \/ pipe'.sink \in {"error", "disk"})
  BY <1>1, <1>2, <1>5, <1>7 DEF Accounted
<1> QED
  BY <1>1, <1>2, <1>4, <1>5, <1>6, <1>8, StaysKeeps

\* Where the pipe is when one of its ends moves.
LEMMA Piping ==
    ASSUME HostInv, pipe.writer # None \/ pipe.sink # None
    PROVE  pc = "reading" /\ cur.at = "writing" /\ pipe.writer # None /\ pipe.sink # None
           /\ pipe \in PipeStates /\ ~cur.err
BY DEF HostInv, HostTyped, Onward, Placed_, Piped

\* An end of the pipe moves: what the archive gets is accounted for.
LEMMA PipesKeeps ==
    ASSUME HostInv, UNCHANGED sigVars, pipe.writer # None \/ pipe.sink # None,
           NEW p \in PipeStates, NEW a, Pipes(p, a), Open(arch, a),
           p.writer # None, p.sink # None, p.sink = "eof" => p.writer = "eof",
           \/ p.sink \in {"error", "disk"} /\ WholeOf(arch) \subseteq WholeOf(a)
           \/ /\ p.sink = pipe.sink \/ (p.sink = "eof" /\ pipe.sink = "copying")
              /\ Accounted(a, ListedOf(results) \cup FilesOf(cur.res), Wrong)
              /\ arch.broken => a.broken
    PROVE  HostInv'
<1>1. pc = "reading" /\ cur.at = "writing" /\ pipe \in PipeStates /\ ~cur.err
  BY Piping
<1>2. pipe' = p /\ arch' = a /\ UNCHANGED <<pc, env, plan, log, cur, results, code>>
  BY DEF Pipes
<1>3. cur \in Reading /\ Placed_(cur) /\ cur.at # "idle"
      /\ ListedOf(results) \cup FilesOf(cur.res) \subseteq WholeOf(arch)
  BY <1>1, Reads_
<1>4. Placed_(cur') /\ Piped'
  BY <1>1, <1>2, <1>3 DEF Placed_, Piped
<1>5. Accounted(arch', ListedOf(results) \cup FilesOf(cur'.res),
                arch'.broken \/ AFailure(results) \/ cur'.err \/ pipe'.sink \in {"error", "disk"})
  <2>1. CASE p.sink \in {"error", "disk"} /\ WholeOf(arch) \subseteq WholeOf(a)
    BY <1>2, <1>3, <2>1 DEF Accounted
  <2>2. CASE /\ p.sink = pipe.sink \/ (p.sink = "eof" /\ pipe.sink = "copying")
             /\ Accounted(a, ListedOf(results) \cup FilesOf(cur.res), Wrong)
             /\ arch.broken => a.broken
    <3>1. Wrong => a.broken \/ AFailure(results) \/ p.sink \in {"error", "disk"}
      BY <1>1, <2>2 DEF Wrong
    <3> QED
      BY <1>2, <2>2, <3>1 DEF Accounted
  <2> QED
    BY <2>1, <2>2
<1> QED
  BY <1>1, <1>2, <1>3, <1>4, <1>5, StaysKeeps

\* The goroutine, and the reader until it writes the entry's end.
LEMMA PipeMoves ==
    ASSUME HostInv, UNCHANGED sigVars, Offers \/ OfferRefused \/ WriteEnds \/ SinkTakes \/ Shuts
    PROVE  HostInv'
<1>1. /\ pipe.writer # None \/ pipe.sink # None
      /\ \E p \in PipeStates : Pipes(p, arch) /\ p.sink = pipe.sink /\ p.writer # None
                               /\ (pipe.writer # "writing" => p.writer = pipe.writer)
  <2>1. pipe.writer # None \/ pipe.sink # None
    BY DEF Offers, OfferRefused, WriteEnds, SinkTakes, Shuts, Writing, None
  <2>2. pipe \in PipeStates /\ pipe.writer # None
    BY <2>1, Piping
  <2> DEFINE w == pipe.writer
             l == pipe.left
             o == pipe.offered
             k == pipe.sink
             h == pipe.shut
             bad == "error"
             eof == "eof"
             yes == TRUE
             no == FALSE
  <2>3. /\ w \in {None, "writing", "eof", "error"} /\ k \in {None, "copying", "eof", "error", "disk"}
        /\ bad \in {None, "writing", "eof", "error"} /\ eof \in {None, "writing", "eof", "error"}
        /\ l \in Int /\ l - 1 \in Int /\ o \in BOOLEAN /\ h \in BOOLEAN
        /\ yes \in BOOLEAN /\ no \in BOOLEAN /\ w # None /\ bad # None /\ eof # None
    BY <2>2 DEF PipeStates, None
  <2>4. CASE Offers
    <3>1. Pipes(EndsOf(w, l - 1, yes, k, h), arch)
      BY <2>2, <2>4, SetOffered, Zenon DEF Offers
    <3> HIDE DEF w, l, o, k, h, yes
    <3>2. LET p == EndsOf(w, l - 1, yes, k, h) IN p \in PipeStates /\ p.sink = k /\ p.writer = w
      BY <2>3, Ending, SMTT(30)
    <3> QED
      BY <2>1, <2>3, <3>1, <3>2, Zenon DEF w, k
  <2>5. CASE OfferRefused
    <3>1. Pipes(EndsOf(bad, l, no, k, h), arch) /\ w = "writing"
      BY <2>2, <2>5, SetRefused, Zenon DEF OfferRefused, Writing
    <3> HIDE DEF w, l, o, k, h, no, bad
    <3>2. LET p == EndsOf(bad, l, no, k, h) IN p \in PipeStates /\ p.sink = k /\ p.writer = bad
      BY <2>3, Ending, SMTT(30)
    <3> QED
      BY <2>1, <2>3, <3>1, <3>2, Zenon DEF w, k
  <2>6. CASE WriteEnds
    <3>1. w = "writing" /\ (Pipes(EndsOf(bad, l, o, k, h), arch) \/ Pipes(EndsOf(eof, l, o, k, h), arch))
      BY <2>2, <2>6, SetEnds, ZenonT(60) DEF WriteEnds, Writing
    <3> HIDE DEF w, l, o, k, h, bad, eof
    <3>2. LET p == EndsOf(bad, l, o, k, h) IN p \in PipeStates /\ p.sink = k /\ p.writer = bad
      BY <2>3, Ending
    <3>3. LET p == EndsOf(eof, l, o, k, h) IN p \in PipeStates /\ p.sink = k /\ p.writer = eof
      BY <2>3, Ending
    <3> QED
      BY <2>1, <2>3, <3>1, <3>2, <3>3, Zenon DEF w, k
  <2>7. CASE SinkTakes
    <3>1. Pipes(EndsOf(w, l, no, k, h), arch)
      BY <2>2, <2>7, SetEnds, Zenon DEF SinkTakes
    <3> HIDE DEF w, l, o, k, h, no
    <3>2. LET p == EndsOf(w, l, no, k, h) IN p \in PipeStates /\ p.sink = k /\ p.writer = w
      BY <2>3, Ending, SMTT(30)
    <3> QED
      BY <2>1, <2>3, <3>1, <3>2, Zenon DEF w, k
  <2>8. CASE Shuts
    <3>1. Pipes(EndsOf(w, l, o, k, yes), arch)
      BY <2>2, <2>8, SetEnds, Zenon DEF Shuts
    <3> HIDE DEF w, l, o, k, h, yes
    <3>2. LET p == EndsOf(w, l, o, k, yes) IN p \in PipeStates /\ p.sink = k /\ p.writer = w
      BY <2>3, Ending, SMTT(30)
    <3> QED
      BY <2>1, <2>3, <3>1, <3>2, Zenon DEF w, k
  <2> QED
    BY <2>4, <2>5, <2>6, <2>7, <2>8
<1>2. PICK p \in PipeStates : Pipes(p, arch) /\ p.sink = pipe.sink /\ p.writer # None
                              /\ (pipe.writer # "writing" => p.writer = pipe.writer)
  BY <1>1
<1>3. pc = "reading" /\ pipe.sink # None
  BY <1>1, Piping
<1>4. Open(arch, arch) /\ Piped /\ Accounted(arch, ListedOf(results) \cup FilesOf(cur.res), Wrong)
  BY <1>3, Reads_
<1>5. p.sink = "eof" => p.writer = "eof"
  BY <1>2, <1>4 DEF Piped
<1>6. p.sink # None /\ p.writer # None /\ Pipes(p, arch) /\ p.sink = pipe.sink
  BY <1>2, <1>3
<1>7. /\ p.sink = pipe.sink \/ (p.sink = "eof" /\ pipe.sink = "copying")
      /\ Accounted(arch, ListedOf(results) \cup FilesOf(cur.res), Wrong)
      /\ arch.broken => arch.broken
  BY <1>4, <1>6, Zenon
<1> QED
  BY <1>1, <1>4, <1>5, <1>6, <1>7, PipesKeeps

\* The disk fails under the reader, or the entry ends as the writer did.
LEMMA SinkKeeps == ASSUME HostInv, UNCHANGED sigVars, SinkBreaks \/ SinkEnds PROVE HostInv'
<1>1. pipe.sink = "copying"
  BY DEF SinkBreaks, SinkEnds
<1>2. pc = "reading" /\ pipe.writer # None /\ pipe \in PipeStates
  BY <1>1, Piping DEF None
<1>3. /\ arch \in Zips /\ SinkName \in EntryNames /\ Len(SinkName) = 2
      /\ Accounted(arch, ListedOf(results) \cup FilesOf(cur.res), Wrong)
  BY <1>2, Reads_ DEF SinkName, EntryNames
<1>4. CASE SinkBreaks
  <2> DEFINE no == FALSE
             bad == TRUE
             a == With(arch, SinkName, no, bad)
             p == [pipe EXCEPT !.sink = "disk"]
  <2>1. [arch EXCEPT !.broken = TRUE, !.entries = Append(@, [name |-> SinkName, whole |-> FALSE])] = a
    BY <1>3 DEF With, Zips
  <2>2. Pipes(p, a)
    BY <1>4, <2>1, Zenon DEF SinkBreaks
  <2>3. p \in PipeStates /\ p.writer = pipe.writer /\ p.sink = "disk"
    BY <1>2 DEF PipeStates
  <2>4. no \in BOOLEAN /\ bad \in BOOLEAN
    OBVIOUS
  <2> HIDE DEF no, bad
  <2>5. Open(arch, a) /\ WholeOf(arch) \subseteq WholeOf(a)
    BY <1>3, <2>4, Appending DEF Open
  <2> HIDE DEF a, p
  <2>6. p.sink # None /\ p.sink # "eof" /\ p.sink \in {"error", "disk"}
    BY <2>3 DEF None
  <2> QED
    BY <1>1, <1>2, <2>2, <2>3, <2>5, <2>6, PipesKeeps
<1>5. CASE SinkEnds
  <2> DEFINE whole == pipe.writer = "eof"
             bad == arch.broken
             a == With(arch, SinkName, whole, bad)
             p == [pipe EXCEPT !.sink = pipe.writer]
  <2>0. pipe.writer \in {"eof", "error"} /\ whole \in BOOLEAN /\ bad \in BOOLEAN
    BY <1>3, <1>5 DEF SinkEnds, Zips
  <2>1. [arch EXCEPT !.entries = Append(@, [name |-> SinkName, whole |-> whole])] = a
    <3> DEFINE es == Append(arch.entries, [name |-> SinkName, whole |-> whole])
    <3> HIDE DEF es
    <3>1. [arch EXCEPT !.entries = es] = [arch EXCEPT !.entries = es, !.broken = arch.broken]
      BY <1>3, EnteredAlone, Entered, Zenon
    <3> QED
      BY <3>1, Zenon DEF With, es
  <2>2. Pipes(p, a)
    BY <1>5, <2>1, Zenon DEF SinkEnds
  <2>3. p \in PipeStates /\ p.writer = pipe.writer /\ p.sink = pipe.writer
    BY <1>2, <2>0 DEF PipeStates
  <2> HIDE DEF whole, bad
  <2>4. /\ Open(arch, a) /\ WholeOf(arch) \subseteq WholeOf(a) /\ a.broken = bad
        /\ NamesOf(a) = NamesOf(arch) \cup {SinkName}
        /\ whole => WholeOf(a) = WholeOf(arch) \cup {SinkName} /\ (Torn(a) <=> Torn(arch))
    BY <1>3, <2>0, Appending DEF Open
  <2>5. whole => Accounted(a, ListedOf(results) \cup FilesOf(cur.res), Wrong)
    <3> DEFINE L == ListedOf(results) \cup FilesOf(cur.res)
               w == Wrong
    <3> SUFFICES ASSUME whole PROVE Accounted(a, L, w)
      OBVIOUS
    <3>1. /\ NamesOf(a) = NamesOf(arch) \cup {SinkName} /\ WholeOf(a) = WholeOf(arch) \cup {SinkName}
          /\ Torn(a) <=> Torn(arch)
      BY <2>4, Zenon
    <3>2. Accounted(arch, L, w) /\ Len(SinkName) # 3
      BY <1>3
    <3> HIDE DEF L, w
    <3> QED
      BY <3>1, <3>2 DEF Accounted, Filed
  <2>6. arch.broken => a.broken
    BY <2>4 DEF bad
  <2> HIDE DEF a, p
  <2>7. CASE pipe.writer = "eof"
    <3>1. whole
      BY <2>7 DEF whole
    <3>2. p.sink = "eof" /\ p.writer = "eof" /\ p.sink # None
      BY <2>3, <2>7 DEF None
    <3>3. Accounted(a, ListedOf(results) \cup FilesOf(cur.res), Wrong)
      BY <2>5, <3>1
    <3> QED
      BY <1>1, <1>2, <2>2, <2>3, <2>4, <2>6, <3>2, <3>3, PipesKeeps
  <2>8. CASE pipe.writer = "error"
    <3>1. p.sink \in {"error", "disk"} /\ p.sink # "eof" /\ p.sink # None
      BY <2>3, <2>8 DEF None
    <3> QED
      BY <1>1, <1>2, <2>2, <2>3, <2>4, <3>1, PipesKeeps
  <2> QED
    BY <2>0, <2>7, <2>8
<1> QED
  BY <1>4, <1>5

\* The source takes the pipe's outcome.
LEMMA JoinsKeeps == ASSUME HostInv, UNCHANGED sigVars, JoinsWriter PROVE HostInv'
<1>1. /\ pc = "reading" /\ cur.at = "writing" /\ pipe.writer \in {"eof", "error"}
      /\ Done(IF pipe.sink = "eof" THEN cur.res ELSE Badly(Failed, cur.res.bad), arch)
  BY DEF JoinsWriter, At, Reads, Badly
<1>2. CASE pipe.sink = "eof"
  <2>1. Done(cur.res, arch)
    BY <1>1, <1>2
  <2>2. cur.res \in Outcomes /\ cur.res.status = "read" /\ ~cur.err
    BY <1>1, Reads_
  <2> QED
    BY <1>1, <1>2, <2>1, <2>2, EndingKeeps
<1>3. CASE pipe.sink # "eof"
  <2> DEFINE b == cur.res.bad
             r == Badly(Failed, b)
  <2>1. Done(r, arch)
    BY <1>1, <1>3
  <2>2. cur.res \in Outcomes /\ b \in BOOLEAN /\ cur.src.name \in Titles /\ Open(arch, arch)
    BY <1>1, Reads_ DEF Outcomes
  <2>3. "failed" \in Statuses
    BY DEF Statuses
  <2>4. Failed \in Outcomes /\ Failed.status = "failed" /\ Failed.files = {}
    BY <2>2, <2>3, Fresh DEF Failed
  <2> HIDE DEF b
  <2>5. r \in Outcomes /\ r.status = "failed" /\ r.files = {}
    BY <2>2, <2>4 DEF Outcomes, Badly
  <2>6. FilesOf(r) = {}
    BY <2>5 DEF FilesOf
  <2> HIDE DEF r
  <2> QED
    BY <1>1, <2>1, <2>2, <2>5, <2>6, FailingKeeps
<1> QED
  BY <1>2, <1>3

-----------------------------------------------------------------------------
(* The directories *)

\* A directory opened.
LEMMA OpensKeeps ==
    ASSUME HostInv, UNCHANGED sigVars, pc = "reading", cur.at = "open", NEW S \in SUBSET Disk,
           cur.src.kind \in {"sqlwriter", "extensions"},
           Continues([cur EXCEPT !.at = "files", !.todo = S])
    PROVE  HostInv'
<1> DEFINE at == "files"
<1>1. /\ cur \in Reading /\ cur.res \in Outcomes /\ cur.queries \in Seq(Asked) /\ cur.left \in Int
      /\ cur.step \in Nat /\ cur.err \in BOOLEAN /\ cur.step = 0 /\ ~cur.err
      /\ cur.res.name = cur.src.name /\ cur.res.status = "read" /\ cur.src \in Sources
  BY Reads_ DEF Reading
<1>2. at \in {"queries", "writing", "files", "steps"} /\ at = "files"
  OBVIOUS
<1> HIDE DEF at
<1>3. cur' = [cur EXCEPT !.at = at, !.todo = S]
      /\ UNCHANGED <<pc, env, plan, log, arch, pipe, results, code>>
  BY <1>2 DEF Continues
<1>4. [cur EXCEPT !.at = at, !.todo = S] =
          Moved(cur, at, cur.res, cur.queries, S, cur.left, cur.step, cur.err)
  <2>1. cur \in Reading
    BY <1>1
  <2> QED
    BY <2>1, SetAtTodo, Zenon
<1>5. cur' = Moved(cur, at, cur.res, cur.queries, S, cur.left, cur.step, cur.err)
  BY <1>3, <1>4
<1>6. /\ cur' \in Reading /\ cur'.src = cur.src /\ cur'.at = "files" /\ cur'.res = cur.res
      /\ cur'.step = 0 /\ ~cur'.err
  BY <1>1, <1>2, <1>5, Moving
<1>7. Placed_(cur')
  BY <1>1, <1>6 DEF Placed_
<1> QED
  BY <1>1, <1>3, <1>6, <1>7, GoingOnKeeps

\* SQL Writer's logs: opened, copied one by one, ended.
LEMMA SQLWriterKeeps ==
    ASSUME HostInv, UNCHANGED sigVars, OpenSQLWriter \/ CopySQLWriter \/ EndSQLWriter
    PROVE  HostInv'
<1>1. "absent" \in Statuses \ {"failed"} /\ "absent" # "skipped"
  BY DEF Statuses
<1>2. CASE OpenSQLWriter
  <2>1. pc = "reading" /\ cur.at = "open" /\ cur.src.kind = "sqlwriter"
    BY <1>2 DEF OpenSQLWriter, At, Reads
  <2>2. CASE Done(Failed, arch)
    BY <2>1, <2>2, Reads_, FailedKeeps
  <2>3. CASE Done(Result("absent", cur.src.name), arch)
    BY <1>1, <2>1, <2>3, Opened_, WithoutKeeps
  <2>4. CASE Done([cur.res EXCEPT !.noted = {"refused"}], arch)
    <3> DEFINE res == Marked(cur.res, {"refused"})
    <3>1. Done(res, arch)
      BY <2>4 DEF Marked
    <3>2. {"refused"} \in SUBSET {"refused", "changed", "nothing"} /\ {} \in SUBSET OwnQueries
      OBVIOUS
    <3>3. cur.res \in Outcomes /\ cur.res.status = "read"
      BY <2>1, Reads_
    <3>4. res \in Outcomes /\ res.status = "read" /\ FilesOf(res) = FilesOf(cur.res)
      BY <3>2, <3>3, Marking
    <3> HIDE DEF res
    <3>5. pipe.sink \notin {"error", "disk"} /\ ~cur.err
      BY <2>1, Opened_ DEF None
    <3> QED
      BY <2>1, <3>1, <3>4, <3>5, EndingKeeps
  <2>5. CASE \E S \in SUBSET Disk : Continues([cur EXCEPT !.at = "files", !.todo = S])
    BY <2>1, <2>5, OpensKeeps
  <2> QED
    BY <1>2, <2>2, <2>3, <2>4, <2>5, Zenon DEF OpenSQLWriter
<1>3. CASE CopySQLWriter
  <2>1. pc = "reading" /\ cur.at = "files" /\ cur.at \in {"files", "steps"}
    BY <1>3 DEF CopySQLWriter, At, Reads
  <2>2. PICK f \in Due :
          \/ OverBudget(f)
          \/ Done(Changed, arch)
          \/ Passes(f, Noting(f, "refused"))
          \/ Copies(f)
          \/ \E a \in CopyFails(f) : Done([cur.res EXCEPT !.status = "failed"], a)
    BY <1>3, Zenon DEF CopySQLWriter
  <2>3. CASE Done(Changed, arch)
    <3>1. Changed \in Outcomes /\ Changed.status = "read" /\ FilesOf(Changed) = FilesOf(cur.res)
      BY <2>1, Changing
    <3>2. pipe.sink \notin {"error", "disk"} /\ ~cur.err
      BY <2>1, Reads_ DEF None
    <3> QED
      BY <2>1, <2>3, <3>1, <3>2, EndingKeeps
  <2>4. CASE Passes(f, Noting(f, "refused"))
    <3> DEFINE v == "refused"
    <3>1. v \in {"refused", "window"} /\ Passes(f, Noting(f, v))
      BY <2>4
    <3> HIDE DEF v
    <3> QED
      BY <2>1, <3>1, PassKeeps
  <2> QED
    BY <2>1, <2>2, <2>3, <2>4, OverBudgetKeeps, CopyKeeps, CopyFailedKeeps
<1>4. CASE EndSQLWriter
  <2>1. pc = "reading" /\ cur.at = "files"
        /\ Done(IF cur.res.files = {} THEN Result("absent", cur.src.name) ELSE cur.res, arch)
    BY <1>4 DEF EndSQLWriter, At, Reads
  <2>2. pipe.sink \notin {"error", "disk"} /\ ~cur.err /\ cur.res \in Outcomes
        /\ cur.res.status = "read"
    BY <2>1, Reads_ DEF None
  <2>3. CASE cur.res.files = {}
    <3>1. FilesOf(cur.res) = {}
      BY <2>3 DEF FilesOf
    <3> QED
      BY <1>1, <2>1, <2>2, <2>3, <3>1, WithoutKeeps
  <2>4. CASE cur.res.files # {}
    BY <2>1, <2>2, <2>4, EndingKeeps
  <2> QED
    BY <2>3, <2>4
<1> QED
  BY <1>2, <1>3, <1>4

\* The extensions' files: the same, within the window.
LEMMA ExtensionsKeep ==
    ASSUME HostInv, UNCHANGED sigVars, OpenExtensions \/ CopyExtensions \/ EndExtensions
    PROVE  HostInv'
<1>1. "absent" \in Statuses \ {"failed"} /\ "absent" # "skipped"
  BY DEF Statuses
<1>2. CASE OpenExtensions
  <2>1. pc = "reading" /\ cur.at = "open" /\ cur.src.kind = "extensions"
    BY <1>2 DEF OpenExtensions, At, Reads
  <2>2. CASE Done(Failed, arch)
    BY <2>1, <2>2, Reads_, FailedKeeps
  <2>3. CASE Done(Result("absent", cur.src.name), arch)
    BY <1>1, <2>1, <2>3, Opened_, WithoutKeeps
  <2>4. CASE Written([cur.res EXCEPT !.noted = {"refused"}])
    <3> DEFINE res == Marked(cur.res, {"refused"})
    <3>1. Written(res)
      BY <2>4 DEF Marked
    <3>2. {"refused"} \in SUBSET {"refused", "changed", "nothing"} /\ {} \in SUBSET OwnQueries
      OBVIOUS
    <3>3. cur.res \in Outcomes /\ cur.res.status = "read"
      BY <2>1, Reads_
    <3>4. res \in Outcomes /\ res.status = "read" /\ FilesOf(res) = FilesOf(cur.res)
      BY <3>2, <3>3, Marking
    <3> HIDE DEF res
    <3>5. ~cur.err /\ cur.at # "writing" /\ res.status # "skipped"
      BY <2>1, <3>4, Opened_
    <3> QED
      BY <2>1, <3>1, <3>4, <3>5, WrittenKeeps
  <2>5. CASE \E S \in SUBSET Disk : Continues([cur EXCEPT !.at = "files", !.todo = S])
    BY <2>1, <2>5, OpensKeeps
  <2> QED
    BY <1>2, <2>2, <2>3, <2>4, <2>5, Zenon DEF OpenExtensions, Walks
<1>3. CASE CopyExtensions
  <2>1. pc = "reading" /\ cur.at = "files" /\ cur.at \in {"files", "steps"}
    BY <1>3 DEF CopyExtensions, At, Reads
  <2>2. PICK f \in Due :
          \/ Passes(f, Noting(f, "window"))
          \/ OverBudget(f)
          \/ Written(Changed)
          \/ Passes(f, Noting(f, "refused"))
          \/ Copies(f)
          \/ \E a \in CopyFails(f) : Done(Failed, a)
    BY <1>3, Zenon DEF CopyExtensions
  <2>3. CASE Written(Changed)
    <3>1. Changed \in Outcomes /\ Changed.status = "read" /\ FilesOf(Changed) = FilesOf(cur.res)
      BY <2>1, Changing
    <3>2. ~cur.err /\ cur.at # "writing" /\ Changed.status # "skipped"
      BY <2>1, <3>1, Reads_
    <3> QED
      BY <2>1, <2>3, <3>1, <3>2, WrittenKeeps
  <2>4. ASSUME NEW v \in {"refused", "window"}, Passes(f, Noting(f, v)) PROVE HostInv'
    BY <2>1, <2>4, PassKeeps
  <2>5. ASSUME NEW a \in CopyFails(f), Done(Failed, a) PROVE HostInv'
    BY <2>1, <2>5, CopyFailing, FailedKeeps
  <2>6. "refused" \in {"refused", "window"} /\ "window" \in {"refused", "window"}
    OBVIOUS
  <2>7. CASE OverBudget(f) \/ Copies(f)
    BY <2>1, <2>7, OverBudgetKeeps, CopyKeeps
  <2> QED
    BY <2>2, <2>3, <2>4, <2>5, <2>6, <2>7
<1>4. CASE EndExtensions
  <2>1. pc = "reading" /\ cur.at = "files" /\ Written(cur.res)
    BY <1>4 DEF EndExtensions, At, Reads
  <2>2. ~cur.err /\ cur.res \in Outcomes /\ cur.res.status # "skipped" /\ cur.at # "writing"
    BY <2>1, Reads_
  <2> QED
    BY <2>1, <2>2, WrittenKeeps
<1> QED
  BY <1>2, <1>3, <1>4

\* The steps of the instance's jobs.
LEMMA OpenJobsKeeps == ASSUME HostInv, UNCHANGED sigVars, OpenJobs PROVE HostInv'
<1>1. pc = "reading" /\ cur.at = "open" /\ cur.src.kind = "jobs"
  BY DEF OpenJobs, At, Reads
<1>2. "skipped" \in Statuses \ {"failed"} /\ "refused" \in Statuses \ {"failed"}
      /\ "refused" # "skipped"
  BY DEF Statuses
<1>3. CASE (~env.facts \/ ~env.match) /\ Done(Result("skipped", cur.src.name), arch)
  <2>1. ~env.match
    BY <1>3 DEF HostInv, HostTyped
  <2> QED
    BY <1>1, <1>2, <1>3, <2>1, Opened_, WithoutKeeps
<1>4. CASE Done(Result("refused", cur.src.name), arch)
  BY <1>1, <1>2, <1>4, Opened_, WithoutKeeps
<1>5. CASE Done(Failed, arch)
  BY <1>1, <1>5, Reads_, FailedKeeps
<1>6. CASE Continues([cur EXCEPT !.at = "steps"])
  <2>1. /\ cur \in Reading /\ cur.res.name = cur.src.name /\ cur.res.status = "read"
        /\ cur.src \in Sources
    BY <1>1, Reads_
  <2>2. cur' = [cur EXCEPT !.at = "steps"]
        /\ UNCHANGED <<pc, env, plan, log, arch, pipe, results, code>>
    BY <1>6 DEF Continues
  <2>3. cur' \in Reading /\ cur'.src = cur.src /\ cur'.at = "steps" /\ cur'.res = cur.res
        /\ cur'.err = cur.err
    BY <2>1, <2>2 DEF Reading
  <2>4. Placed_(cur')
    BY <1>1, <2>1, <2>3 DEF Placed_
  <2> QED
    BY <1>1, <2>2, <2>3, <2>4, GoingOnKeeps
<1> QED
  BY <1>3, <1>4, <1>5, <1>6, Zenon DEF OpenJobs

\* A step begins.
LEMMA BeginStepKeeps == ASSUME HostInv, UNCHANGED sigVars, BeginStep PROVE HostInv'
<1> DEFINE c == [cur EXCEPT !.step = @ + 1]
           next == cur.step + 1
<1>1. pc = "reading" /\ cur.at = "steps" /\ cur.at \in {"files", "steps"}
  BY DEF BeginStep, At, Reads
<1>2. /\ cur \in Reading /\ cur.res \in Outcomes /\ cur.left \in Int /\ next \in Nat
      /\ cur.err \in BOOLEAN /\ cur.todo \in SUBSET Disk /\ cur.res.name = cur.src.name
      /\ cur.res.status = "read"
  BY <1>1, Reads_ DEF Reading
<1>3. c = Moved(cur, cur.at, cur.res, cur.queries, cur.todo, cur.left, next, cur.err)
  <2>1. cur \in Reading
    BY <1>2
  <2> QED
    BY <2>1, SetStep, Zenon
<1>4. cur.res.noted \in SUBSET {"refused", "changed", "nothing"} /\ {} \in SUBSET OwnQueries
  BY <1>2 DEF Outcomes
<1> HIDE DEF next, c
<1>5. c.res = cur.res /\ c.todo = cur.todo
  BY <1>3 DEF Moved
<1>6. ASSUME NEW N \in SUBSET {"refused", "changed", "nothing"}
      PROVE  LET r == Marked(cur.res, N) IN
             r \in Outcomes /\ r.status = "read" /\ r.name = cur.src.name
               /\ FilesOf(r) = FilesOf(cur.res)
  BY <1>2, <1>4, Marking
<1>7. CASE Continues([c EXCEPT !.res.noted = @ \cup {"refused"}])
  <2> DEFINE N == cur.res.noted \cup {"refused"}
             r == Marked(cur.res, N)
  <2>1. [c EXCEPT !.res.noted = @ \cup {"refused"}] =
            Moved(cur, cur.at, r, cur.queries, cur.todo, cur.left, next, cur.err)
    BY <1>3 DEF Moved, Marked
  <2>2. N \in SUBSET {"refused", "changed", "nothing"}
    BY <1>4
  <2> HIDE DEF N
  <2>3. r \in Outcomes /\ r.status = "read" /\ r.name = cur.src.name /\ FilesOf(r) = FilesOf(cur.res)
    BY <1>6, <2>2
  <2> HIDE DEF r
  <2> QED
    BY <1>1, <1>2, <1>7, <2>1, <2>3, FileKeeps
<1>8. CASE Continues([c EXCEPT !.err = TRUE])
  <2> DEFINE yes == TRUE
  <2>1. yes \in BOOLEAN /\ yes
    OBVIOUS
  <2>2. Continues([c EXCEPT !.err = yes])
    BY <1>8
  <2> HIDE DEF yes
  <2>3. [c EXCEPT !.err = yes] =
            Moved(cur, cur.at, cur.res, cur.queries, cur.todo, cur.left, next, yes)
    BY <1>3 DEF Moved
  <2>4. Continues(Moved(cur, cur.at, cur.res, cur.queries, cur.todo, cur.left, next, yes))
    BY <2>2, <2>3, Zenon
  <2> QED
    BY <1>1, <1>2, <2>1, <2>4, FileKeeps
<1>9. ASSUME NEW S \in SUBSET {f \in Disk : f.mod >= Since},
             Continues([c EXCEPT
                 !.todo = {f \in S : Cardinality({g \in S : Newer(g, f)}) < StepFiles},
                 !.res.noted = IF S = {} THEN @ \cup {"nothing"} ELSE @])
      PROVE  HostInv'
  <2> DEFINE N == IF S = {} THEN cur.res.noted \cup {"nothing"} ELSE cur.res.noted
             r == Marked(cur.res, N)
             T == {f \in S : Cardinality({g \in S : Newer(g, f)}) < StepFiles}
  <2>0. T \in SUBSET Disk
    OBVIOUS
  <2> HIDE DEF T
  <2>1. Continues([c EXCEPT !.todo = T, !.res.noted = N])
    <3>1. [c EXCEPT !.todo = T, !.res.noted = IF S = {} THEN @ \cup {"nothing"} ELSE @] =
          [c EXCEPT !.todo = T, !.res.noted = N]
      BY <1>3, <1>5 DEF Moved
    <3> QED
      BY <1>9, <3>1, Zenon DEF T
  <2>2. N \in SUBSET {"refused", "changed", "nothing"}
    BY <1>4
  <2> HIDE DEF N
  <2>3. [c EXCEPT !.todo = T, !.res.noted = N] =
            Moved(cur, cur.at, r, cur.queries, T, cur.left, next, cur.err)
    <3> DEFINE d == Moved(cur, cur.at, cur.res, cur.queries, T, cur.left, next, cur.err)
    <3>1. [c EXCEPT !.todo = T] = d
      BY <1>3 DEF Moved
    <3>2. [d EXCEPT !.res.noted = N] = Moved(cur, cur.at, r, cur.queries, T, cur.left, next, cur.err)
      BY DEF Moved, Marked
    <3> HIDE DEF d, r
    <3> QED
      BY <3>1, <3>2, Zenon
  <2>4. r \in Outcomes /\ r.status = "read" /\ r.name = cur.src.name /\ FilesOf(r) = FilesOf(cur.res)
    BY <1>6, <2>2
  <2> HIDE DEF r
  <2> QED
    BY <1>1, <1>2, <2>0, <2>1, <2>3, <2>4, FileKeeps
<1> QED
  BY <1>7, <1>8, <1>9, Zenon DEF BeginStep, c

\* A step's files are copied, or it fails; the source ends when the steps do.
LEMMA JobsKeep == ASSUME HostInv, UNCHANGED sigVars, CopyJobOutputs \/ EndJobs PROVE HostInv'
<1>1. pc = "reading" /\ cur.at = "steps" /\ cur.at \in {"files", "steps"}
  BY DEF CopyJobOutputs, EndJobs, At, Reads
<1>2. /\ cur \in Reading /\ cur.res \in Outcomes /\ cur.left \in Int /\ cur.step \in Nat
      /\ cur.err \in BOOLEAN /\ {} \in SUBSET Disk /\ cur.res.name = cur.src.name
      /\ cur.res.status = "read"
  BY <1>1, Reads_ DEF Reading
<1>3. CASE CopyJobOutputs
  <2>2. PICK f \in Due :
          \/ OverBudget(f)
          \/ Continues([cur EXCEPT !.todo = {}, !.res = Changed])
          \/ Passes(f, Noting(f, "refused"))
          \/ Copies(f)
          \/ \E a \in CopyFails(f) : StepFails(a)
    BY <1>3, Zenon DEF CopyJobOutputs
  <2>3. CASE Continues([cur EXCEPT !.todo = {}, !.res = Changed])
    <3> DEFINE none == {}
    <3>1. Changed \in Outcomes /\ Changed.status = "read" /\ Changed.name = cur.src.name
          /\ FilesOf(Changed) = FilesOf(cur.res)
      BY <1>1, Changing
    <3>2. [cur EXCEPT !.todo = none, !.res = Changed] =
             Moved(cur, cur.at, Changed, cur.queries, none, cur.left, cur.step, cur.err)
      <4>1. cur \in Reading
        BY <1>2
      <4> QED
        BY <4>1, SetTodoRes, Zenon
    <3>3. Continues(Moved(cur, cur.at, Changed, cur.queries, none, cur.left, cur.step, cur.err))
      BY <2>3, <3>2, Zenon
    <3> QED
      BY <1>1, <1>2, <3>1, <3>3, FileKeeps
  <2>4. CASE Passes(f, Noting(f, "refused"))
    <3> DEFINE v == "refused"
    <3>1. v \in {"refused", "window"} /\ Passes(f, Noting(f, v))
      BY <2>4
    <3> HIDE DEF v
    <3> QED
      BY <1>1, <3>1, PassKeeps
  <2>5. ASSUME NEW a \in CopyFails(f), StepFails(a) PROVE HostInv'
    <3> DEFINE none == {}
               yes == TRUE
    <3>1. yes \in BOOLEAN /\ yes
      OBVIOUS
    <3> HIDE DEF yes
    <3>2. [cur EXCEPT !.todo = none, !.err = yes] =
             Moved(cur, cur.at, cur.res, cur.queries, none, cur.left, cur.step, yes)
      <4>1. cur \in Reading
        BY <1>2
      <4> QED
        BY <4>1, SetTodoErr, Zenon
    <3>3. /\ cur' = Moved(cur, cur.at, cur.res, cur.queries, none, cur.left, cur.step, yes)
          /\ arch' = a /\ UNCHANGED <<pc, env, plan, log, pipe, results, code>>
      BY <2>5, <3>2, Zenon DEF StepFails, yes
    <3>4. cur' \in Reading /\ Placed_(cur') /\ cur'.res = cur.res /\ cur'.at = cur.at /\ cur'.err
      BY <1>1, <1>2, <3>1, <3>3, Files_
    <3>5. Open(arch, a) /\ WholeOf(arch) \subseteq WholeOf(a)
      BY <1>1, <2>5, CopyFailing
    <3>6. ListedOf(results) \cup FilesOf(cur.res) \subseteq WholeOf(arch)
      BY <1>1, Reads_
    <3>7. Accounted(arch', ListedOf(results) \cup FilesOf(cur'.res),
                arch'.broken \/ AFailure(results) \/ cur'.err \/ pipe'.sink \in {"error", "disk"})
      BY <3>3, <3>4, <3>5, <3>6 DEF Accounted
    <3>8. pipe' \in PipeStates /\ pipe' = pipe /\ pipe.writer = None /\ pipe.sink = None
      BY <1>1, <3>3, Reads_
    <3>9. Piped'
      BY <3>8 DEF Piped, None
    <3> QED
      BY <1>1, <3>3, <3>4, <3>5, <3>7, <3>8, <3>9, StaysKeeps
  <2> QED
    BY <1>1, <2>2, <2>3, <2>4, <2>5, OverBudgetKeeps, CopyKeeps
<1>4. CASE EndJobs
  <2>1. Written(IF cur.err THEN Status(cur.res, "failed") ELSE cur.res)
    BY <1>4, Zenon DEF EndJobs, Status
  <2>2. CASE cur.err
    <3>1. "failed" \in Statuses
      BY DEF Statuses
    <3>2. LET r == Status(cur.res, "failed") IN
          r \in Outcomes /\ r.status = "failed" /\ FilesOf(r) = FilesOf(cur.res)
      BY <1>2, <3>1, Stating
    <3>3. Written(Status(cur.res, "failed"))
      BY <2>1, <2>2
    <3> QED
      BY <1>1, <3>2, <3>3, WrittenKeeps
  <2>3. CASE ~cur.err
    <3>1. Written(cur.res)
      BY <2>1, <2>3
    <3> QED
      BY <1>1, <1>2, <2>3, <3>1, WrittenKeeps
  <2> QED
    BY <2>2, <2>3
<1> QED
  BY <1>3, <1>4

-----------------------------------------------------------------------------
(* Run *)

\* What a run is built with is a list of sources.
LEMMA PlanFits == ASSUME NEW p \in SourceLists PROVE p \in Seq(Sources)
<1> DEFINE S == [name : STRING, kind : Kinds]
           Fits_(i) == /\ p[i].kind = "events" <=> p[i].name \in Channels
                       /\ p[i].kind = "sqlwriter" <=> p[i].name = "sqlwriter"
<1>1. p \in Seq(S)
  BY HostAssumption, Zenon
<1>2. \A i \in DOMAIN p : Fits_(i)
  BY HostAssumption, Zenon
<1>3. ASSUME NEW i \in DOMAIN p PROVE p[i] \in Sources
  <2>1. p[i] \in S
    <3> HIDE DEF S
    <3> QED
      BY <1>1
  <2>2. Fits_(i)
    BY <1>2
  <2> QED
    BY <2>1, <2>2 DEF Sources
<1> HIDE DEF S
<1> QED
  BY <1>1, <1>3

\* Nobody has pressed ctrl-c yet.
LEMMA SigTyped == SigInit => SigTypeOK
<1>1. 0 \in 0..MaxSignals
  <2>1. MaxSignals \in Nat
    BY HostAssumption
  <2> QED
    BY <2>1
<1> QED
  BY <1>1 DEF SigInit, SigTypeOK

\* The run's first state keeps the invariant.
LEMMA HostInitInv == ASSUME HostInit PROVE HostInv
<1>1. plan \in Seq(Sources)
  BY PlanFits DEF HostInit
<1>2. NoArchive \in Zips /\ NamesOf(NoArchive) = {} /\ WholeOf(NoArchive) = {}
      /\ ~Torn(NoArchive) /\ NoArchive.there = FALSE /\ NoArchive.broken = FALSE
  BY DEF NoArchive, Zips, NamesOf, WholeOf, Torn
<1>3. results = <<>> /\ ListedOf(results) = {} /\ ~AFailure(results)
  BY DEF HostInit, ListedOf, AFailure
<1>4. HostTyped
  <2>1. env \in Envs /\ env.match = FALSE
    BY DEF HostInit, Envs
  <2>2. SigTypeOK
    BY SigTyped DEF HostInit
  <2>3. results \in Seq(Outcomes) /\ log \in Logs /\ arch \in Zips /\ cur \in Reading
        /\ pipe \in PipeStates /\ code \in {0, 2, Running} /\ pc \in Before_
    BY <1>2, Idling DEF HostInit, Before_
  <2> QED
    BY <1>1, <2>1, <2>2, <2>3 DEF HostTyped
<1>5. Onward
  BY Idling DEF HostInit, Onward, Before_, Over, Piped, Running
<1>6. Accounts
  <2>1. cur = Idle /\ arch = NoArchive
    BY DEF HostInit
  <2> QED
    BY <1>2, <1>3, <2>1, Idling DEF Accounts, Accounted, Filed
<1>7. Concluded
  BY DEF HostInit, Concluded, AbandonedLeavesNothing, Running
<1> QED
  BY <1>4, <1>5, <1>6, <1>7 DEF HostInv

\* Where Run is when no source is read.
LEMMA Between ==
    ASSUME HostInv, pc # "reading"
    PROVE  /\ cur = Idle /\ pipe = NoPipe /\ arch \in Zips /\ Placed_(cur) /\ Piped
           /\ plan \in Seq(Sources) /\ env \in Envs /\ Accounted(arch, ListedOf(results), Wrong)
           /\ results \in Seq(Outcomes)
           /\ Wrong <=> arch.broken \/ AFailure(results)
<1>1. /\ cur = Idle /\ pipe = NoPipe /\ arch \in Zips /\ plan \in Seq(Sources) /\ env \in Envs
      /\ Placed_(cur) /\ Piped /\ results \in Seq(Outcomes)
  BY DEF HostInv, HostTyped, Onward
<1>2. FilesOf(cur.res) = {} /\ cur.err = FALSE /\ pipe.sink = None
  BY <1>1, Idling
<1>3. Accounted(arch, ListedOf(results), Wrong)
  BY <1>2 DEF HostInv, Accounts
<1>4. Wrong <=> arch.broken \/ AFailure(results)
  BY <1>2 DEF Wrong, None
<1> QED
  BY <1>1, <1>3, <1>4

\* What Run has learned so far, before it has an archive.
LEMMA LearnsKeeps ==
    ASSUME HostInv, UNCHANGED sigVars, pc \in Before_, NEW e \in Envs, e.match => e.facts,
           NEW next \in Before_, Learns(e, next), next = "create" => (e.match => e.steps # None)
    PROVE  HostInv'
<1>1. /\ env' = e /\ pc' = next /\ UNCHANGED <<plan, log, arch, cur, pipe, results, code>>
  BY DEF Learns
<1>2. pc # "reading"
  BY DEF Before_
<1>3. HostTyped'
  BY <1>1 DEF HostInv, HostTyped, SigTypeOK, sigVars
<1>4. Onward'
  <2>1. Placed_(cur)'
    BY <1>1 DEF HostInv, Onward, Placed_
  <2> QED
    BY <1>1, <2>1 DEF HostInv, Onward, Before_, Over, Piped
<1>5. Accounts'
  <2>1. \A i \in DOMAIN results' : FALSE
    BY <1>1 DEF HostInv, Onward
  <2> QED
    BY <1>1, <2>1 DEF HostInv, Accounts, Wrong
<1>6. Concluded'
  BY <1>1 DEF HostInv, Onward, Concluded, AbandonedLeavesNothing, Before_, Over, Running
<1> QED
  BY <1>3, <1>4, <1>5, <1>6 DEF HostInv

\* What it asks before the archive is created.
LEMMA AskingKeeps ==
    ASSUME HostInv, UNCHANGED sigVars,
           \/ (Check /\ ~Concludes(2, arch)) \/ Connect \/ Facts \/ Machine \/ AsksSteps
    PROVE  HostInv'
<1>1. pc \in Before_
  BY DEF Check, Connect, Facts, Machine, AsksSteps, Before_
<1>2. env \in Envs /\ (env.match => env.facts)
  BY DEF HostInv, HostTyped
<1>a. \A s \in {"check", "connect", "facts", "machine", "steps", "create"} : s \in Before_
  BY DEF Before_
<1>3. ASSUME NEW next \in {"connect", "facts", "machine", "steps"}, Learns(env, next) PROVE HostInv'
  BY <1>1, <1>2, <1>3, <1>a, LearnsKeeps
<1>4. CASE Facts
  <2> DEFINE yes == TRUE
             e == [env EXCEPT !.facts = yes]
             next == "machine"
  <2>1. Learns(e, next) \/ Learns(env, next)
    BY <1>4 DEF Facts
  <2>2. e \in Envs /\ e.facts
    BY <1>2 DEF Envs
  <2>3. next \in Before_ /\ next # "create" /\ next \in {"connect", "facts", "machine", "steps"}
    BY DEF Before_
  <2> HIDE DEF e, next
  <2> QED
    BY <1>1, <1>3, <2>1, <2>2, <2>3, LearnsKeeps
<1>5. CASE Machine
  <2>1. PICK own \in Engines, named \in Engines \cup {None}, services \in SUBSET Engines,
             match \in {FALSE, env.facts} :
            Learns([env EXCEPT !.match = match,
                        !.decided = ChooseEventSource(IF match THEN own ELSE None, named, services) # None],
                   "steps")
    BY <1>5 DEF Machine
  <2> DEFINE d == ChooseEventSource(IF match THEN own ELSE None, named, services) # None
             e == [facts |-> env.facts, match |-> match, decided |-> d, steps |-> env.steps,
                   count |-> env.count]
             next == "steps"
  <2>2. d \in BOOLEAN /\ match \in BOOLEAN /\ (match => env.facts)
    BY <1>2 DEF Envs
  <2> HIDE DEF d
  <2>3. [env EXCEPT !.match = match, !.decided = d] = e
    <3> DEFINE f == [facts |-> env.facts, match |-> match, decided |-> env.decided, steps |-> env.steps,
                     count |-> env.count]
    <3>1. [env EXCEPT !.match = match] = f
      BY <1>2 DEF Envs
    <3>2. [f EXCEPT !.decided = d] = e
      OBVIOUS
    <3> HIDE DEF f, e
    <3> QED
      BY <3>1, <3>2, Zenon
  <2>4. e \in Envs /\ (e.match => e.facts)
    BY <1>2, <2>2 DEF Envs
  <2>5. Learns(e, next)
    BY <2>1, <2>3, Zenon DEF d
  <2>6. next \in Before_ /\ next # "create"
    BY DEF Before_
  <2> HIDE DEF e, next
  <2> QED
    BY <1>1, <2>4, <2>5, <2>6, LearnsKeeps
<1>6. CASE AsksSteps
  <2> DEFINE next == "create"
  <2>0. next \in Before_
    BY DEF Before_
  <2>1. ASSUME ~env.match, Learns(env, next) PROVE HostInv'
    <3> HIDE DEF next
    <3> QED
      BY <1>1, <1>2, <2>0, <2>1, LearnsKeeps
  <2>2. ASSUME NEW s \in {"refused", "error"}, Learns([env EXCEPT !.steps = s], next) PROVE HostInv'
    <3> DEFINE e == [env EXCEPT !.steps = s]
    <3>1. e \in Envs /\ (e.match => e.facts) /\ e.steps # None
      BY <1>2 DEF Envs, None
    <3> HIDE DEF e, next
    <3> QED
      BY <1>1, <2>0, <2>2, <3>1, LearnsKeeps DEF e
  <2>3. ASSUME NEW n \in 0..Steps, Learns([env EXCEPT !.steps = "read", !.count = n], next)
        PROVE  HostInv'
    <3> DEFINE read == "read"
               e == [facts |-> env.facts, match |-> env.match, decided |-> env.decided, steps |-> read,
                     count |-> n]
               f == [facts |-> env.facts, match |-> env.match, decided |-> env.decided, steps |-> read,
                     count |-> env.count]
    <3>1. [env EXCEPT !.steps = read] = f
      BY <1>2 DEF Envs
    <3>2. [f EXCEPT !.count = n] = e
      OBVIOUS
    <3>3. n \in Nat
      BY HostAssumption
    <3>4. e \in Envs /\ (e.match => e.facts) /\ e.steps # None
      BY <1>2, <3>3 DEF Envs, None
    <3> HIDE DEF e, f, next
    <3>5. Learns(e, next)
      BY <2>3, <3>1, <3>2, Zenon DEF read
    <3> QED
      BY <1>1, <2>0, <3>4, <3>5, LearnsKeeps
  <2>4. /\ env.match => \/ Learns([env EXCEPT !.steps = "refused"], next)
                        \/ Learns([env EXCEPT !.steps = "error"], next)
                        \/ \E n \in 0..Steps : Learns([env EXCEPT !.steps = "read", !.count = n], next)
        /\ ~env.match => Learns(env, next)
    BY <1>6, Zenon DEF AsksSteps
  <2>5. "refused" \in {"refused", "error"} /\ "error" \in {"refused", "error"}
    OBVIOUS
  <2> HIDE DEF next
  <2> QED
    BY <2>1, <2>2, <2>3, <2>4, <2>5, Zenon
<1>7. CASE (Check /\ ~Concludes(2, arch)) \/ Connect
  <2>1. Learns(env, "connect") \/ Learns(env, "facts") \/ Learns(env, "machine")
    BY <1>7 DEF Check, Connect
  <2> QED
    BY <1>3, <2>1
<1> QED
  BY <1>4, <1>5, <1>6, <1>7, SMTT(30)

\* Run returns: what it leaves.
LEMMA ConcludesKeeps ==
    ASSUME HostInv, UNCHANGED sigVars, pc # "reading", pc \notin Over, NEW c \in {0, 2}, NEW a,
           Concludes(c, a), a \in Zips, Accounted(a, ListedOf(results), a.broken \/ AFailure(results)),
           (c = 0 => ExitZeroIsWhole)', AbandonedLeavesNothing'
    PROVE  HostInv'
<1>1. /\ pc' = "returned" /\ code' = c /\ arch' = a /\ UNCHANGED <<env, plan, log, cur, pipe, results>>
  BY DEF Concludes
<1>2. cur = Idle /\ pipe = NoPipe
  BY Between
<1>3. HostTyped'
  BY <1>1 DEF HostInv, HostTyped, SigTypeOK, sigVars, Over
<1>4. Onward'
  <2>1. Placed_(cur)'
    BY <1>1 DEF HostInv, Onward, Placed_
  <2> QED
    BY <1>1, <1>2, <2>1, Idling DEF HostInv, Onward, Before_, Over, Piped, Running
<1>5. Accounts'
  <2>1. FilesOf(cur'.res) = {}
    BY <1>1, <1>2, Idling
  <2>2. a.broken \/ AFailure(results) => Wrong'
    BY <1>1 DEF Wrong
  <2>3. Accounted(a, ListedOf(results) \cup FilesOf(cur'.res), Wrong')
    BY <2>1, <2>2 DEF Accounted
  <2> QED
    BY <1>1, <2>3 DEF HostInv, Accounts
<1>6. Concluded'
  BY <1>1 DEF Concluded
<1> QED
  BY <1>3, <1>4, <1>5, <1>6 DEF HostInv

\* Run goes on between the sources and its end.
LEMMA GoesKeeps ==
    ASSUME HostInv, UNCHANGED sigVars, pc \in {"create", "loop", "manifest", "close"},
           NEW next \in {"loop", "manifest", "close", "verdict", "abort"}, NEW a, a \in Zips,
           Goes(next, a), a.there, ~a.stray, a.closed <=> next = "verdict",
           next \in {"manifest", "close", "verdict"} => plan = <<>>,
           next = "close" => a.broken \/ <<"MANIFEST.txt">> \in NamesOf(a),
           next = "verdict" => ~a.broken /\ <<"MANIFEST.txt">> \in NamesOf(a),
           Accounted(a, ListedOf(results), a.broken \/ AFailure(results))
    PROVE  HostInv'
<1>1. /\ pc' = next /\ arch' = a /\ UNCHANGED <<env, plan, log, cur, pipe, results, code>>
  BY DEF Goes
<1>2. cur = Idle /\ pipe = NoPipe
  BY Between
<1>3. HostTyped'
  BY <1>1 DEF HostInv, HostTyped, SigTypeOK, sigVars, Over
<1>4. Onward'
  <2>1. Placed_(cur)'
    BY <1>1 DEF HostInv, Onward, Placed_
  <2>2. Names' = NamesOf(a)
    BY <1>1 DEF Names, NamesOf
  <2> QED
    BY <1>1, <1>2, <2>1, <2>2, Idling DEF HostInv, Onward, Before_, Over, Piped, Running
<1>5. Accounts'
  <2>1. FilesOf(cur'.res) = {}
    BY <1>1, <1>2, Idling
  <2>2. a.broken \/ AFailure(results) => Wrong'
    BY <1>1 DEF Wrong
  <2>3. Accounted(a, ListedOf(results) \cup FilesOf(cur'.res), Wrong')
    BY <2>1, <2>2 DEF Accounted
  <2> QED
    BY <1>1, <2>3 DEF HostInv, Accounts
<1>6. Concluded'
  BY <1>1 DEF HostInv, Onward, Concluded, AbandonedLeavesNothing, Over, Running
<1> QED
  BY <1>3, <1>4, <1>5, <1>6 DEF HostInv

\* What Run asks, and does between the sources.
LEMMA CheckFails ==
    ASSUME HostInv, UNCHANGED sigVars, pc = "check" \/ pc = "create", Concludes(2, arch)
    PROVE  HostInv'
<1>1. pc # "reading" /\ pc \notin Over /\ pc \in Before_
  BY DEF Over, Before_
<1>2. arch \in Zips /\ Accounted(arch, ListedOf(results), Wrong)
      /\ (Wrong <=> arch.broken \/ AFailure(results))
  BY <1>1, Between
<1>3. Accounted(arch, ListedOf(results), arch.broken \/ AFailure(results))
  BY <1>2 DEF Accounted
<1>4. ~arch.there /\ arch' = arch
  BY <1>1 DEF HostInv, Onward, NoArchive, Concludes
<1>5. AbandonedLeavesNothing'
  BY <1>4 DEF AbandonedLeavesNothing
<1>6. 2 \in {0, 2} /\ 2 # 0
  OBVIOUS
<1> QED
  BY <1>1, <1>2, <1>3, <1>5, <1>6, ConcludesKeeps

\* Of an archive two fields are set.
LEMMA Made ==
    ASSUME NEW a \in Zips, NEW made \in BOOLEAN, NEW there \in BOOLEAN
    PROVE  LET b == [a EXCEPT !.made = made, !.there = there] IN
           /\ b \in Zips /\ b.there = there /\ b.stray = a.stray /\ b.closed = a.closed
           /\ b.entries = a.entries /\ b.broken = a.broken
<1> DEFINE r == [made |-> made, there |-> a.there, entries |-> a.entries, broken |-> a.broken,
                 closed |-> a.closed, stray |-> a.stray]
           b == [made |-> made, there |-> there, entries |-> a.entries, broken |-> a.broken,
                 closed |-> a.closed, stray |-> a.stray]
<1>1. [a EXCEPT !.made = made] = r
  BY DEF Zips
<1>2. [r EXCEPT !.there = there] = b
  OBVIOUS
<1>3. b \in Zips
  BY DEF Zips
<1>4. [a EXCEPT !.made = made, !.there = there] = b
  <2> HIDE DEF r, b
  <2> QED
    BY <1>1, <1>2, Zenon
<1>5. /\ b.there = there /\ b.stray = a.stray /\ b.closed = a.closed
      /\ b.entries = a.entries /\ b.broken = a.broken
  OBVIOUS
<1> HIDE DEF b
<1> QED
  BY <1>3, <1>4, <1>5

\* The archive is created.
LEMMA CreatesKeeps ==
    ASSUME HostInv, UNCHANGED sigVars, Creates
    PROVE  HostInv'
<1>1. CASE Concludes(2, arch)
  BY <1>1, CheckFails DEF Creates
<1>2. CASE Goes("loop", Created)
  <2> DEFINE a == Created
             next == "loop"
  <2>1. /\ NoArchive \in Zips /\ NoArchive.entries = <<>> /\ NoArchive.broken = FALSE
        /\ NoArchive.closed = FALSE /\ NoArchive.stray = FALSE
    BY DEF NoArchive, Zips
  <2>2. a \in Zips /\ a.there /\ ~a.stray /\ ~a.closed /\ a.entries = <<>>
    <3> DEFINE yes == TRUE
    <3>1. yes \in BOOLEAN /\ a = [NoArchive EXCEPT !.made = yes, !.there = yes]
      BY Zenon DEF Created
    <3> HIDE DEF yes, a
    <3>2. /\ a \in Zips /\ a.there = yes /\ a.stray = NoArchive.stray
          /\ a.closed = NoArchive.closed /\ a.entries = NoArchive.entries
      BY <2>1, <3>1, Made, ZenonT(60)
    <3> QED
      BY <2>1, <3>2 DEF yes
  <2>3. results = <<>> /\ ListedOf(results) = {}
    BY DEF Creates, HostInv, Onward, Before_, ListedOf
  <2>4. NamesOf(a) = {} /\ ~Torn(a)
    <3> HIDE DEF a
    <3> QED
      BY <2>2 DEF NamesOf, Torn
  <2>5. Accounted(a, ListedOf(results), a.broken \/ AFailure(results))
    BY <2>3, <2>4 DEF Accounted, Filed
  <2>6. /\ next \in {"loop", "manifest", "close", "verdict", "abort"}
        /\ next \notin {"manifest", "close", "verdict"}
        /\ pc \in {"create", "loop", "manifest", "close"}
    BY DEF Creates
  <2>7. Goes(next, a)
    BY <1>2
  <2> HIDE DEF a, next
  <2> QED
    BY <2>2, <2>5, <2>6, <2>7, GoesKeeps
<1> QED
  BY <1>1, <1>2 DEF Creates, Goes

\* The next source is taken.
LEMMA NextKeeps ==
    ASSUME HostInv, UNCHANGED sigVars, NextSource
    PROVE  HostInv'
<1> DEFINE s == Head(plan)
<1>1. /\ pc = "loop" /\ plan # <<>> /\ pc' = "reading" /\ cur' = Opened(s) /\ plan' = Tail(plan)
      /\ UNCHANGED <<env, log, arch, pipe, results, code>>
  BY DEF NextSource
<1>2. /\ cur = Idle /\ pipe = NoPipe /\ arch \in Zips /\ plan \in Seq(Sources)
      /\ Accounted(arch, ListedOf(results), Wrong) /\ (Wrong <=> arch.broken \/ AFailure(results))
  BY <1>1, Between
<1>3. s \in Sources /\ plan' \in Seq(Sources)
  BY <1>1, <1>2
<1> HIDE DEF s
<1>4. s.name \in Titles /\ s.kind \in Kinds \cup {None} /\ s = [name |-> s.name, kind |-> s.kind]
  BY <1>3 DEF Sources, Titles
<1>5. /\ cur' \in Reading /\ cur'.src = s /\ cur'.at = "open" /\ cur'.res = Result("read", s.name)
      /\ cur'.step = 0 /\ cur'.err = FALSE
  <2> DEFINE r == [name |-> s.name, kind |-> s.kind]
  <2>1. /\ Opened(r) \in Reading /\ Opened(r).src = r /\ Opened(r).at = "open"
        /\ Opened(r).res = Result("read", s.name) /\ Opened(r).step = 0 /\ Opened(r).err = FALSE
    BY <1>4, Opening, Zenon
  <2> HIDE DEF r
  <2>2. r = s
    BY <1>4 DEF r
  <2> QED
    BY <1>1, <2>1, <2>2
<1>6. "read" \in Statuses
  BY DEF Statuses
<1>7. cur'.res.name = s.name /\ cur'.res.status = "read" /\ cur'.res.files = {}
      /\ FilesOf(cur'.res) = {}
  <2>1. /\ Result("read", s.name).name = s.name /\ Result("read", s.name).status = "read"
        /\ Result("read", s.name).files = {} /\ FilesOf(Result("read", s.name)) = {}
    BY <1>4, <1>6, Fresh, Zenon
  <2> QED
    BY <1>5, <2>1
<1>8. Placed_(cur)'
  BY <1>1, <1>3, <1>5, <1>7 DEF Placed_
<1>9. HostTyped'
  BY <1>1, <1>3, <1>5 DEF HostInv, HostTyped, SigTypeOK, sigVars
<1>10. Onward'
  BY <1>1, <1>2, <1>5, <1>8, Idling DEF HostInv, Onward, Before_, Over, Piped
<1>11. Accounts'
  <2>1. arch.broken \/ AFailure(results) => Wrong'
    BY <1>1 DEF Wrong
  <2>2. Accounted(arch', ListedOf(results)' \cup FilesOf(cur'.res), Wrong')
    BY <1>1, <1>2, <1>7, <2>1 DEF Accounted
  <2> QED
    BY <1>1, <2>2 DEF HostInv, Accounts
<1>12. Concluded'
  BY <1>1 DEF HostInv, Onward, Concluded, AbandonedLeavesNothing, Over, Running
<1> QED
  BY <1>9, <1>10, <1>11, <1>12 DEF HostInv

\* The loop ends; the archive is as it was.
LEMMA EndLoopKeeps ==
    ASSUME HostInv, UNCHANGED sigVars, EndLoop
    PROVE  HostInv'
<1> DEFINE next == IF cancelled THEN "abort" ELSE "manifest"
<1>1. pc = "loop" /\ Goes(next, arch) /\ next \in {"abort", "manifest"}
      /\ (next = "manifest" => plan = <<>>)
  BY DEF EndLoop
<1>2. /\ arch \in Zips /\ Accounted(arch, ListedOf(results), Wrong)
      /\ (Wrong <=> arch.broken \/ AFailure(results))
  BY <1>1, Between
<1>3. arch.there /\ ~arch.stray /\ ~arch.closed
  BY <1>1 DEF HostInv, Onward
<1>4. Accounted(arch, ListedOf(results), arch.broken \/ AFailure(results))
  BY <1>2 DEF Accounted
<1> HIDE DEF next
<1>5. /\ next \in {"loop", "manifest", "close", "verdict", "abort"} /\ next # "close" /\ next # "verdict"
      /\ (next \in {"manifest", "close", "verdict"} => plan = <<>>)
      /\ pc \in {"create", "loop", "manifest", "close"}
  BY <1>1
<1> QED
  BY <1>1, <1>2, <1>3, <1>4, <1>5, GoesKeeps

\* The manifest is put, or the archive is broken.
LEMMA ManifestKeeps ==
    ASSUME HostInv, UNCHANGED sigVars, PutManifest
    PROVE  HostInv'
<1> DEFINE name == <<"MANIFEST.txt">>
           no == FALSE
           next == "close"
           L == ListedOf(results)
<1>1. name \in EntryNames /\ Len(name) # 3 /\ no \in BOOLEAN
  <2>1. Len(name) = 1
    OBVIOUS
  <2>2. name \in EntryNames
    BY DEF EntryNames
  <2> QED
    BY <2>1, <2>2
<1>2. PICK p \in Put(arch, name, no) : Goes(next, p.arch)
  BY Zenon DEF PutManifest
<1>3. pc = "manifest"
  BY DEF PutManifest
<1>4. /\ arch \in Zips /\ Accounted(arch, L, Wrong)
      /\ (Wrong <=> arch.broken \/ AFailure(results))
  BY <1>3, Between
<1>5. arch.there /\ ~arch.stray /\ ~arch.closed /\ plan = <<>>
  BY <1>3 DEF HostInv, Onward
<1> HIDE DEF no, L
<1>6. /\ Open(arch, p.arch) /\ p.ok \in BOOLEAN /\ WholeOf(arch) \subseteq WholeOf(p.arch)
      /\ (p.ok => ~p.arch.broken /\ NamesOf(p.arch) = NamesOf(arch) \cup {name})
      /\ (~p.ok => p.arch.broken)
  <2> HIDE DEF name
  <2>1. /\ Open(arch, p.arch) /\ p.ok \in BOOLEAN /\ WholeOf(arch) \subseteq WholeOf(p.arch)
        /\ (p.ok => ~p.arch.broken /\ NamesOf(p.arch) = NamesOf(arch) \cup {name})
        /\ (~p.ok => p.arch.broken \/ no)
    BY <1>1, <1>4, Putting
  <2> QED
    BY <2>1 DEF no
<1>7. Accounted(p.arch, L, p.arch.broken \/ AFailure(results))
  <2>1. CASE p.ok
    <3> DEFINE w == Wrong
    <3>1. Accounted(arch, L, w)
      BY <1>4
    <3> HIDE DEF w, name
    <3>2. Accounted(p.arch, L, w)
      BY <1>1, <1>4, <2>1, <3>1, PutAccounts
    <3>3. w => p.arch.broken \/ AFailure(results)
      <4>1. ~arch.broken
        BY <1>1, <1>4, <2>1, Putting
      <4> QED
        BY <1>4, <4>1 DEF w
    <3> QED
      BY <3>2, <3>3 DEF Accounted
  <2>2. CASE ~p.ok
    BY <1>4, <1>6, <2>2 DEF Accounted
  <2> QED
    BY <1>6, <2>1, <2>2
<1>8. p.arch \in Zips /\ p.arch.there /\ ~p.arch.stray /\ ~p.arch.closed
  BY <1>5, <1>6 DEF Open
<1>9. p.arch.broken \/ name \in NamesOf(p.arch)
  BY <1>6
<1>10. /\ next \in {"loop", "manifest", "close", "verdict", "abort"} /\ next # "verdict"
       /\ pc \in {"create", "loop", "manifest", "close"}
  BY <1>3
<1> HIDE DEF next
<1> QED
  BY <1>2, <1>5, <1>7, <1>8, <1>9, <1>10, GoesKeeps DEF L, name

\* The zip is closed, or is given up.
LEMMA ClosesKeeps ==
    ASSUME HostInv, UNCHANGED sigVars, Closes
    PROVE  HostInv'
<1>1. pc = "close" /\ pc \in {"create", "loop", "manifest", "close"}
  BY DEF Closes
<1>2. /\ arch \in Zips /\ Accounted(arch, ListedOf(results), Wrong)
      /\ (Wrong <=> arch.broken \/ AFailure(results))
  BY <1>1, Between
<1>3. arch.there /\ ~arch.stray /\ ~arch.closed /\ plan = <<>>
      /\ (arch.broken \/ <<"MANIFEST.txt">> \in NamesOf(arch))
  BY <1>1 DEF HostInv, Onward, Names, NamesOf
<1>4. CASE Goes("abort", [arch EXCEPT !.broken = TRUE])
  <2> DEFINE yes == TRUE
             a == [arch EXCEPT !.broken = yes]
             next == "abort"
  <2>1. Goes(next, a) /\ yes \in BOOLEAN
    BY <1>4
  <2>2. /\ next \in {"loop", "manifest", "close", "verdict", "abort"}
        /\ next \notin {"manifest", "close", "verdict"}
    OBVIOUS
  <2> HIDE DEF yes
  <2>3. /\ a \in Zips /\ a.there = arch.there /\ a.stray = arch.stray /\ a.closed = arch.closed
        /\ a.entries = arch.entries /\ a.broken = yes
    BY <1>2, <2>1 DEF Zips
  <2> HIDE DEF a, next
  <2>4. Accounted(a, ListedOf(results), a.broken \/ AFailure(results))
    <3>1. WholeOf(a) = WholeOf(arch)
      BY <2>3 DEF WholeOf
    <3>2. a.broken
      BY <2>3 DEF yes
    <3> QED
      BY <1>2, <3>1, <3>2 DEF Accounted
  <2> QED
    BY <1>1, <1>3, <2>1, <2>2, <2>3, <2>4, GoesKeeps
<1>5. CASE ~arch.broken /\ Goes("verdict", [arch EXCEPT !.closed = TRUE])
  <2> DEFINE yes == TRUE
             a == [arch EXCEPT !.closed = yes]
             next == "verdict"
  <2>1. Goes(next, a) /\ yes \in BOOLEAN
    BY <1>5
  <2>2. /\ next \in {"loop", "manifest", "close", "verdict", "abort"} /\ next = "verdict"
        /\ next # "close"
    OBVIOUS
  <2> HIDE DEF yes
  <2>3. /\ a \in Zips /\ a.there = arch.there /\ a.stray = arch.stray /\ a.closed = yes
        /\ a.entries = arch.entries /\ a.broken = arch.broken
    BY <1>2, <2>1 DEF Zips
  <2> HIDE DEF a, next
  <2>4. a.closed /\ ~a.broken
    BY <1>5, <2>3 DEF yes
  <2>5. NamesOf(a) = NamesOf(arch) /\ WholeOf(a) = WholeOf(arch) /\ (Torn(a) <=> Torn(arch))
    BY <2>3 DEF WholeOf, NamesOf, Torn
  <2>6. Accounted(a, ListedOf(results), a.broken \/ AFailure(results))
    BY <1>2, <1>5, <2>3, <2>5 DEF Accounted, Filed
  <2>7. <<"MANIFEST.txt">> \in NamesOf(a)
    BY <1>3, <1>5, <2>5
  <2> QED
    BY <1>1, <1>3, <2>1, <2>2, <2>3, <2>4, <2>6, <2>7, GoesKeeps
<1> QED
  BY <1>4, <1>5 DEF Closes

\* Files have names of three parts.
LEMMA ListedNames ==
    ASSUME NEW rs \in Seq(Outcomes)
    PROVE  \A n \in ListedOf(rs) : Len(n) = 3
<1>1. ASSUME NEW n \in ListedOf(rs) PROVE n \in Titles \X Nat \X Nat
  <2>1. PICK i \in DOMAIN rs : n \in FilesOf(rs[i])
    BY <1>1, Zenon DEF ListedOf
  <2>2. rs[i] \in Outcomes
    BY <2>1
  <2>3. PICK x \in rs[i].files : n = x.entry
    BY <2>1 DEF FilesOf
  <2>4. x \in Notes
    BY <2>2, <2>3 DEF Outcomes
  <2> QED
    BY <2>3, <2>4 DEF Notes
<1>2. \A n \in Titles \X Nat \X Nat : Len(n) = 3
  OBVIOUS
<1> QED
  BY <1>1, <1>2

\* The verdict, and what it promises.
LEMMA VerdictKeeps ==
    ASSUME HostInv, UNCHANGED sigVars, Verdict
    PROVE  HostInv'
<1> DEFINE bad == \/ ~env.facts \/ ~env.match \/ env.steps = "error" \/ AFailure(results)
           c == IF bad THEN 2 ELSE 0
<1>1. pc = "verdict" /\ Concludes(c, arch)
  BY DEF Verdict, AFailure
<1>2. pc # "reading" /\ pc \notin Over
  BY <1>1 DEF Over
<1>3. /\ arch \in Zips /\ Accounted(arch, ListedOf(results), Wrong) /\ env \in Envs
      /\ (Wrong <=> arch.broken \/ AFailure(results)) /\ results \in Seq(Outcomes)
  BY <1>2, Between
<1>4. /\ arch.there /\ arch.closed /\ ~arch.broken /\ ~arch.stray
      /\ <<"MANIFEST.txt">> \in NamesOf(arch) /\ plan = <<>> /\ (env.match => env.steps # None)
  BY <1>1 DEF HostInv, Onward, Names, NamesOf
<1>5. Accounted(arch, ListedOf(results), arch.broken \/ AFailure(results))
  BY <1>3 DEF Accounted
<1>6. arch' = arch /\ results' = results /\ env' = env /\ plan' = plan /\ code' = c
  BY <1>1 DEF Concludes
<1>7. Listed = ListedOf(results) /\ Names = NamesOf(arch)
  BY Zenon DEF Listed, ListedOf, Names, NamesOf
<1>8. AbandonedLeavesNothing'
  <2>1. ASSUME NEW n \in ListedOf(results)
        PROVE  \E i \in DOMAIN arch.entries : arch.entries[i] = [name |-> n, whole |-> TRUE]
    <3>1. n \in WholeOf(arch)
      BY <1>3, <2>1 DEF Accounted
    <3>2. PICK i \in DOMAIN arch.entries : arch.entries[i].name = n /\ arch.entries[i].whole
      BY <3>1 DEF WholeOf
    <3>3. arch.entries[i] \in [name : EntryNames, whole : BOOLEAN]
      <4> DEFINE T == [name : EntryNames, whole : BOOLEAN]
      <4>1. arch.entries \in Seq(T)
        BY <1>3 DEF Zips
      <4> HIDE DEF T
      <4>2. arch.entries[i] \in T
        BY <3>2, <4>1
      <4> QED
        BY <4>2 DEF T
    <3>4. arch.entries[i] = [name |-> n, whole |-> TRUE]
      BY <3>2, <3>3
    <3> QED
      BY <3>2, <3>4
  <2>2. Listed' = ListedOf(results) /\ Names' = NamesOf(arch)
    <3>1. Listed' = Listed /\ Names' = Names
      BY <1>6 DEF Listed, Names
    <3> QED
      BY <1>7, <3>1
  <2>3. \A n \in Listed' : \E i \in DOMAIN arch'.entries :
            arch'.entries[i] = [name |-> n, whole |-> TRUE]
    BY <1>6, <2>1, <2>2, Zenon
  <2> QED
    BY <1>4, <1>6, <2>2, <2>3 DEF AbandonedLeavesNothing
<1>9. ASSUME c = 0 PROVE ExitZeroIsWhole'
  <2>1. ~bad
    BY <1>9
  <2>2. env.match /\ env.steps \in {"read", "refused"}
    BY <1>3, <1>4, <2>1 DEF Envs
  <2>3. ASSUME NEW i \in DOMAIN results PROVE results[i].status \in {"read", "absent", "refused"}
    <3>1. results[i] \in Outcomes /\ results[i].status # "failed"
      BY <1>3, <2>1 DEF AFailure
    <3>2. results[i].status # "skipped"
      BY <2>2 DEF HostInv, Accounts
    <3> QED
      BY <3>1, <3>2 DEF Outcomes, Statuses
  <2>4. Filed(arch) \subseteq ListedOf(results) /\ ~Torn(arch)
    BY <1>4, <1>5, <2>1 DEF Accounted
  <2>5. Copied = ListedOf(results)
    <3>1. ListedOf(results) \subseteq NamesOf(arch)
      BY <1>5 DEF Accounted, WholeOf, NamesOf
    <3>2. \A n \in ListedOf(results) : Len(n) = 3
      BY <1>3, ListedNames
    <3>3. Copied = Filed(arch)
      BY <1>7, Zenon DEF Copied, Filed
    <3>4. ListedOf(results) \subseteq Filed(arch)
      BY <3>1, <3>2 DEF Filed
    <3> QED
      BY <2>4, <3>3, <3>4
  <2>6. \A i \in DOMAIN arch.entries : arch.entries[i].whole
    BY <2>4 DEF Torn
  <2>7. ExitZeroIsWhole
    BY <1>4, <1>7, <2>2, <2>3, <2>5, <2>6 DEF ExitZeroIsWhole, Kept_
  <2>8. Copied' = Copied /\ Listed' = Listed /\ Names' = Names
    BY <1>6 DEF Copied, Listed, Names
  <2> QED
    BY <1>6, <2>7, <2>8, <1>4, <1>7, <2>2, <2>3, <2>5, <2>6 DEF ExitZeroIsWhole, Kept_
<1>10. c \in {0, 2}
  OBVIOUS
<1> HIDE DEF bad, c
<1> QED
  BY <1>1, <1>2, <1>3, <1>5, <1>8, <1>9, <1>10, ConcludesKeeps

\* The archive is removed, or is said not to be.
LEMMA AbortsKeeps ==
    ASSUME HostInv, UNCHANGED sigVars, Aborts
    PROVE  HostInv'
<1>1. pc = "abort" /\ pc # "reading" /\ pc \notin Over
  BY DEF Aborts, Over
<1>2. /\ arch \in Zips /\ Accounted(arch, ListedOf(results), Wrong)
      /\ (Wrong <=> arch.broken \/ AFailure(results))
  BY <1>1, Between
<1>3. PICK a \in {[arch EXCEPT !.there = FALSE], [arch EXCEPT !.stray = TRUE]} : Concludes(2, a)
  BY DEF Aborts
<1>4. /\ a \in Zips /\ a.entries = arch.entries /\ a.broken = arch.broken
      /\ (~a.there \/ a.stray)
  <2>1. LET b == [arch EXCEPT !.there = FALSE]
        IN  b \in Zips /\ b.entries = arch.entries /\ b.broken = arch.broken /\ ~b.there
    BY <1>2 DEF Zips
  <2>2. LET b == [arch EXCEPT !.stray = TRUE]
        IN  b \in Zips /\ b.entries = arch.entries /\ b.broken = arch.broken /\ b.stray
    BY <1>2 DEF Zips
  <2> QED
    BY <1>3, <2>1, <2>2
<1>5. Accounted(a, ListedOf(results), a.broken \/ AFailure(results))
  <2>1. WholeOf(a) = WholeOf(arch) /\ NamesOf(a) = NamesOf(arch) /\ (Torn(a) <=> Torn(arch))
    BY <1>4 DEF WholeOf, NamesOf, Torn
  <2> QED
    BY <1>2, <1>4, <2>1 DEF Accounted, Filed
<1>6. AbandonedLeavesNothing'
  BY <1>3, <1>4 DEF AbandonedLeavesNothing, Concludes
<1>7. 2 \in {0, 2} /\ 2 # 0
  OBVIOUS
<1> QED
  BY <1>1, <1>3, <1>4, <1>5, <1>6, <1>7, ConcludesKeeps

\* The process ends: the verdict stays what it was.
LEMMA ExitsKeeps ==
    ASSUME HostInv, Exits
    PROVE  HostInv'
<1>1. /\ pc = "returned" /\ pc' = "exited"
      /\ UNCHANGED <<env, plan, log, arch, cur, pipe, results, code>>
  BY DEF Exits
<1>2. SigTypeOK'
  BY DEF Exits, StopSignals, HostInv, HostTyped, SigTypeOK
<1>3. HostTyped'
  BY <1>1, <1>2 DEF HostInv, HostTyped, Over
<1>4. Onward'
  <2>1. Placed_(cur)'
    BY <1>1 DEF HostInv, Onward, Placed_
  <2>2. pc # "reading" /\ pc \in Over /\ pc' \in Over
    BY <1>1 DEF Over
  <2>3. Piped'
    BY <1>1 DEF HostInv, Onward, Piped
  <2> QED
    BY <1>1, <2>1, <2>2, <2>3 DEF HostInv, Onward, Before_, Over
<1>5. Accounts'
  BY <1>1 DEF HostInv, Accounts, Wrong
<1>6. Concluded'
  <2>1. ExitZeroIsWhole' <=> ExitZeroIsWhole
    BY <1>1 DEF ExitZeroIsWhole, Kept_, Names, Copied, Listed
  <2>2. AbandonedLeavesNothing'
    BY <1>1 DEF HostInv, Concluded, AbandonedLeavesNothing, Names, Listed
  <2> QED
    BY <1>1, <2>1, <2>2 DEF HostInv, Concluded
<1> QED
  BY <1>3, <1>4, <1>5, <1>6 DEF HostInv

\* The handler and the operator touch only the signals.
LEMMA SignalsKeep ==
    ASSUME HostInv, Handles \/ Signal \/ UNCHANGED sigVars, UNCHANGED hostVars
    PROVE  HostInv'
<1>1. UNCHANGED <<pc, env, plan, log, arch, cur, pipe, results, code>>
  BY DEF hostVars
<1>2. SigTypeOK'
  <2>1. SigTypeOK /\ MaxSignals \in Nat
    BY HostAssumption DEF HostInv, HostTyped
  <2>2. CASE Signal
    BY <2>1, <2>2 DEF Signal, SigTypeOK
  <2>3. CASE Handles
    BY <2>1, <2>3 DEF Handles, TakesSignal, HandsBack, Cancels, SigTypeOK
  <2>4. CASE UNCHANGED sigVars
    BY <2>1, <2>4 DEF SigTypeOK, sigVars
  <2> QED
    BY <2>2, <2>3, <2>4
<1>3. HostTyped'
  BY <1>1, <1>2 DEF HostInv, HostTyped
<1>4. Onward'
  <2>1. Placed_(cur)' /\ Piped'
    BY <1>1 DEF HostInv, Onward, Placed_, Piped
  <2>2. Names' = Names
    BY <1>1 DEF Names
  <2> QED
    BY <1>1, <2>1, <2>2 DEF HostInv, Onward
<1>5. Accounts'
  BY <1>1 DEF HostInv, Accounts, Wrong
<1>6. Concluded'
  <2>1. ExitZeroIsWhole' <=> ExitZeroIsWhole
    BY <1>1 DEF ExitZeroIsWhole, Kept_, Names, Copied, Listed
  <2>2. AbandonedLeavesNothing'
    BY <1>1 DEF HostInv, Concluded, AbandonedLeavesNothing, Names, Listed
  <2> QED
    BY <1>1, <2>1, <2>2 DEF HostInv, Concluded
<1> QED
  BY <1>3, <1>4, <1>5, <1>6 DEF HostInv

\* Every step keeps the invariant.
LEMMA HostInductive == ASSUME HostInv, [HostNext]_allVars PROVE HostInv'
<1>1. CASE RunStep /\ UNCHANGED sigVars
  <2>1. CASE Check /\ Concludes(2, arch)
    BY <1>1, <2>1, CheckFails DEF Check
  <2>2. CASE (Check /\ ~Concludes(2, arch)) \/ Connect \/ Facts \/ Machine \/ AsksSteps
    BY <1>1, <2>2, AskingKeeps
  <2> QED
    BY <1>1, <2>1, <2>2, CreatesKeeps, NextKeeps, EndLoopKeeps, ManifestKeeps, ClosesKeeps, VerdictKeeps,
       AbortsKeeps DEF RunStep
<1>2. CASE ReadStep /\ UNCHANGED sigVars
  BY <1>2, SingleKeeps, OpenChannelKeeps, QueryKeeps, WriteEventsKeeps, JoinsKeeps, SQLWriterKeeps,
     ExtensionsKeep, OpenJobsKeeps, BeginStepKeeps, JobsKeep DEF ReadStep
<1>3. CASE (PipeReader \/ PipeWriter) /\ UNCHANGED sigVars
  BY <1>3, PipeMoves, SinkKeeps DEF PipeReader, PipeWriter
<1>4. CASE Exits
  BY <1>4, ExitsKeeps
<1>5. CASE HostHandler \/ HostOperator \/ UNCHANGED allVars
  BY <1>5, SignalsKeep DEF HostHandler, HostOperator, allVars, hostVars, sigVars
<1> QED
  BY <1>1, <1>2, <1>3, <1>4, <1>5 DEF HostNext, HostMain, Writer

\* What the invariant says of the property the run checks.
LEMMA HostInvImplies == HostInv => HostKeepsItsWord
<1> SUFFICES ASSUME HostInv PROVE HostKeepsItsWord
  OBVIOUS
<1>1. HostTypeOK
  <2>1. ASSUME NEW i \in DOMAIN results PROVE results[i].status \in Statuses
    <3>1. results[i] \in Outcomes
      BY DEF HostInv, HostTyped
    <3> QED
      BY <3>1 DEF Outcomes
  <2>2. env.facts \in BOOLEAN /\ env.decided \in BOOLEAN /\ env.match \in {FALSE, env.facts}
    BY DEF HostInv, HostTyped, Envs
  <2>3. ((pc = "reading") = (cur.at # "idle")) /\ ((code # Running) = (pc \in {"returned", "exited"}))
    BY DEF HostInv, Onward, Over
  <2>4. pipe.writer # None => cur.at = "writing"
    BY DEF HostInv, Onward, Piped
  <2>5. SigTypeOK /\ code \in {0, 2, Running}
        /\ pc \in {"check", "connect", "facts", "machine", "steps", "create", "loop", "reading",
                   "manifest", "close", "verdict", "abort", "returned", "exited"}
    BY DEF HostInv, HostTyped, Before_, Over
  <2> QED
    BY <2>1, <2>2, <2>3, <2>4, <2>5 DEF HostTypeOK
<1>2. ExitZeroIsWhole /\ AbandonedLeavesNothing
  BY DEF HostInv, Concluded, ExitZeroIsWhole
<1> QED
  BY <1>1, <1>2 DEF HostKeepsItsWord

\* Run of the host command leaves a whole archive, none, or one it says it could not
\* remove, and an exit code of zero means all of it was read; for every list of
\* sources, machine, disk and bound.
THEOREM HostKeeps == HostSpec => []HostKeepsItsWord
<1>1. HostInit => HostInv
  BY HostInitInv
<1>2. HostInv /\ [HostNext]_allVars => HostInv'
  BY HostInductive
<1>3. HostInv => HostKeepsItsWord
  BY HostInvImplies
<1> QED
  BY <1>1, <1>2, <1>3, PTL DEF HostSpec

-----------------------------------------------------------------------------
(* What a query tells *)

\* The two ways of naming the records a query matches.
LEMMA SameRecords ==
    ASSUME NEW c, NEW q
    PROVE  /\ Met(log, c, q) = Matching(c, q, Len(log[c]))
           /\ Read_(log, c, q) = Parsed(c, q, Len(log[c]))
BY DEF Met, Read_, Matching, Parsed

\* A query that is not past its cap keeps all it parses.
LEMMA KeepsAll ==
    ASSUME NEW c, NEW q, NEW n \in Nat, q # "2c", ~Past(c, q, n)
    PROVE  Kept(c, q, n) = Parsed(c, q, n)
<1> DEFINE P == Parsed(c, q, n)
<1>1. IsFiniteSet(P) /\ Cardinality(P) \in Nat /\ Cap \in Nat
  <2>1. Cap \in Nat
    BY HostAssumption
  <2> QED
    BY <2>1, Indexed
<1>2. Cardinality(P) <= Cap
  BY <1>1 DEF Past
<1>3. ASSUME NEW i \in P PROVE Cardinality({j \in P : j <= i}) <= Cap
  <2> DEFINE T == {j \in P : j <= i}
  <2>1. T \subseteq P
    OBVIOUS
  <2> HIDE DEF T, P
  <2>2. IsFiniteSet(T) /\ Cardinality(T) <= Cardinality(P)
    BY <1>1, <2>1, FS_Subset
  <2>3. Cardinality(T) \in Nat
    BY <2>2, FS_CardinalityType
  <2>4. Cardinality(T) <= Cap
    BY <1>1, <1>2, <2>2, <2>3
  <2> QED
    BY <2>4 DEF T
<1> QED
  BY <1>3 DEF Kept

\* What is newer than an event kept is kept.
LEMMA KeepsNewer ==
    ASSUME NEW c, NEW q, NEW n \in Nat, NEW i \in Kept(c, q, n), NEW k \in Parsed(c, q, n), k < i
    PROVE  k \in Kept(c, q, n)
<1> DEFINE P == Parsed(c, q, n)
           T == {j \in P : j <= i}
           U == {j \in P : j <= k}
<1>1. IsFiniteSet(P) /\ P \subseteq 1..n /\ Cap \in Nat
  <2>1. Cap \in Nat
    BY HostAssumption
  <2> QED
    BY <2>1, Indexed
<1>2. i \in P /\ Cardinality(T) <= Cap
  BY DEF Kept
<1>3. U \subseteq T /\ T \subseteq P
  BY <1>1, <1>2
<1> HIDE DEF T, U, P
<1>4. IsFiniteSet(T) /\ IsFiniteSet(U) /\ Cardinality(U) <= Cardinality(T)
  BY <1>1, <1>3, FS_Subset
<1>5. Cardinality(T) \in Nat /\ Cardinality(U) \in Nat
  BY <1>4, FS_CardinalityType
<1>6. Cardinality(U) <= Cap
  BY <1>1, <1>2, <1>4, <1>5
<1> QED
  BY <1>6 DEF Kept, U, P

\* A query that was not stopped short tells all that it should: every event, or those
\* newer than the time it says its list stops at.
LEMMA QueryTells ==
    ASSUME log \in Logs, NEW c \in DOMAIN log, NEW q, NEW r, r.name = c,
           LET n == Reach(c, q) IN
           /\ q # "2c" => /\ \A i \in Kept(c, q, n) : <<q, log[c][i].id>> \in r.list
                          /\ Truncated(c, q, n) \subseteq r.cut
           /\ q = "2c" => r.counted = Cardinality(Parsed(c, q, n))
           /\ (\E i \in Matching(c, q, n) : log[c][i].bad) => r.bad
    PROVE  Tells(log, r, q)
<1> DEFINE n == Reach(c, q)
           N == Len(log[c])
           m == Max(Kept(c, q, n))
<1>1. /\ N \in Nat /\ n \in 0..N /\ n \in Nat
      /\ Past(c, q, N) => Past(c, q, n)
      /\ ~Past(c, q, N) => n = N
  <2>1. N \in Nat
    BY Logged
  <2>2. /\ n \in 0..N
        /\ Past(c, q, N) => Past(c, q, n)
        /\ ~Past(c, q, N) => n = N
    BY <2>1, Reaching
  <2> QED
    BY <2>1, <2>2
<1>2. /\ \A i \in 1..N : log[c][i].time \in Nat
      /\ \A i, j \in 1..N : i < j => log[c][i].time >= log[c][j].time
  <2>1. /\ \A i \in 1..N : log[c][i] \in Records(c)
        /\ \A i, j \in 1..N : i < j => log[c][i].time >= log[c][j].time
    BY Logged
  <2> QED
    BY <2>1 DEF Records
<1>3. /\ q # "2c" => /\ \A i \in Kept(c, q, n) : <<q, log[c][i].id>> \in r.list
                     /\ Truncated(c, q, n) \subseteq r.cut
      /\ q = "2c" => r.counted = Cardinality(Parsed(c, q, n))
      /\ (\E i \in Matching(c, q, n) : log[c][i].bad) => r.bad
  OBVIOUS
<1>4. Met(log, c, q) = Matching(c, q, N) /\ Read_(log, c, q) = Parsed(c, q, N)
      /\ Matching(c, q, N) \subseteq 1..N /\ Parsed(c, q, N) \subseteq Matching(c, q, N)
  BY <1>1, SameRecords, Indexed
<1>5. CASE ~Past(c, q, N)
  <2>1. n = N
    BY <1>1, <1>5
  <2>2. q # "2c" => Kept(c, q, N) = Parsed(c, q, N)
    BY <1>1, <1>5, KeepsAll
  <2> HIDE DEF n, N
  <2> QED
    BY <1>3, <1>4, <2>1, <2>2 DEF Tells
<1>6. CASE Past(c, q, N)
  <2>1. Past(c, q, n) /\ q # "2c"
    BY <1>1, <1>6 DEF Past
  <2>2. m \in Kept(c, q, n) /\ m \in 1..n
    <3>1. m \in Kept(c, q, n)
      BY <1>1, <2>1, KeepsSome
    <3>2. Kept(c, q, n) \subseteq 1..n
      BY <1>1, Indexed
    <3> QED
      BY <3>1, <3>2
  <2>3. <<q, log[c][m].time>> \in r.cut
    BY <1>3, <2>1 DEF Truncated
  <2> HIDE DEF n, N, m
  <2>4. ASSUME NEW i \in 1..N, NewerThanCut(log, r, q, i) PROVE i < m
    <3>1. log[c][i].time > log[c][m].time
      <4> DEFINE x == <<q, log[c][m].time>>
      <4>1. x \in r.cut /\ x[1] = q /\ x[2] = log[c][m].time
        BY <2>3
      <4> HIDE DEF x
      <4> QED
        BY <2>4, <4>1 DEF NewerThanCut
    <3>2. m \in 1..N
      BY <1>1, <2>2
    <3> QED
      BY <1>1, <1>2, <3>1, <3>2
  <2>5. ASSUME NEW i \in Parsed(c, q, N), NewerThanCut(log, r, q, i)
        PROVE  <<q, log[c][i].id>> \in r.list
    <3>1. i \in 1..N /\ i < m
      BY <1>4, <2>4, <2>5
    <3>2. i \in Parsed(c, q, n)
      BY <1>1, <2>2, <3>1 DEF Parsed, Matching
    <3>3. i \in Kept(c, q, n)
      BY <1>1, <2>2, <3>1, <3>2, KeepsNewer
    <3> QED
      BY <1>3, <2>1, <3>3
  <2>6. ASSUME NEW i \in Matching(c, q, N), log[c][i].bad, NewerThanCut(log, r, q, i)
        PROVE  r.bad
    <3>1. i \in 1..N /\ i < m
      BY <1>4, <2>4, <2>6
    <3>2. i \in Matching(c, q, n)
      BY <1>1, <2>2, <3>1 DEF Matching
    <3> QED
      BY <1>3, <2>6, <3>2
  <2> QED
    BY <1>4, <2>1, <2>5, <2>6 DEF Tells
<1> QED
  BY <1>5, <1>6

\* What was told stays told.
LEMMA TellsMore ==
    ASSUME NEW l, NEW r, NEW s, NEW q, Tells(l, r, q), s.name = r.name, r.list \subseteq s.list,
           r.cut \subseteq s.cut, r.bad => s.bad, q = "2c" => s.counted = r.counted
    PROVE  Tells(l, s, q)
<1>1. \A i : NewerThanCut(l, s, q, i) => NewerThanCut(l, r, q, i)
  BY DEF NewerThanCut
<1> QED
  BY <1>1 DEF Tells

\* The query that is asked is the first of those that are left.
LEMMA Asks ==
    ASSUME NEW qs \in Seq(Asked), qs # <<>>
    PROVE  /\ Head(qs) \in Asked /\ Tail(qs) \in Seq(Asked)
           /\ \A q \in Yet(qs) : q = Head(qs) \/ q \in Yet(Tail(qs))
<1>1. Head(qs) \in Asked /\ Tail(qs) \in Seq(Asked)
  OBVIOUS
<1>2. ASSUME NEW i \in DOMAIN qs PROVE qs[i] = Head(qs) \/ qs[i] \in Yet(Tail(qs))
  <2>1. CASE i = 1
    BY <2>1
  <2>2. CASE i # 1
    <3>1. i - 1 \in DOMAIN Tail(qs) /\ Tail(qs)[i - 1] = qs[i]
      BY <2>2
    <3> QED
      BY <3>1 DEF Yet
  <2> QED
    BY <2>1, <2>2
<1> QED
  BY <1>1, <1>2 DEF Yet

\* A channel's queries are those that match, but for the instance's own when its
\* event source is undecided.
LEMMA AsksAll ==
    ASSUME NEW c, NEW decided \in BOOLEAN
    PROVE  \A q \in Matched(c) :
              \/ q \in Yet(BuildEventQueries(c, decided))
              \/ c = "Application" /\ ~decided /\ q \in OwnQueries
<1>1. CASE decided \/ c # "Application"
  <2>1. BuildEventQueries(c, decided) = BuildEventQueries(c, TRUE)
    BY <1>1 DEF BuildEventQueries
  <2> QED
    BY <2>1 DEF Matched, Yet
<1>2. CASE ~decided /\ c = "Application"
  <2>1. BuildEventQueries(c, decided) = <<"1">> /\ BuildEventQueries(c, TRUE) = <<"1", "2", "2c", "3b">>
    BY <1>2 DEF BuildEventQueries
  <2>2. \A q \in Matched(c) : q \in {"1", "2", "2c", "3b"}
    <3> DEFINE s == <<"1", "2", "2c", "3b">>
    <3>1. \A i \in DOMAIN s : s[i] \in {"1", "2", "2c", "3b"}
      OBVIOUS
    <3> HIDE DEF s
    <3>2. Matched(c) = {s[i] : i \in DOMAIN s}
      BY <2>1, Zenon DEF Matched, s
    <3> QED
      BY <3>1, <3>2
  <2>3. "1" \in Yet(<<"1">>)
    BY DEF Yet
  <2> QED
    BY <1>2, <2>1, <2>2, <2>3 DEF OwnQueries
<1> QED
  BY <1>1, <1>2

-----------------------------------------------------------------------------
(* What the steps of the run leave told *)

\* The invariant gives the property the run checks.
LEMMA TellInvImplies == TellInv => WhatIsReadIsTold
<1> SUFFICES ASSUME TellInv PROVE WhatIsReadIsTold
  OBVIOUS
<1>1. EventsAreTold
  <2>1. ASSUME Kept_, NEW i \in DOMAIN results, results[i].name \in DOMAIN log,
               results[i].status = "read", NEW q \in Matched(results[i].name) \ results[i].notRun
        PROVE  Tells(log, results[i], q)
    BY <2>1 DEF TellInv, SaysAll, Complete, TellsAll
  <2>2. ASSUME NEW r, NEW q, Tells(log, r, q)
        PROVE  /\ q # "2c" => \A n \in Parsed(r.name, q, Len(log[r.name])) :
                     (\A x \in r.cut : x[1] = q => log[r.name][n].time > x[2])
                         => <<q, log[r.name][n].id>> \in r.list
               /\ q = "2c" => r.counted = Cardinality(Parsed(r.name, q, Len(log[r.name])))
               /\ \A n \in Matching(r.name, q, Len(log[r.name])) :
                     log[r.name][n].bad /\ (\A x \in r.cut : x[1] = q => log[r.name][n].time > x[2])
                         => r.bad
    <3>1. /\ Met(log, r.name, q) = Matching(r.name, q, Len(log[r.name]))
          /\ Read_(log, r.name, q) = Parsed(r.name, q, Len(log[r.name]))
      BY SameRecords
    <3> QED
      BY <2>2, <3>1 DEF Tells, NewerThanCut
  <2> QED
    BY <2>1, <2>2, Zenon DEF EventsAreTold
<1>2. BudgetIsAPrefix
  BY DEF TellInv, InOrder, ComesAfter, BudgetIsAPrefix
<1> QED
  BY <1>1, <1>2 DEF WhatIsReadIsTold

\* A step that reads nothing.
LEMMA TellStays ==
    ASSUME TellInv, UNCHANGED <<log, results, cur>>, cancelled => cancelled',
           pc' \in {"loop", "reading"} => cancelled' \/ Complete(log, results),
           pc' \in {"manifest", "close", "verdict"} \/ (arch'.there /\ arch'.closed) =>
               Complete(log, results)
    PROVE  TellInv'
<1>1. SaysAll'
  BY DEF TellInv, SaysAll, Kept_
<1> QED
  BY <1>1 DEF TellInv

\* A step of a source that goes on.
LEMMA TellReading ==
    ASSUME HostInv', TellInv, pc = "reading", pc' = "reading", UNCHANGED <<log, results, cancelled>>,
           Charged(cur'), cur'.at \in {"queries", "writing"} => cancelled \/ TellsSoFar(log, cur'),
           cur'.at = "writing" => cur'.queries = <<>>
    PROVE  TellInv'
<1>1. ~Kept_'
  BY DEF HostInv, Onward, Kept_
<1>2. SaysAll'
  BY <1>1 DEF TellInv, SaysAll
<1> QED
  BY <1>2 DEF TellInv

\* No source is read.
LEMMA TellIdle == Charged(Idle) /\ Idle.at = "idle"
<1> DEFINE n == None
           s == [name |-> n, kind |-> n]
<1>1. n \in Titles /\ "read" \in Statuses
  BY DEF Titles, Statuses
<1>2. Idle = [Opened(s) EXCEPT !.at = "idle"]
  BY Zenon DEF Idle
<1> HIDE DEF n
<1>3. Result("read", n).files = {}
  BY <1>1, Fresh, Zenon
<1>4. Idle.res = Result("read", n) /\ Idle.todo = {}
  <2> HIDE DEF s
  <2>1. Idle.todo = {}
    BY <1>2 DEF Opened
  <2>2. Idle.res = Result("read", s.name)
    BY <1>2 DEF Opened
  <2> QED
    BY <2>1, <2>2 DEF s
<1>5. Idle.res.files = {} /\ Idle.todo = {}
  BY <1>3, <1>4
<1> QED
  BY <1>5, Idling DEF Charged, InOrder

\* A source that is done with: it lists no file it had not noted.
LEMMA TellDone ==
    ASSUME HostInv, HostInv', TellInv, pc = "reading", NEW res, NEW a, Done(res, a), UNCHANGED sigVars,
           res.name = cur.src.name, res.files \subseteq cur.res.files,
           cancelled \/ TellsAll(log, res)
    PROVE  TellInv'
<1>1. /\ results' = Append(results, res) /\ cur' = Idle /\ arch' = a /\ pipe' = NoPipe
      /\ pc' \in {"abort", "loop"} /\ UNCHANGED <<env, plan, log, code>> /\ cancelled' = cancelled
  BY DEF Done, sigVars
<1> DEFINE n == Len(results)
<1>2. /\ n \in Nat /\ DOMAIN results = 1..n /\ DOMAIN results' = 1..(n + 1)
      /\ results'[n + 1] = res /\ \A i \in 1..n : results'[i] = results[i]
  <2>1. results \in Seq(Outcomes) /\ results' \in Seq(Outcomes)
    BY DEF HostInv, HostTyped
  <2> QED
    BY <1>1, <2>1
<1> HIDE DEF n
<1>3. \A i \in DOMAIN results' : i \in DOMAIN results \/ i = n + 1
  BY <1>2
<1>4. SaysAll'
  <2>1. ASSUME ~cancelled PROVE Complete(log, results')
    <3>1. Complete(log, results)
      BY <2>1 DEF TellInv, SaysAll
    <3>2. TellsAll(log, res)
      BY <2>1
    <3> QED
      BY <1>2, <1>3, <3>1, <3>2 DEF Complete
  <2>2. ~Kept_'
    BY <1>1 DEF HostInv, Onward, Kept_
  <2> QED
    BY <1>1, <2>1, <2>2, TellIdle DEF SaysAll
<1>5. InOrder(res.name, res.files)
  BY DEF TellInv, Charged, InOrder
<1>6. \A i \in DOMAIN results' : InOrder(results'[i].name, results'[i].files)
  BY <1>2, <1>3, <1>5 DEF TellInv
<1>7. Charged(cur')
  BY <1>1, TellIdle
<1> QED
  BY <1>4, <1>6, <1>7 DEF TellInv

\* In particular when it is no channel, or was not read.
LEMMA TellOther ==
    ASSUME HostInv, HostInv', TellInv, pc = "reading", NEW res, NEW a, Done(res, a), UNCHANGED sigVars,
           res.name = cur.src.name, res.files \subseteq cur.res.files,
           cur.src.kind # "events" \/ res.status # "read"
    PROVE  TellInv'
<1>1. TellsAll(log, res)
  <2>1. CASE res.status # "read"
    BY <2>1 DEF TellsAll
  <2>2. CASE cur.src.kind # "events"
    <3>1. cur.src.name \notin Channels
      BY <2>2, Reads_ DEF Sources
    <3>2. log \in Logs
      BY Reads_
    <3>3. DOMAIN log \subseteq Channels
      BY <3>2, HostAssumption, Zenon
    <3> QED
      BY <3>1, <3>3 DEF TellsAll
  <2> QED
    BY <2>1, <2>2
<1> QED
  BY <1>1, TellDone

\* A source that failed, or has nothing to list.
LEMMA TellNothing ==
    ASSUME HostInv, HostInv', TellInv, pc = "reading", NEW status \in Statuses \ {"read"}, NEW a,
           Done(Result(status, cur.src.name), a), UNCHANGED sigVars
    PROVE  TellInv'
<1> DEFINE r == Result(status, cur.src.name)
<1>1. r.status = status /\ r.name = cur.src.name /\ r.files = {}
  BY Reads_, Fresh
<1>2. Done(r, a) /\ status # "read"
  OBVIOUS
<1> HIDE DEF r
<1> QED
  BY <1>1, <1>2, TellOther

\* A source that is no channel is written.
LEMMA TellWritten ==
    ASSUME HostInv, HostInv', TellInv, pc = "reading", NEW res \in Outcomes, Written(res),
           UNCHANGED sigVars, res.name = cur.src.name, res.files \subseteq cur.res.files,
           cur.src.kind # "events"
    PROVE  TellInv'
<1>1. PICK p \in Put(arch, <<cur.src.name, "json">>, FALSE) :
          Done(IF p.ok THEN res ELSE Status(res, "failed"), p.arch)
  BY Zenon DEF Written, Status
<1>2. CASE Done(res, p.arch)
  BY <1>2, TellOther
<1>3. CASE Done(Status(res, "failed"), p.arch)
  <2> DEFINE r == Status(res, "failed")
  <2>1. "failed" \in Statuses
    BY DEF Statuses
  <2>2. r.name = res.name /\ r.files = res.files
    BY <2>1, Stating
  <2>3. Done(r, p.arch)
    BY <1>3, SMTT(30)
  <2> HIDE DEF r
  <2> QED
    BY <2>2, <2>3, TellOther
<1> QED
  BY <1>1, <1>2, <1>3

\* Run's own steps: it goes on to the manifest only when it was not stopped.
LEMMA TellRun ==
    ASSUME HostInv, HostInv', TellInv, RunStep, ~NextSource, UNCHANGED sigVars
    PROVE  TellInv'
<1>1. UNCHANGED <<log, results, cur>> /\ cancelled' = cancelled
  BY DEF RunStep, Check, Connect, Facts, Machine, AsksSteps, Creates, NextSource, EndLoop, PutManifest,
         Closes, Verdict, Aborts, Learns, Concludes, Goes, sigVars
<1>2. CASE pc \in Before_
  <2>1. results = <<>> /\ Complete(log, results)
    BY <1>2 DEF HostInv, Onward, Complete
  <2> QED
    BY <1>1, <2>1, TellStays
<1>3. CASE pc \in {"manifest", "close", "verdict"}
  <2>1. Complete(log, results)
    BY <1>3 DEF TellInv, SaysAll
  <2> QED
    BY <1>1, <2>1, TellStays
<1>4. CASE EndLoop
  <2>1. /\ pc = "loop" /\ arch' = arch
        /\ (cancelled /\ pc' = "abort") \/ (~cancelled /\ pc' = "manifest")
    BY <1>4 DEF EndLoop, Goes
  <2>2. ~cancelled => Complete(log, results)
    BY <2>1 DEF TellInv, SaysAll
  <2>3. ~(arch'.there /\ arch'.closed)
    BY <2>1 DEF HostInv, Onward
  <2> QED
    BY <1>1, <2>1, <2>2, <2>3, TellStays
<1>5. CASE Aborts
  <2>1. /\ pc = "abort" /\ pc' = "returned"
        /\ arch' \in {[arch EXCEPT !.there = FALSE], [arch EXCEPT !.stray = TRUE]}
    BY <1>5 DEF Aborts, Concludes
  <2>2. arch \in Zips /\ ~arch.closed
    BY <2>1 DEF HostInv, HostTyped, Onward
  <2>3. ~arch'.closed
    <3>1. LET b == [arch EXCEPT !.there = FALSE] IN b.closed = arch.closed
      BY <2>2 DEF Zips
    <3>2. LET b == [arch EXCEPT !.stray = TRUE] IN b.closed = arch.closed
      BY <2>2 DEF Zips
    <3> QED
      BY <2>1, <2>2, <3>1, <3>2
  <2> QED
    BY <1>1, <2>1, <2>3, TellStays
<1> QED
  BY <1>2, <1>3, <1>4, <1>5, ZenonT(60)
     DEF RunStep, Check, Connect, Facts, Machine, AsksSteps, Creates, PutManifest, Closes, Verdict, Before_

\* A source that has just been opened has noted nothing.
LEMMA TellOpens ==
    ASSUME HostInv, HostInv', TellInv, NextSource, UNCHANGED sigVars
    PROVE  TellInv'
<1>1. /\ pc = "loop" /\ pc' = "reading" /\ cur' = Opened(Head(plan)) /\ cancelled' = cancelled
      /\ UNCHANGED <<log, arch, results>>
  BY DEF NextSource, sigVars
<1>2. /\ cur' \in Reading /\ cur'.src \in Sources /\ cur'.at # "idle"
      /\ Placed_(cur)'
  BY <1>1 DEF HostInv, HostTyped, Onward, Placed_
<1>3. cur'.at = "open" /\ cur'.todo = {} /\ cur'.res = Result("read", Head(plan).name)
  BY <1>1 DEF Opened
<1>4. cur'.res.files = {}
  BY <1>3 DEF Result
<1>5. Charged(cur')
  BY <1>3, <1>4 DEF Charged, InOrder
<1>6. ~Kept_'
  BY <1>1 DEF HostInv, Onward, Kept_
<1>7. SaysAll'
  BY <1>1, <1>3, <1>6 DEF TellInv, SaysAll
<1> QED
  BY <1>1, <1>5, <1>7 DEF TellInv

\* The panic, and the single reads.
LEMMA TellSingle ==
    ASSUME HostInv, HostInv', TellInv, Panics \/ ReadVSS \/ ReadMachine \/ ReadCluster, UNCHANGED sigVars
    PROVE  TellInv'
<1>1. "failed" \in Statuses \ {"read"} /\ "absent" \in Statuses \ {"read"}
  BY DEF Statuses
<1>2. CASE pc = "reading" /\ Done(Failed, arch)
  BY <1>1, <1>2, TellNothing DEF Failed
<1>3. CASE pc = "reading" /\ Done(Result("absent", cur.src.name), arch)
  BY <1>1, <1>3, TellNothing
<1>4. CASE pc = "reading" /\ cur.src.kind # "events" /\ Written(cur.res)
  <2>1. cur.res \in Outcomes /\ cur.res.name = cur.src.name
    BY <1>4, Reads_
  <2> QED
    BY <1>4, <2>1, TellWritten
<1> QED
  BY <1>2, <1>3, <1>4 DEF Panics, ReadVSS, ReadMachine, ReadCluster, Probes, At, Reads

\* A channel is opened: each of its queries is to be asked, or is said not to be.
LEMMA TellChannel ==
    ASSUME HostInv, HostInv', TellInv, OpenChannel, UNCHANGED sigVars
    PROVE  TellInv'
<1>1. pc = "reading" /\ cur.at = "open" /\ cur.src.kind = "events"
  BY DEF OpenChannel, At, Reads
<1>2. CASE Done(Result("absent", cur.src.name), arch)
  <2>1. "absent" \in Statuses \ {"read"}
    BY DEF Statuses
  <2> QED
    BY <1>1, <1>2, <2>1, TellNothing
<1>3. CASE ~Done(Result("absent", cur.src.name), arch)
  <2> DEFINE nr == IF cur.src.name = "Application" /\ ~env.decided THEN OwnQueries ELSE {}
             at == "queries"
             q == BuildEventQueries(cur.src.name, env.decided)
             res == Without(cur.res, nr)
  <2>1. Continues([cur EXCEPT !.at = at, !.queries = q, !.res.notRun = nr])
    BY <1>3, Zenon DEF OpenChannel
  <2>2. cur \in Reading /\ cur.res \in Outcomes /\ cur.res.name = cur.src.name
        /\ cur.todo = {} /\ cur.res = Result("read", cur.src.name)
    BY <1>1, Reads_, Opened_
  <2>3. env.decided \in BOOLEAN
    BY DEF HostInv, HostTyped, Envs
  <2>4. \A p \in Matched(cur.src.name) : p \in Yet(q) \/ p \in nr
    BY <2>3, AsksAll
  <2>5. nr \in SUBSET OwnQueries
    OBVIOUS
  <2> HIDE DEF nr, q
  <2>6. res.files = cur.res.files /\ res.notRun = nr
    BY <2>2 DEF Without, Outcomes
  <2>7. [cur EXCEPT !.at = at, !.queries = q, !.res.notRun = nr] =
        [cur EXCEPT !.at = at, !.queries = q, !.res = [cur.res EXCEPT !.notRun = nr]]
    OBVIOUS
  <2> HIDE DEF res, at
  <2>8. [cur EXCEPT !.at = at, !.queries = q, !.res = res] =
            Moved(cur, at, res, q, cur.todo, cur.left, cur.step, cur.err)
    <3>1. cur \in Reading
      BY <2>2
    <3> QED
      BY <3>1, SetAtQueriesRes, Zenon
  <2>9. cur' = Moved(cur, at, res, q, cur.todo, cur.left, cur.step, cur.err)
        /\ UNCHANGED <<pc, env, plan, log, arch, pipe, results, code>>
    BY <2>1, <2>7, <2>8, Zenon DEF Continues, Without, res
  <2>10. /\ cur'.src = cur.src /\ cur'.at = at /\ cur'.res = res /\ cur'.queries = q
         /\ cur'.todo = {}
    BY <2>2, <2>9 DEF Moved
  <2>11. cur.res.files = {}
    BY <2>2 DEF Result
  <2>12. Charged(cur')
    BY <2>6, <2>10, <2>11 DEF Charged, InOrder
  <2>13. TellsSoFar(log, cur')
    BY <2>4, <2>6, <2>10 DEF TellsSoFar
  <2>14. at # "writing" /\ pc' = "reading" /\ UNCHANGED <<log, results, cancelled>>
    BY <1>1, <2>9 DEF at, sigVars
  <2> QED
    BY <1>1, <2>10, <2>12, <2>13, <2>14, TellReading
<1> QED
  BY <1>2, <1>3

\* A query tells what it read, and those before it stay told.
LEMMA TellQuery ==
    ASSUME HostInv, HostInv', TellInv, Query, UNCHANGED sigVars
    PROVE  TellInv'
<1> DEFINE c == cur.src.name
           q == Head(cur.queries)
<1>1. pc = "reading" /\ cur.at = "queries" /\ cur.src.kind = "events" /\ cur.queries # <<>>
  BY DEF Query, At, Reads
<1>2. /\ cur \in Reading /\ cur.res \in Outcomes /\ cur.queries \in Seq(Asked)
      /\ c \in DOMAIN log /\ cur.res.files = {} /\ log \in Logs
      /\ cur.res.name = cur.src.name /\ cur.res.status = "read"
  BY <1>1, Reads_ DEF Reading, Placed_
<1>3. /\ q \in Asked /\ Tail(cur.queries) \in Seq(Asked)
      /\ \A p \in Yet(cur.queries) : p = q \/ p \in Yet(Tail(cur.queries))
  BY <1>1, <1>2, Asks
<1>4. CASE Done(Failed, arch) \/ Done(Result("absent", cur.src.name), arch)
  <2>1. "failed" \in Statuses \ {"read"} /\ "absent" \in Statuses \ {"read"}
    BY DEF Statuses
  <2> QED
    BY <1>1, <1>4, <2>1, TellNothing DEF Failed
<1>5. ASSUME NEW n \in IF cancelled THEN 0..Reach(c, q) ELSE {Reach(c, q)},
             Continues([cur EXCEPT !.queries = Tail(@), !.res = Recorded(c, q, n)])
      PROVE  TellInv'
  <2> DEFINE res == Recorded(c, q, n)
             t == Tail(cur.queries)
             badly == \E i \in Matching(c, q, n) : log[c][i].bad
             b == cur.res.bad
  <2>1. n \in 0..Len(log[c])
    <3>1. Len(log[c]) \in Nat
      BY <1>2, Logged
    <3>2. Reach(c, q) \in 0..Len(log[c])
      BY <3>1, Reaching
    <3> QED
      BY <3>1, <3>2
  <2>2. /\ res \in Outcomes /\ res.name = cur.res.name /\ res.status = cur.res.status
        /\ res.files = cur.res.files /\ res.notRun = cur.res.notRun
        /\ (res.bad <=> b \/ badly)
        /\ q = "2c" => /\ res.counted = Cardinality(Parsed(c, q, n)) /\ res.list = cur.res.list
                       /\ res.cut = cur.res.cut
        /\ q # "2c" => /\ res.counted = cur.res.counted
                       /\ res.list = cur.res.list \cup {<<q, log[c][i].id>> : i \in Kept(c, q, n)}
                       /\ res.cut = cur.res.cut \cup Truncated(c, q, n)
    <3>1. HostTyped
      BY DEF HostInv
    <3> HIDE DEF c, q
    <3>2. c \in DOMAIN log /\ q \in Asked
      BY <1>2, <1>3 DEF c, q
    <3> QED
      BY <2>1, <3>1, <3>2, Recording, ZenonT(60)
  <2>3. ~cancelled => n = Reach(c, q)
    BY <1>5
  <2> HIDE DEF res, t, badly, b
  <2>4. [cur EXCEPT !.queries = t, !.res = res] =
            Moved(cur, cur.at, res, t, cur.todo, cur.left, cur.step, cur.err)
    BY <1>2, SetQueriesRes, Zenon
  <2>5. /\ cur' = Moved(cur, cur.at, res, t, cur.todo, cur.left, cur.step, cur.err)
        /\ UNCHANGED <<pc, env, plan, log, arch, pipe, results, code>>
    BY <1>5, <2>4, Zenon DEF Continues, res, t
  <2>6. /\ cur'.src = cur.src /\ cur'.at = "queries" /\ cur'.res = res /\ cur'.queries = t
        /\ cur'.todo = cur.todo /\ cur'.left = cur.left
    BY <1>1, <2>5 DEF Moved
  <2>7. Charged(cur')
    BY <1>2, <2>2, <2>6 DEF TellInv, Charged, InOrder
  <2>8. ASSUME ~cancelled PROVE TellsSoFar(log, cur')
    <3>1. TellsSoFar(log, cur)
      BY <1>1, <2>8 DEF TellInv, SaysAll
    <3>2. Tells(log, res, q)
      <4>1. n = Reach(c, q) /\ res.name = c
        BY <1>2, <2>2, <2>3, <2>8
      <4>2. /\ q # "2c" => /\ \A i \in Kept(c, q, n) : <<q, log[c][i].id>> \in res.list
                           /\ Truncated(c, q, n) \subseteq res.cut
            /\ q = "2c" => res.counted = Cardinality(Parsed(c, q, n))
            /\ (\E i \in Matching(c, q, n) : log[c][i].bad) => res.bad
        BY <2>2 DEF badly
      <4> HIDE DEF c, q
      <4>3. c \in DOMAIN log /\ log \in Logs
        BY <1>2 DEF c
      <4> QED
        BY <4>1, <4>2, <4>3, QueryTells
    <3>3. ASSUME NEW p \in Matched(c) \ res.notRun, p \notin Yet(t), p # q PROVE Tells(log, res, p)
      <4>1. p \notin Yet(cur.queries)
        BY <1>3, <3>3 DEF t
      <4>2. Tells(log, cur.res, p)
        BY <2>2, <3>1, <3>3, <4>1 DEF TellsSoFar
      <4>3. /\ cur.res.list \subseteq res.list /\ cur.res.cut \subseteq res.cut
            /\ (cur.res.bad => res.bad) /\ (p = "2c" => res.counted = cur.res.counted)
        BY <2>2, <3>3 DEF b
      <4> QED
        BY <2>2, <4>2, <4>3, TellsMore
    <3> QED
      BY <2>6, <3>2, <3>3 DEF TellsSoFar
  <2>9. pc' = "reading" /\ UNCHANGED <<log, results, cancelled>>
    BY <1>1, <2>5 DEF sigVars
  <2> QED
    BY <1>1, <2>6, <2>7, <2>8, <2>9, TellReading
<1> QED
  BY <1>4, <1>5, Zenon DEF Query

\* The file is written from what the queries told.
LEMMA TellWriting ==
    ASSUME HostInv, HostInv', TellInv, WriteEvents, UNCHANGED sigVars
    PROVE  TellInv'
<1> DEFINE at == "writing"
<1>1. /\ pc = "reading" /\ pc' = "reading" /\ cur.at = "queries" /\ cur.queries = <<>>
      /\ cur' = [cur EXCEPT !.at = at] /\ UNCHANGED <<log, results, cancelled>>
  BY DEF WriteEvents, At, Reads, sigVars
<1>2. cur \in Reading
  BY <1>1, Reads_
<1>3. /\ cur'.src = cur.src /\ cur'.res = cur.res /\ cur'.queries = cur.queries
      /\ cur'.todo = cur.todo /\ cur'.left = cur.left /\ cur'.step = cur.step
  BY <1>1, <1>2 DEF Reading
<1>4. Charged(cur')
  BY <1>3 DEF TellInv, Charged
<1>5. cancelled \/ TellsSoFar(log, cur')
  BY <1>1, <1>3 DEF TellInv, SaysAll, TellsSoFar
<1> QED
  BY <1>1, <1>3, <1>4, <1>5, TellReading

\* The pipe changes nothing that is told.
LEMMA TellPipe ==
    ASSUME HostInv, HostInv', TellInv, PipeReader \/ PipeWriter, UNCHANGED sigVars
    PROVE  TellInv'
<1>1. /\ UNCHANGED <<pc, log, cur, results, cancelled>>
      /\ pipe.writer # None \/ pipe.sink # None
  BY DEF PipeReader, PipeWriter, Offers, OfferRefused, WriteEnds, SinkTakes, SinkBreaks, SinkEnds, Shuts,
         Pipes, Writing, sigVars, None
<1>2. cur.at = "writing" /\ pc = "reading"
  BY <1>1 DEF HostInv, Onward, Piped
<1> QED
  BY <1>1, <1>2, TellReading DEF TellInv, SaysAll

\* What the file lists is what was told, when it is written.
LEMMA TellJoins ==
    ASSUME HostInv, HostInv', TellInv, JoinsWriter, UNCHANGED sigVars
    PROVE  TellInv'
<1>1. /\ pc = "reading" /\ cur.at = "writing"
      /\ Done(IF pipe.sink = "eof" THEN cur.res ELSE Badly(Failed, cur.res.bad), arch)
  BY DEF JoinsWriter, At, Reads, Badly
<1>2. CASE pipe.sink = "eof"
  <2>1. Done(cur.res, arch)
    BY <1>1, <1>2
  <2>2. cur.res.name = cur.src.name /\ cur.queries = <<>>
    BY <1>1, Reads_ DEF TellInv, SaysAll
  <2>3. cancelled \/ TellsAll(log, cur.res)
    BY <1>1, <2>2 DEF TellInv, SaysAll, TellsSoFar, TellsAll, Yet
  <2> QED
    BY <1>1, <2>1, <2>2, <2>3, TellDone
<1>3. CASE pipe.sink # "eof"
  <2> DEFINE b == cur.res.bad
             r == Badly(Failed, b)
  <2>1. Done(r, arch)
    BY <1>1, <1>3
  <2>2. cur.src.name \in Titles /\ "failed" \in Statuses
    BY <1>1, Reads_ DEF Statuses
  <2>3. Failed \in Outcomes /\ Failed.status = "failed" /\ Failed.files = {} /\ Failed.name = cur.src.name
    BY <2>2, Fresh DEF Failed
  <2> HIDE DEF b
  <2>4. r.status = "failed" /\ r.files = {} /\ r.name = cur.src.name
    BY <2>3 DEF Outcomes, Badly
  <2> HIDE DEF r
  <2>5. r.status # "read" /\ r.files \subseteq cur.res.files
    BY <2>4
  <2> QED
    BY <1>1, <2>1, <2>4, <2>5, TellOther
<1> QED
  BY <1>2, <1>3

-----------------------------------------------------------------------------
(* The budget of a source *)

\* Fewer notes or fewer files to come, the same budget.
LEMMA FewerNotes ==
    ASSUME NEW c, NEW d, Charged(c), d.src = c.src, d.res.files \subseteq c.res.files,
           d.todo \subseteq c.todo, d.left = c.left, d.step = c.step
    PROVE  Charged(d)
BY DEF Charged, InOrder

\* The file whose turn it is comes before the others; and it is the active log of SQL
\* Writer when that is among them.
LEMMA InTurn ==
    ASSUME HostInv, pc = "reading", NEW f \in Due
    PROVE  /\ f \in cur.todo /\ f \in Disk /\ f.size \in Nat /\ f.active \in BOOLEAN
           /\ \A t \in cur.todo \ {f} : Before(cur.src.name, f, t)
           /\ cur.src.name = "sqlwriter" => \A t \in cur.todo \ {f} : ~t.active
<1>1. cur \in Reading /\ cur.src \in Sources
  BY Reads_
<1>2. f \in cur.todo /\ cur.todo \subseteq Disk
      /\ \A t \in cur.todo \ {f} : Before(cur.src.kind, f, t)
  BY <1>1 DEF Due, Reading
<1>3. (cur.src.kind = "sqlwriter") <=> (cur.src.name = "sqlwriter")
  BY <1>1 DEF Sources
<1>4. \A t \in cur.todo \ {f} : Before(cur.src.name, f, t)
  BY <1>2, <1>3 DEF Before
<1>5. Disk \subseteq [id : Nat, size : Nat, mod : Nat, active : BOOLEAN]
  BY HostAssumption
<1>6. \A g, h \in Disk : g.active /\ h.active => g = h
  BY HostAssumption
<1>7. \A t \in Disk : t.size \in Nat /\ t.active \in BOOLEAN
  BY <1>5
<1>8. ASSUME cur.src.name = "sqlwriter", NEW t \in cur.todo \ {f}, t.active PROVE FALSE
  <2>1. ~f.active
    BY <1>2, <1>6, <1>8
  <2>2. Before("sqlwriter", f, t)
    BY <1>4, <1>8
  <2>3. f.active # t.active
    BY <1>2, <1>7, <1>8, <2>1
  <2> QED
    BY <2>1, <2>2, <2>3 DEF Before
<1> QED
  BY <1>2, <1>4, <1>7, <1>8

\* What is charged for the active log.
LEMMA Charging ==
    ASSUME HostInv, pc = "reading", NEW f \in Due, cur.src.name = "sqlwriter", Charge(f) > Budget
    PROVE  f.size > Budget /\ TailBytes > Budget
<1>1. f.size \in Nat /\ cur.src \in Sources
  BY InTurn, Reads_
<1>2. cur.src.kind = "sqlwriter"
  BY <1>1 DEF Sources
<1>3. TailBytes \in Nat /\ Budget \in Nat
  BY HostAssumption
<1>4. Charge(f) = IF f.size < TailBytes THEN f.size ELSE TailBytes
  BY <1>2 DEF Charge
<1> QED
  BY <1>1, <1>3, <1>4

\* A note more.
LEMMA NoteCharged ==
    ASSUME HostInv, TellInv, pc = "reading", NEW f \in Due, NEW left \in Int, NEW d,
           NEW v \in {"copied", "budget", "refused", "window"},
           d.src = cur.src, d.todo = cur.todo \ {f}, d.step = cur.step, d.left = left,
           d.res.files = cur.res.files \cup {[entry |-> Entry(f), file |-> f, verdict |-> v]},
           v = "copied" => cur.left >= 0,
           v = "budget" => left < 0 /\ (cur.left < 0 \/ Charge(f) > cur.left),
           v \in {"refused", "window"} => left = cur.left
    PROVE  Charged(d)
<1> DEFINE z == [entry |-> Entry(f), file |-> f, verdict |-> v]
           F == cur.res.files
           name == cur.src.name
           s == cur.step
<1>1. z.file = f /\ z.verdict = v /\ z.entry[2] = s
  BY DEF Entry
<1>2. /\ InOrder(name, F)
      /\ \A y \in F : y.entry[2] <= s /\ (y.entry[2] = s => \A t \in cur.todo : Before(name, y.file, t))
      /\ \A y \in F : y.verdict = "budget" => cur.left < 0
      /\ \A t \in cur.todo : name = "sqlwriter" /\ t.active => cur.left = Budget
  BY DEF TellInv, Charged
<1>3. cur.left \in Int /\ s \in Nat /\ \A y \in F : y.entry[2] \in Nat
  <2>1. cur \in Reading /\ cur.res \in Outcomes
    BY Reads_
  <2>2. F \subseteq Notes
    BY <2>1 DEF Outcomes
  <2>3. \A y \in Notes : y.entry \in Titles \X Nat \X Nat
    BY DEF Notes
  <2>4. \A y \in F : y.entry[2] \in Nat
    BY <2>2, <2>3
  <2> QED
    BY <2>1, <2>4 DEF Reading
<1>4. /\ f \in cur.todo /\ \A t \in cur.todo \ {f} : Before(name, f, t)
      /\ name = "sqlwriter" => \A t \in cur.todo \ {f} : ~t.active
  BY InTurn
<1>5. d.res.files = F \cup {z} /\ d.src.name = name
  OBVIOUS
<1> HIDE DEF z, F, name, s
<1>6. ASSUME NEW y \in F, y.verdict = "copied", v = "budget" PROVE ComesAfter(name, y, z)
  <2>1. CASE y.entry[2] = s
    <3>1. Before(name, y.file, f)
      BY <1>2, <1>4, <2>1
    <3> QED
      BY <1>1, <2>1, <3>1 DEF ComesAfter
  <2>2. CASE y.entry[2] # s
    <3>1. y.entry[2] < s
      BY <1>2, <1>3, <2>2
    <3> QED
      BY <1>1, <3>1 DEF ComesAfter
  <2> QED
    BY <2>1, <2>2
<1>7. ASSUME v = "budget", name = "sqlwriter", f.active PROVE f.size > Budget /\ TailBytes > Budget
  <2>1. cur.left = Budget
    BY <1>2, <1>4, <1>7
  <2>2. Budget \in Nat
    BY HostAssumption
  <2>3. Charge(f) > Budget
    BY <1>7, <2>1, <2>2
  <2> QED
    BY <1>7, <2>3, Charging DEF name
<1>8. InOrder(name, F \cup {z})
  <2>1. ASSUME NEW x \in F \cup {z}, x.verdict = "budget", NEW y \in F \cup {z}, y.verdict = "copied"
        PROVE  ComesAfter(name, y, x)
    <3>1. CASE x \in F /\ y \in F
      BY <1>2, <2>1, <3>1 DEF InOrder
    <3>2. CASE x \in F /\ y = z
      <4>1. cur.left < 0 /\ cur.left >= 0
        BY <1>1, <1>2, <2>1, <3>2
      <4> QED
        BY <1>3, <4>1
    <3>3. CASE x = z /\ y \in F
      BY <1>1, <1>6, <2>1, <3>3
    <3>4. CASE x = z /\ y = z
      BY <2>1, <3>4
    <3> QED
      BY <2>1, <3>1, <3>2, <3>3, <3>4
  <2>2. ASSUME NEW x \in F \cup {z}, x.verdict = "budget", name = "sqlwriter", x.file.active
        PROVE  x.file.size > Budget /\ TailBytes > Budget
    <3>1. CASE x \in F
      BY <1>2, <2>2, <3>1 DEF InOrder
    <3>2. CASE x = z
      BY <1>1, <1>7, <2>2, <3>2
    <3> QED
      BY <2>2, <3>1, <3>2
  <2> QED
    BY <2>1, <2>2 DEF InOrder
<1>9. ASSUME NEW y \in F \cup {z}
      PROVE  y.entry[2] <= s /\ (y.entry[2] = s => \A t \in cur.todo \ {f} : Before(name, y.file, t))
  <2>1. CASE y \in F
    BY <1>2, <2>1
  <2>2. CASE y = z
    BY <1>1, <1>3, <1>4, <2>2
  <2> QED
    BY <1>9, <2>1, <2>2
<1>10. ASSUME NEW y \in F \cup {z}, y.verdict = "budget" PROVE left < 0
  <2>1. CASE y = z
    BY <1>1, <1>10, <2>1
  <2>2. CASE y \in F
    <3>1. cur.left < 0
      BY <1>2, <1>10, <2>2
    <3>2. v # "copied"
      BY <1>3, <3>1
    <3> QED
      BY <3>1, <3>2
  <2> QED
    BY <1>10, <2>1, <2>2
<1> QED
  BY <1>4, <1>5, <1>8, <1>9, <1>10 DEF Charged, s

\* A source that copies files goes on.
LEMMA TellFiles ==
    ASSUME HostInv, HostInv', TellInv, UNCHANGED sigVars, pc = "reading", cur.at \in {"files", "steps"},
           UNCHANGED <<pc, log, results>>, cur'.at = cur.at, Charged(cur')
    PROVE  TellInv'
<1>1. cancelled' = cancelled
  BY DEF sigVars
<1>2. cur'.at \notin {"queries", "writing"}
  OBVIOUS
<1> QED
  BY <1>1, <1>2, TellReading

\* A file is passed over.
LEMMA TellPasses ==
    ASSUME HostInv, HostInv', TellInv, UNCHANGED sigVars, pc = "reading", cur.at \in {"files", "steps"},
           NEW f \in Due, NEW v \in {"refused", "window"}, Passes(f, Noting(f, v))
    PROVE  TellInv'
<1> DEFINE res == Noting(f, v)
           t == cur.todo \ {f}
<1>1. cur \in Reading /\ f \in Disk /\ cur.left \in Int
  BY InTurn, Reads_ DEF Reading
<1>2. res.files = cur.res.files \cup {[entry |-> Entry(f), file |-> f, verdict |-> v]}
  BY <1>1, Noted
<1> HIDE DEF res, t
<1>3. [cur EXCEPT !.todo = t, !.res = res] =
          Moved(cur, cur.at, res, cur.queries, t, cur.left, cur.step, cur.err)
  BY <1>1, SetTodoRes, Zenon
<1>4. cur' = Moved(cur, cur.at, res, cur.queries, t, cur.left, cur.step, cur.err)
      /\ UNCHANGED <<pc, env, plan, log, arch, pipe, results, code>>
  BY <1>3, Zenon DEF Passes, Continues, res, t
<1>5. /\ cur'.src = cur.src /\ cur'.at = cur.at /\ cur'.res = res /\ cur'.todo = t
      /\ cur'.left = cur.left /\ cur'.step = cur.step
  BY <1>4 DEF Moved
<1>6. Charged(cur')
  BY <1>1, <1>2, <1>5, NoteCharged DEF t
<1> QED
  BY <1>4, <1>5, <1>6, TellFiles

\* A file does not fit, and none does after it.
LEMMA TellOver ==
    ASSUME HostInv, HostInv', TellInv, UNCHANGED sigVars, pc = "reading", cur.at \in {"files", "steps"},
           NEW f \in Due, OverBudget(f)
    PROVE  TellInv'
<1> DEFINE v == "budget"
           res == Noting(f, v)
           t == cur.todo \ {f}
           less == -1
<1>1. cur \in Reading /\ f \in Disk /\ cur.left \in Int /\ less \in Int /\ less < 0
  BY InTurn, Reads_ DEF Reading
<1>2. res.files = cur.res.files \cup {[entry |-> Entry(f), file |-> f, verdict |-> v]}
  BY <1>1, Noted
<1> HIDE DEF res, t, less
<1>3. [cur EXCEPT !.todo = t, !.left = less, !.res = res] =
          Moved(cur, cur.at, res, cur.queries, t, less, cur.step, cur.err)
  BY <1>1, SetTodoLeftRes, ZenonT(60)
<1>4. /\ cur' = Moved(cur, cur.at, res, cur.queries, t, less, cur.step, cur.err)
      /\ UNCHANGED <<pc, env, plan, log, arch, pipe, results, code>>
      /\ cur.left < 0 \/ Charge(f) > cur.left
  BY <1>3, Zenon DEF OverBudget, Continues, res, t, less
<1>5. /\ cur'.src = cur.src /\ cur'.at = cur.at /\ cur'.res = res /\ cur'.todo = t
      /\ cur'.left = less /\ cur'.step = cur.step
  BY <1>4 DEF Moved
<1>6. Charged(cur')
  BY <1>1, <1>2, <1>4, <1>5, NoteCharged DEF t
<1> QED
  BY <1>4, <1>5, <1>6, TellFiles

\* A file is copied: none was over the budget before it.
LEMMA TellCopies ==
    ASSUME HostInv, HostInv', TellInv, UNCHANGED sigVars, pc = "reading", cur.at \in {"files", "steps"},
           NEW f \in Due, Fits(f), Copies(f)
    PROVE  TellInv'
<1> DEFINE v == "copied"
           res == Noting(f, v)
           t == cur.todo \ {f}
           less == cur.left - Charge(f)
<1>1. cur \in Reading /\ f \in Disk /\ cur.left \in Int /\ cur.left >= 0
  BY InTurn, Reads_ DEF Reading, Fits
<1>2. less \in Int
  <2>1. f.size \in Nat /\ TailBytes \in Nat
    BY InTurn, HostAssumption
  <2> QED
    BY <1>1, <2>1 DEF Charge
<1>3. res.files = cur.res.files \cup {[entry |-> Entry(f), file |-> f, verdict |-> v]}
  BY <1>1, Noted
<1> HIDE DEF res, t, less
<1>4. [cur EXCEPT !.todo = t, !.left = less, !.res = res] =
          Moved(cur, cur.at, res, cur.queries, t, less, cur.step, cur.err)
  BY <1>1, SetTodoLeftRes, ZenonT(60)
<1>5. /\ cur' = [cur EXCEPT !.todo = t, !.left = less, !.res = res]
      /\ UNCHANGED <<pc, env, plan, log, pipe, results, code>>
  <2>1. /\ cur' = [cur EXCEPT !.todo = @ \ {f}, !.left = @ - Charge(f), !.res = Noting(f, "copied")]
        /\ UNCHANGED <<pc, env, plan, log, pipe, results, code>>
    BY Zenon DEF Copies
  <2> QED
    BY <2>1 DEF res, t, less
<1>6. /\ cur'.src = cur.src /\ cur'.at = cur.at /\ cur'.res = res /\ cur'.todo = t
      /\ cur'.left = less /\ cur'.step = cur.step
  BY <1>4, <1>5 DEF Moved
<1>7. Charged(cur')
  BY <1>1, <1>2, <1>3, <1>6, NoteCharged DEF t
<1> QED
  BY <1>5, <1>6, <1>7, TellFiles

\* A source that copies files ends.
LEMMA TellEnds ==
    ASSUME HostInv, HostInv', TellInv, UNCHANGED sigVars, pc = "reading", cur.src.kind # "events", NEW a,
           \/ Done(cur.res, a) \/ Done(Changed, a) \/ Done([cur.res EXCEPT !.status = "failed"], a)
           \/ Done([cur.res EXCEPT !.noted = {"refused"}], a)
    PROVE  TellInv'
<1>1. cur.res \in Outcomes /\ cur.res.name = cur.src.name
  BY Reads_
<1>2. Changed.name = cur.src.name /\ Changed.files \subseteq cur.res.files
  BY Changing
<1>3. /\ Status(cur.res, "failed").name = cur.src.name
      /\ Status(cur.res, "failed").files = cur.res.files
  <2>1. "failed" \in Statuses
    BY DEF Statuses
  <2> QED
    BY <1>1, <2>1, Stating
<1>4. /\ Marked(cur.res, {"refused"}).name = cur.src.name
      /\ Marked(cur.res, {"refused"}).files = cur.res.files
  BY <1>1 DEF Marked, Outcomes
<1>5. PICK r \in {cur.res, Changed, Status(cur.res, "failed"), Marked(cur.res, {"refused"})} : Done(r, a)
  BY Zenon DEF Status, Marked
<1>6. r.name = cur.src.name /\ r.files \subseteq cur.res.files
  BY <1>1, <1>2, <1>3, <1>4, <1>5
<1> QED
  BY <1>5, <1>6, TellOther

\* A directory is opened, with the whole budget.
LEMMA TellDirectory ==
    ASSUME HostInv, HostInv', TellInv, UNCHANGED sigVars, pc = "reading", cur.at = "open",
           NEW S \in SUBSET Disk, Continues([cur EXCEPT !.at = "files", !.todo = S])
    PROVE  TellInv'
<1> DEFINE at == "files"
<1>1. /\ cur \in Reading /\ cur.left = Budget /\ cur.res.files = {}
  <2>1. cur.res = Result("read", cur.src.name) /\ cur.left = Budget /\ cur \in Reading
    BY Opened_, Reads_
  <2> QED
    BY <2>1 DEF Result
<1>2. cur' = [cur EXCEPT !.at = at, !.todo = S]
      /\ UNCHANGED <<pc, env, plan, log, arch, pipe, results, code>>
  BY DEF Continues
<1>3. at \notin {"queries", "writing"}
  OBVIOUS
<1> HIDE DEF at
<1>4. [cur EXCEPT !.at = at, !.todo = S] =
          Moved(cur, at, cur.res, cur.queries, S, cur.left, cur.step, cur.err)
  <2>1. cur \in Reading
    BY <1>1
  <2> QED
    BY <2>1, SetAtTodo, Zenon
<1>5. /\ cur'.src = cur.src /\ cur'.at = at /\ cur'.res = cur.res /\ cur'.todo = S
      /\ cur'.left = cur.left
  BY <1>2, <1>4 DEF Moved
<1>6. Charged(cur')
  BY <1>1, <1>5 DEF Charged, InOrder
<1>7. UNCHANGED <<log, results, cancelled>> /\ pc' = "reading"
  BY <1>2 DEF sigVars
<1> QED
  BY <1>3, <1>5, <1>6, <1>7, TellReading

\* SQL Writer's logs.
LEMMA TellSQLWriter ==
    ASSUME HostInv, HostInv', TellInv, OpenSQLWriter \/ CopySQLWriter \/ EndSQLWriter, UNCHANGED sigVars
    PROVE  TellInv'
<1>1. "failed" \in Statuses \ {"read"} /\ "absent" \in Statuses \ {"read"}
  BY DEF Statuses
<1>2. pc = "reading" /\ cur.src.kind # "events"
  BY DEF OpenSQLWriter, CopySQLWriter, EndSQLWriter, At, Reads
<1>3. ASSUME NEW a, Done(Failed, a) \/ Done(Result("absent", cur.src.name), a) PROVE TellInv'
  BY <1>1, <1>2, <1>3, TellNothing DEF Failed
<1>4. CASE OpenSQLWriter
  <2>1. cur.at = "open"
    BY <1>4 DEF OpenSQLWriter, At
  <2>2. \/ Done(Failed, arch)
        \/ Done(Result("absent", cur.src.name), arch)
        \/ Done([cur.res EXCEPT !.noted = {"refused"}], arch)
        \/ \E S \in SUBSET Disk : Continues([cur EXCEPT !.at = "files", !.todo = S])
    BY <1>4, Zenon DEF OpenSQLWriter
  <2> QED
    BY <1>2, <1>3, <2>1, <2>2, TellEnds, TellDirectory
<1>5. CASE CopySQLWriter
  <2>1. cur.at = "files" /\ cur.at \in {"files", "steps"}
    BY <1>5 DEF CopySQLWriter, At
  <2>2. PICK f \in Due :
          \/ OverBudget(f)
          \/ Done(Changed, arch)
          \/ Passes(f, Noting(f, "refused"))
          \/ Fits(f) /\ Copies(f)
          \/ \E a \in CopyFails(f) : Done([cur.res EXCEPT !.status = "failed"], a)
    BY <1>5, Zenon DEF CopySQLWriter
  <2>3. CASE Passes(f, Noting(f, "refused"))
    <3> DEFINE v == "refused"
    <3>1. v \in {"refused", "window"} /\ Passes(f, Noting(f, v))
      BY <2>3
    <3> HIDE DEF v
    <3> QED
      BY <1>2, <2>1, <3>1, TellPasses
  <2> QED
    BY <1>2, <2>1, <2>2, <2>3, TellOver, TellCopies, TellEnds
<1>6. CASE EndSQLWriter
  BY <1>2, <1>3, <1>6, TellEnds DEF EndSQLWriter
<1> QED
  BY <1>4, <1>5, <1>6

\* The extensions' files.
LEMMA TellExtensions ==
    ASSUME HostInv, HostInv', TellInv, OpenExtensions \/ CopyExtensions \/ EndExtensions,
           UNCHANGED sigVars
    PROVE  TellInv'
<1>1. "failed" \in Statuses \ {"read"} /\ "absent" \in Statuses \ {"read"}
  BY DEF Statuses
<1>2. pc = "reading" /\ cur.src.kind # "events"
  BY DEF OpenExtensions, CopyExtensions, EndExtensions, At, Reads
<1>3. ASSUME NEW a, Done(Failed, a) \/ Done(Result("absent", cur.src.name), a) PROVE TellInv'
  BY <1>1, <1>2, <1>3, TellNothing DEF Failed
<1>4. cur.res \in Outcomes /\ cur.res.name = cur.src.name
  BY <1>2, Reads_
<1>5. CASE OpenExtensions
  <2>1. cur.at = "open"
    BY <1>5 DEF OpenExtensions, At
  <2>2. \/ Done(Failed, arch)
        \/ Done(Result("absent", cur.src.name), arch)
        \/ Written(Marked(cur.res, {"refused"}))
        \/ \E S \in SUBSET Disk : Continues([cur EXCEPT !.at = "files", !.todo = S])
    BY <1>5, Zenon DEF OpenExtensions, Walks, Marked
  <2>3. CASE Written(Marked(cur.res, {"refused"}))
    <3> DEFINE r == Marked(cur.res, {"refused"})
    <3>1. {"refused"} \in SUBSET {"refused", "changed", "nothing"} /\ {} \in SUBSET OwnQueries
      OBVIOUS
    <3>2. r \in Outcomes /\ r.name = cur.res.name /\ r.files = cur.res.files
      BY <1>4, <3>1, Marking
    <3>3. Written(r)
      BY <2>3
    <3> HIDE DEF r
    <3> QED
      BY <1>2, <1>4, <3>2, <3>3, TellWritten
  <2> QED
    BY <1>2, <1>3, <2>1, <2>2, <2>3, TellDirectory
<1>6. CASE CopyExtensions
  <2>1. cur.at = "files" /\ cur.at \in {"files", "steps"}
    BY <1>6 DEF CopyExtensions, At
  <2>2. PICK f \in Due :
          \/ Passes(f, Noting(f, "window")) \/ Passes(f, Noting(f, "refused"))
          \/ OverBudget(f)
          \/ Written(Changed)
          \/ Fits(f) /\ Copies(f)
          \/ \E a \in CopyFails(f) : Done(Failed, a)
    BY <1>6, Zenon DEF CopyExtensions
  <2>3. ASSUME NEW v \in {"refused", "window"}, Passes(f, Noting(f, v)) PROVE TellInv'
    BY <1>2, <2>1, <2>3, TellPasses
  <2>4. CASE Written(Changed)
    <3>1. Changed \in Outcomes /\ Changed.name = cur.src.name /\ Changed.files \subseteq cur.res.files
      BY <1>2, Changing
    <3> QED
      BY <1>2, <2>4, <3>1, TellWritten
  <2>5. "refused" \in {"refused", "window"} /\ "window" \in {"refused", "window"}
    OBVIOUS
  <2> QED
    BY <1>2, <1>3, <2>1, <2>2, <2>3, <2>4, <2>5, TellOver, TellCopies
<1>7. CASE EndExtensions
  BY <1>2, <1>4, <1>7, TellWritten DEF EndExtensions
<1> QED
  BY <1>5, <1>6, <1>7

\* The next step: its files follow all that was noted.
LEMMA NextStep ==
    ASSUME HostInv, TellInv, pc = "reading", cur.src.kind = "jobs", NEW d, d.src = cur.src,
           d.res.files = cur.res.files, d.left = cur.left, d.step = cur.step + 1
    PROVE  Charged(d)
<1>1. cur \in Reading /\ cur.res \in Outcomes /\ cur.src \in Sources
  BY Reads_
<1>2. cur.step \in Nat /\ cur.res.files \subseteq Notes
  BY <1>1 DEF Reading, Outcomes
<1>3. cur.src.name # "sqlwriter"
  BY <1>1 DEF Sources
<1>4. \A z \in cur.res.files : z.entry[2] <= cur.step /\ z.entry[2] \in Nat
  <2>1. \A z \in Notes : z.entry \in Titles \X Nat \X Nat
    BY DEF Notes
  <2>2. \A z \in cur.res.files : z.entry[2] <= cur.step
    BY DEF TellInv, Charged
  <2> QED
    BY <1>2, <2>1, <2>2
<1>5. \A z \in cur.res.files : z.entry[2] <= d.step /\ z.entry[2] # d.step
  BY <1>2, <1>4
<1> QED
  BY <1>3, <1>5 DEF TellInv, Charged

\* A step of the jobs begins.
LEMMA TellBegins ==
    ASSUME HostInv, HostInv', TellInv, BeginStep, UNCHANGED sigVars
    PROVE  TellInv'
<1> DEFINE c == [cur EXCEPT !.step = @ + 1]
<1>1. pc = "reading" /\ cur.at = "steps" /\ cur.at \in {"files", "steps"} /\ cur.src.kind = "jobs"
  BY DEF BeginStep, At, Reads
<1>2. cur \in Reading /\ cur.res \in Outcomes
  BY <1>1, Reads_
<1>3. c = Moved(cur, cur.at, cur.res, cur.queries, cur.todo, cur.left, cur.step + 1, cur.err)
  BY <1>2, SetStep, Zenon
<1> HIDE DEF c
<1>4. /\ c.src = cur.src /\ c.at = cur.at /\ c.res = cur.res /\ c.left = cur.left
      /\ c.step = cur.step + 1
  BY <1>3 DEF Moved
<1>5. \E N, T, e : cur' = [src |-> c.src, at |-> c.at, res |-> Marked(c.res, N), queries |-> c.queries,
                           todo |-> T, left |-> c.left, step |-> c.step, err |-> e]
                   \/ cur' = [c EXCEPT !.err = e]
  <2>1. CASE Continues([c EXCEPT !.res.noted = @ \cup {"refused"}])
    <3> DEFINE N == c.res.noted \cup {"refused"}
    <3>1. [c EXCEPT !.res.noted = @ \cup {"refused"}] =
              [src |-> c.src, at |-> c.at, res |-> Marked(c.res, N), queries |-> c.queries,
               todo |-> c.todo, left |-> c.left, step |-> c.step, err |-> c.err]
      BY <1>3 DEF Moved, Marked
    <3> QED
      BY <2>1, <3>1, Zenon DEF Continues
  <2>2. CASE Continues([c EXCEPT !.err = TRUE])
    BY <2>2, Zenon DEF Continues
  <2>3. ASSUME NEW S \in SUBSET {f \in Disk : f.mod >= Since},
               Continues([c EXCEPT
                   !.todo = {f \in S : Cardinality({g \in S : Newer(g, f)}) < StepFiles},
                   !.res.noted = IF S = {} THEN @ \cup {"nothing"} ELSE @])
        PROVE  \E N, T, e : cur' = [src |-> c.src, at |-> c.at, res |-> Marked(c.res, N),
                                    queries |-> c.queries, todo |-> T, left |-> c.left,
                                    step |-> c.step, err |-> e]
    <3> DEFINE N == IF S = {} THEN c.res.noted \cup {"nothing"} ELSE c.res.noted
               T == {f \in S : Cardinality({g \in S : Newer(g, f)}) < StepFiles}
               d == [src |-> c.src, at |-> c.at, res |-> c.res, queries |-> c.queries,
                     todo |-> T, left |-> c.left, step |-> c.step, err |-> c.err]
               e == [src |-> c.src, at |-> c.at, res |-> Marked(c.res, N), queries |-> c.queries,
                     todo |-> T, left |-> c.left, step |-> c.step, err |-> c.err]
    <3> HIDE DEF T
    <3>1. [c EXCEPT !.todo = T] = d
      BY <1>3 DEF Moved
    <3>2. [d EXCEPT !.res.noted = IF S = {} THEN @ \cup {"nothing"} ELSE @] = e
      BY DEF Marked
    <3>3. [c EXCEPT !.todo = T, !.res.noted = IF S = {} THEN @ \cup {"nothing"} ELSE @] =
          [d EXCEPT !.res.noted = IF S = {} THEN @ \cup {"nothing"} ELSE @]
      <4> HIDE DEF d
      <4> QED
        BY <3>1, Zenon
    <3>4. cur' = e
      <4> HIDE DEF d, e
      <4> QED
        BY <2>3, <3>2, <3>3, Zenon DEF Continues, T
    <3> QED
      BY <3>4, Zenon
  <2> QED
    BY <2>1, <2>2, <2>3, Zenon DEF BeginStep, c
<1>6. /\ cur'.src = cur.src /\ cur'.at = cur.at /\ cur'.res.files = cur.res.files
      /\ cur'.left = cur.left /\ cur'.step = cur.step + 1
  <2>1. ASSUME NEW N, NEW T, NEW e,
               cur' = [src |-> c.src, at |-> c.at, res |-> Marked(c.res, N), queries |-> c.queries,
                       todo |-> T, left |-> c.left, step |-> c.step, err |-> e]
        PROVE  /\ cur'.src = cur.src /\ cur'.at = cur.at /\ cur'.res.files = cur.res.files
               /\ cur'.left = cur.left /\ cur'.step = cur.step + 1
    <3>1. Marked(cur.res, N).files = cur.res.files
      BY <1>2 DEF Marked, Outcomes
    <3>2. /\ cur'.src = c.src /\ cur'.at = c.at /\ cur'.res = Marked(c.res, N)
          /\ cur'.left = c.left /\ cur'.step = c.step
      BY <2>1
    <3> QED
      BY <1>4, <3>1, <3>2
  <2>2. ASSUME NEW e, cur' = [c EXCEPT !.err = e]
        PROVE  /\ cur'.src = cur.src /\ cur'.at = cur.at /\ cur'.res.files = cur.res.files
               /\ cur'.left = cur.left /\ cur'.step = cur.step + 1
    <3>1. cur'.src = c.src /\ cur'.at = c.at /\ cur'.res = c.res /\ cur'.left = c.left
          /\ cur'.step = c.step
      BY <1>3, <2>2 DEF Moved
    <3> QED
      BY <1>4, <3>1
  <2> QED
    BY <1>5, <2>1, <2>2
<1>7. Charged(cur')
  BY <1>1, <1>6, NextStep
<1>8. UNCHANGED <<pc, log, results>>
  BY DEF BeginStep, Continues
<1> QED
  BY <1>1, <1>6, <1>7, <1>8, TellFiles

\* The steps of the jobs.
LEMMA TellJobs ==
    ASSUME HostInv, HostInv', TellInv, OpenJobs \/ CopyJobOutputs \/ EndJobs, UNCHANGED sigVars
    PROVE  TellInv'
<1>1. /\ "failed" \in Statuses \ {"read"} /\ "skipped" \in Statuses \ {"read"}
      /\ "refused" \in Statuses \ {"read"}
  BY DEF Statuses
<1>2. pc = "reading" /\ cur.src.kind = "jobs" /\ cur.src.kind # "events"
  BY DEF OpenJobs, CopyJobOutputs, EndJobs, At, Reads
<1>3. cur \in Reading /\ cur.res \in Outcomes /\ cur.res.name = cur.src.name
  BY <1>2, Reads_
<1>4. CASE OpenJobs
  <2>1. cur.at = "open"
    BY <1>4 DEF OpenJobs, At
  <2>2. CASE \/ Done(Failed, arch) \/ Done(Result("skipped", cur.src.name), arch)
             \/ Done(Result("refused", cur.src.name), arch)
    BY <1>1, <1>2, <2>2, TellNothing DEF Failed
  <2>3. CASE Continues([cur EXCEPT !.at = "steps"])
    <3> DEFINE at == "steps"
    <3>1. cur' = [cur EXCEPT !.at = at] /\ UNCHANGED <<pc, log, results>>
      BY <2>3 DEF Continues
    <3>2. at \notin {"queries", "writing"}
      OBVIOUS
    <3> HIDE DEF at
    <3>3. /\ cur'.src = cur.src /\ cur'.at = at /\ cur'.res = cur.res /\ cur'.todo = cur.todo
          /\ cur'.left = cur.left /\ cur'.step = cur.step
      BY <1>3, <3>1 DEF Reading
    <3>4. Charged(cur')
      BY <3>3 DEF TellInv, Charged
    <3>5. UNCHANGED <<log, results, cancelled>> /\ pc' = "reading"
      BY <1>2, <3>1 DEF sigVars
    <3> QED
      BY <1>2, <3>2, <3>3, <3>4, <3>5, TellReading
  <2> QED
    BY <1>4, <2>2, <2>3, Zenon DEF OpenJobs
<1>5. CASE CopyJobOutputs
  <2>1. cur.at \in {"files", "steps"}
    BY <1>5 DEF CopyJobOutputs, At
  <2>2. PICK f \in Due :
          \/ OverBudget(f)
          \/ Continues([cur EXCEPT !.todo = {}, !.res = Changed])
          \/ Passes(f, Noting(f, "refused"))
          \/ Fits(f) /\ Copies(f)
          \/ \E a \in CopyFails(f) : StepFails(a)
    BY <1>5, Zenon DEF CopyJobOutputs
  <2>3. ASSUME NEW r, r.files \subseteq cur.res.files, NEW e,
               cur' = Moved(cur, cur.at, r, cur.queries, {}, cur.left, cur.step, e),
               UNCHANGED <<pc, log, results>>
        PROVE  TellInv'
    <3>1. /\ cur'.src = cur.src /\ cur'.at = cur.at /\ cur'.res = r /\ cur'.todo = {}
          /\ cur'.left = cur.left /\ cur'.step = cur.step
      BY <2>3 DEF Moved
    <3>2. Charged(cur)
      BY DEF TellInv
    <3>3. Charged(cur')
      BY <2>3, <3>1, <3>2, FewerNotes
    <3> QED
      BY <1>2, <2>1, <2>3, <3>1, <3>3, TellFiles
  <2>4. CASE Continues([cur EXCEPT !.todo = {}, !.res = Changed])
    <3> DEFINE none == {}
    <3>1. [cur EXCEPT !.todo = none, !.res = Changed] =
             Moved(cur, cur.at, Changed, cur.queries, none, cur.left, cur.step, cur.err)
      BY <1>3, SetTodoRes, Zenon
    <3>2. cur' = Moved(cur, cur.at, Changed, cur.queries, {}, cur.left, cur.step, cur.err)
          /\ UNCHANGED <<pc, env, plan, log, arch, pipe, results, code>>
      BY <2>4, <3>1, Zenon DEF Continues
    <3>3. Changed.files \subseteq cur.res.files
      BY <1>2, Changing
    <3> QED
      BY <2>3, <3>2, <3>3
  <2>5. CASE Passes(f, Noting(f, "refused"))
    <3> DEFINE v == "refused"
    <3>1. v \in {"refused", "window"} /\ Passes(f, Noting(f, v))
      BY <2>5
    <3> HIDE DEF v
    <3> QED
      BY <1>2, <2>1, <3>1, TellPasses
  <2>6. ASSUME NEW a, StepFails(a) PROVE TellInv'
    <3> DEFINE none == {}
               yes == TRUE
    <3> HIDE DEF yes
    <3>1. [cur EXCEPT !.todo = none, !.err = yes] =
             Moved(cur, cur.at, cur.res, cur.queries, none, cur.left, cur.step, yes)
      BY <1>3, SetTodoErr, Zenon
    <3>2. cur' = Moved(cur, cur.at, cur.res, cur.queries, {}, cur.left, cur.step, yes)
          /\ UNCHANGED <<pc, env, plan, log, pipe, results, code>>
      BY <2>6, <3>1, Zenon DEF StepFails, yes
    <3>3. cur.res.files \subseteq cur.res.files
      OBVIOUS
    <3> QED
      BY <2>3, <3>2, <3>3
  <2> QED
    BY <1>2, <2>1, <2>2, <2>4, <2>5, <2>6, TellOver, TellCopies
<1>6. CASE EndJobs
  <2>1. Written(IF cur.err THEN Status(cur.res, "failed") ELSE cur.res)
    BY <1>6, Zenon DEF EndJobs, Status
  <2>2. CASE Written(cur.res)
    BY <1>2, <1>3, <2>2, TellWritten
  <2>3. CASE Written(Status(cur.res, "failed"))
    <3> DEFINE r == Status(cur.res, "failed")
    <3>1. "failed" \in Statuses
      BY DEF Statuses
    <3>2. r \in Outcomes /\ r.name = cur.res.name /\ r.files = cur.res.files
      BY <1>3, <3>1, Stating
    <3>3. Written(r)
      BY <2>3
    <3> HIDE DEF r
    <3> QED
      BY <1>2, <1>3, <3>2, <3>3, TellWritten
  <2> QED
    BY <2>1, <2>2, <2>3
<1> QED
  BY <1>4, <1>5, <1>6

\* The process ends, a signal comes: what is kept is what was.
LEMMA TellSignals ==
    ASSUME HostInv, HostInv', TellInv,
           \/ Exits
           \/ (Handles \/ Signal \/ UNCHANGED sigVars) /\ UNCHANGED hostVars
    PROVE  TellInv'
<1>1. CASE Exits
  <2>1. /\ pc = "returned" /\ pc' = "exited" /\ UNCHANGED <<log, results, cur, arch>>
        /\ cancelled => cancelled'
    BY <1>1 DEF Exits, StopSignals
  <2>2. arch'.there /\ arch'.closed => Complete(log, results)
    BY <2>1 DEF TellInv, SaysAll, Kept_
  <2> QED
    BY <2>1, <2>2, TellStays
<1>2. CASE (Handles \/ Signal \/ UNCHANGED sigVars) /\ UNCHANGED hostVars
  <2>1. /\ UNCHANGED <<pc, log, results, cur, arch>>
        /\ cancelled => cancelled'
    BY <1>2 DEF Handles, TakesSignal, HandsBack, Cancels, Signal, hostVars, sigVars
  <2>2. /\ pc \in {"loop", "reading"} => cancelled \/ Complete(log, results)
        /\ pc \in {"manifest", "close", "verdict"} \/ (arch'.there /\ arch'.closed) =>
              Complete(log, results)
    BY <2>1 DEF TellInv, SaysAll, Kept_
  <2> QED
    BY <2>1, <2>2, TellStays
<1> QED
  BY <1>1, <1>2

\* Before the first step nothing was read.
LEMMA TellInit == HostInit => TellInv
<1> SUFFICES ASSUME HostInit PROVE TellInv
  OBVIOUS
<1>1. pc = "check" /\ arch = NoArchive /\ cur = Idle /\ results = <<>>
  BY DEF HostInit
<1>2. ~Kept_
  BY <1>1 DEF Kept_, NoArchive
<1>3. SaysAll
  BY <1>1, <1>2, TellIdle DEF SaysAll
<1>4. \A i \in DOMAIN results : InOrder(results[i].name, results[i].files)
  BY <1>1
<1> QED
  BY <1>1, <1>3, <1>4, TellIdle DEF TellInv

\* Every step keeps it.
LEMMA TellInductive == ASSUME HostInv, TellInv, [HostNext]_allVars PROVE TellInv'
<1>0. HostInv'
  BY HostInductive
<1>1. CASE RunStep /\ UNCHANGED sigVars
  <2>1. CASE NextSource
    BY <1>0, <1>1, <2>1, TellOpens
  <2>2. CASE ~NextSource
    BY <1>0, <1>1, <2>2, TellRun
  <2> QED
    BY <2>1, <2>2
<1>2. CASE ReadStep /\ UNCHANGED sigVars
  BY <1>0, <1>2, TellSingle, TellChannel, TellQuery, TellWriting, TellJoins, TellSQLWriter,
     TellExtensions, TellBegins, TellJobs DEF ReadStep
<1>3. CASE (PipeReader \/ PipeWriter) /\ UNCHANGED sigVars
  BY <1>0, <1>3, TellPipe
<1>4. CASE Exits \/ HostHandler \/ HostOperator \/ UNCHANGED allVars
  BY <1>0, <1>4, TellSignals DEF HostHandler, HostOperator, allVars, hostVars, sigVars
<1> QED
  BY <1>1, <1>2, <1>3, <1>4 DEF HostNext, HostMain, Writer

\* In an archive that is kept no event and no file is missing without a word, whenever
\* a ctrl-c came; for every log, disk, cap and budget.
THEOREM HostTells == HostSpec => []WhatIsReadIsTold
<1>1. HostInit => HostInv /\ TellInv
  BY HostInitInv, TellInit
<1>2. HostInv /\ TellInv /\ [HostNext]_allVars => (HostInv /\ TellInv)'
  BY HostInductive, TellInductive
<1>3. HostInv /\ TellInv => WhatIsReadIsTold
  BY TellInvImplies
<1> QED
  BY <1>1, <1>2, <1>3, PTL DEF HostSpec

-----------------------------------------------------------------------------
(* The second ctrl-c *)

\* A step of the host read moves the handler, the operator, or neither.
LEMMA HostSignals ==
    ASSUME HostNext
    PROVE  UNCHANGED sigVars \/ (StopSignals /\ UNCHANGED sent) \/ Handles \/ Signal
<1>1. HostMain => UNCHANGED sigVars \/ (StopSignals /\ UNCHANGED sent)
  BY DEF HostMain, Exits, StopSignals
<1>2. Writer \/ HostHandler \/ HostOperator => UNCHANGED sigVars \/ Handles \/ Signal
  BY DEF Writer, HostHandler, HostOperator
<1> QED
  BY <1>1, <1>2 DEF HostNext

\* The handler has handed the signal back before it cancels, whatever the host read
\* is doing.
LEMMA HostHandsBack == ASSUME HandedBack, [HostNext]_allVars PROVE HandedBack'
<1>1. CASE UNCHANGED sigVars
  BY <1>1 DEF HandedBack, sigVars
<1>2. CASE StopSignals \/ Handles \/ Signal
  BY <1>2 DEF HandedBack, StopSignals, Handles, TakesSignal, HandsBack, Cancels, Signal
<1>3. CASE UNCHANGED allVars
  BY <1>1, <1>3 DEF allVars
<1> QED
  BY <1>1, <1>2, <1>3, HostSignals

\* A ctrl-c sent after the first one has cancelled the host read ends the process too:
\* interruptible hands the signal back before it cancels, and the deferred stop of a
\* command that has returned does both.
THEOREM HostSecondKills == HostSpec => SecondSignalKills
<1>1. HostInit => HandedBack
  BY DEF HostInit, SigInit, HandedBack
<1>2. HandedBack /\ [HostNext]_allVars => HandedBack'
  BY HostHandsBack
<1>3. HandedBack /\ [HostNext]_allVars => [sent' # sent /\ cancelled => killed']_sigVars
  <2> SUFFICES ASSUME HandedBack, [HostNext]_allVars, sent' # sent, cancelled
               PROVE  killed'
    OBVIOUS
  <2>1. HostNext
    BY DEF allVars, sigVars
  <2>2. Signal
    BY <2>1, HostSignals DEF Handles, TakesSignal, HandsBack, Cancels, sigVars
  <2> QED
    BY <2>2 DEF Signal, HandedBack
<1> QED
  BY <1>1, <1>2, <1>3, PTL DEF HostSpec, SecondSignalKills

=============================================================================
