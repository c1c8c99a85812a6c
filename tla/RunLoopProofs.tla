----------------------------- MODULE RunLoopProofs -----------------------------
(***************************************************************************)
(* Proofs about the run loop, for every plan, every set of databases and   *)
(* every assignment of the units to them.  The inductive invariant says    *)
(* what the run already knows of the units behind it, at each place the    *)
(* loop can be: a unit that is not whole has been paid for by the exit     *)
(* code, by the bound's flag or by the stop's, or is about to be.          *)
(***************************************************************************)
EXTENDS RunLoop, FiniteSetTheorems, TLAPS

Early == {"configuring", "reaching", "resolving", "naming", "preparing", "planning"}
Running == {"resetting", "querying", "writing"}
Deciding == {"ended", "mending", "judging", "checking", "reporting"}
Reported == {"onward", "pinging", "recycling", "reconnecting"}
InLoop == {"next"} \cup Running \cup Deciding \cup Reported
Over == {"filing", "closing", "archiving", "returned"}

\* The run knows that something of it is missing.
Paid == exit # 0 \/ maxDuration \/ cancelled

\* Where the loop is: before it, at its first unit with nothing held back; in a
\* unit, at one of the plan; left, at its end or by the stop.
LoopPosition ==
  /\ pc \in Early => at = 1 /\ cancelledOn = {} /\ blockedOn = {}
  /\ pc \in Running \cup Deciding \cup Reported => at \in Plan
  /\ pc = "checking" => named(at) /\ out = "notFound"
  /\ pc = "settling" => cancelled \/ at \notin Plan

\* The units ahead have left nothing, nor has the one that is running.
AheadIsPending ==
  /\ \A u \in Plan : u > at => filed[u] = "nothing"
  /\ pc \in Early \cup {"next"} \cup Running => \A u \in Plan : u = at => filed[u] = "nothing"

\* What runUnit answered and what the manifest holds of its unit agree.
OutcomeIsFiled ==
  pc \in Deciding =>
    /\ out = "ok" => filed[at] = "ok"
    /\ out = "dropped" => pc = "reporting" /\ filed[at] = "dropped"
    /\ out \notin {"ok", "dropped"} => filed[at] = "nothing"

\* A unit behind is whole, or the run is known to miss something.
BehindIsPaid ==
  \A u \in Plan : u < at \/ (u = at /\ pc \in Reported) => whole(u) \/ Paid

\* A unit the watch cancelled is its own failure, and one the bound cut has set
\* the flag before it is reported.
CutIsPaid ==
  /\ out = "blocked" => ~cut
  /\ pc \in {"checking", "reporting"} /\ cut => maxDuration
  /\ cancelledOn # {} => exit # 0 \/ cancelled \/ (pc = "reporting" /\ out = "blocked")

\* Within the loop, the database of a unit the watch cancelled is marked, or is
\* about to be.
BlockedIsHeld ==
  pc \in InLoop =>
    \A u \in blockedOn : named(u) =>
      \/ Target[u] \in cancelledOn
      \/ u = at /\ pc \in {"ended", "mending", "judging"} /\ out = "blocked"

\* The database of a unit filed as dropped is marked.
DroppedIsMarked == \A u \in Plan : filed[u] = "dropped" => Target[u] \in droppedOn

\* The exit code is settled once, and after the loop.
CodeComesLast ==
  /\ pc \notin Over => code = NoCode
  /\ pc = "filing" => code \in {1, 2}
  /\ runError /\ pc \notin Over => exit # 0
  /\ runError /\ pc \in Over => code # 0

\* The previous run is moved once the lock is held, and what is discarded is
\* discarded last.
DiscardComesLast ==
  /\ pc \in Unlocked => previous \in {"none", "inPlace"}
  /\ discardPrevious => pc \in Over
  /\ discardPrevious /\ pc # "returned" => code = 0
  /\ archived => pc = "returned"
  /\ previous = "discarded" => pc = "returned" /\ archived /\ code = 0

Control ==
  /\ LoopPosition /\ AheadIsPending /\ OutcomeIsFiled /\ BehindIsPaid /\ CutIsPaid
  /\ BlockedIsHeld /\ DroppedIsMarked /\ CodeComesLast /\ DiscardComesLast
  /\ ExitZeroMeansWhole

IInv == TypeOK /\ Control
---------------------------------------------------------------------------
(* Type correctness *)

\* The verdict is handed over typed, by finish and by each of its callers.
LEMMA FinishedType ==
  ASSUME TypeOK, NEW s \in BOOLEAN, NEW r \in BOOLEAN, Finished(s, r)
  PROVE  TypeVerdict'
BY DEF TypeOK, TypeSums, TypeVerdict, Finished

\* A refusal hands over a typed verdict.
LEMMA RefuseVerdict ==
  ASSUME TypeOK, NEW c, finishWith(c)
  PROVE  TypeVerdict'
BY FinishedType DEF TypeOK, TypeFlags, finishWith

\* So does a step that failed, was stopped, or met the bound.
LEMMA StoppedOrVerdict ==
  ASSUME TypeOK, NEW c, stoppedOr(c)
  PROVE  TypeVerdict'
<1>1. CASE boundReached \/ ctxDead
  <2>1. cancelled' \in BOOLEAN /\ maxDuration' \in BOOLEAN
    BY <1>1 DEF TypeOK, TypeFlags, stoppedOr, boundReached
  <2>2. Finished(cancelled', maxDuration')
    BY <1>1 DEF stoppedOr
  <2> QED
    BY <2>1, <2>2, FinishedType
<1>2. CASE ~(boundReached \/ ctxDead)
  BY <1>2, RefuseVerdict DEF stoppedOr, refuse
<1> QED
  BY <1>1, <1>2

\* The steps before the first unit keep every variable in its type.
LEMMA PreambleType == TypeOK /\ LoopPosition /\ Preamble => TypeOK'
<1> SUFFICES ASSUME TypeOK, LoopPosition, Preamble PROVE TypeOK'
  OBVIOUS
<1> USE RunAssumption DEF TypeOK, TypeFlags, TypeLoop, TypeSets, TypeSums, TypeRecord, TypeVerdict,
        Plan, Places, Causes, Outcomes, Skips, Filings, Tellings, NoCode, Codes,
        ctxVars, unitVars, skipVars, sumVars, flagVars, endVars
<1>1. CASE Configures
  BY <1>1 DEF Configures, beforeLoop
<1>2. CASE ConfigRefused
  BY <1>2 DEF ConfigRefused, refuse, beforeLoop, finishWith, Finished
<1>3. CASE Reaches
  BY <1>3 DEF Reaches, beforeLoop
<1>4. CASE ReachFails
  <2>1. TypeFlags'
    BY <1>4, ZenonT(60) DEF ReachFails, stoppedOr, beforeLoop, boundReached, Finished, refuse, finishWith
  <2>2. TypeLoop' /\ TypeSets' /\ TypeSums' /\ TypeRecord'
    BY <1>4 DEF ReachFails, stoppedOr, beforeLoop, boundReached, Finished, refuse, finishWith
  <2>3. TypeVerdict'
    BY <1>4, StoppedOrVerdict DEF ReachFails
  <2> QED
    BY <2>1, <2>2, <2>3
<1>5. CASE Resolves
  BY <1>5 DEF Resolves, beforeLoop
<1>6. CASE ListFails
  <2>1. TypeFlags'
    BY <1>6, ZenonT(60) DEF ListFails, stoppedOr, beforeLoop, boundReached, Finished, refuse, finishWith
  <2>2. TypeLoop' /\ TypeSets' /\ TypeSums' /\ TypeRecord'
    BY <1>6 DEF ListFails, stoppedOr, beforeLoop, boundReached, Finished, refuse, finishWith
  <2>3. TypeVerdict'
    BY <1>6, StoppedOrVerdict DEF ListFails
  <2> QED
    BY <2>1, <2>2, <2>3
<1>7. CASE SelectionRefused
  BY <1>7 DEF SelectionRefused, refuse, beforeLoop, finishWith, Finished
<1>8. CASE Locks
  BY <1>8 DEF Locks, asksBoundFirst, beforeLoop, boundReached
<1>9. CASE BoundBeforeFolder
  <2>1. TypeFlags'
    BY <1>9 DEF BoundBeforeFolder, asksBoundFirst, stoppedOr, beforeLoop, boundReached,
                Finished, refuse, finishWith
  <2>2. TypeLoop' /\ TypeSets' /\ TypeSums' /\ TypeRecord'
    BY <1>9 DEF BoundBeforeFolder, asksBoundFirst, stoppedOr, beforeLoop, boundReached,
                Finished, refuse, finishWith
  <2>3. TypeVerdict'
    BY <1>9, StoppedOrVerdict DEF BoundBeforeFolder
  <2> QED
    BY <2>1, <2>2, <2>3
<1>10. CASE LockRefused
  BY <1>10 DEF LockRefused, asksBoundFirst, refuse, beforeLoop, boundReached, finishWith, Finished
<1>11. CASE Prepares
  BY <1>11 DEF Prepares, beforeLoop
<1>12. CASE PrepareRefused
  BY <1>12 DEF PrepareRefused, refuse, beforeLoop, finishWith, Finished
<1>13. CASE Plans
  BY <1>13 DEF Plans, beforeLoop
<1> QED
  BY <1>1, <1>2, <1>3, <1>4, <1>5, <1>6, <1>7, <1>8, <1>9, <1>10, <1>11, <1>12, <1>13 DEF Preamble

\* So do the steps of the loop, which stays on the plan.
LEMMA LoopType == TypeOK /\ LoopPosition /\ Loop => TypeOK'
<1> SUFFICES ASSUME TypeOK, LoopPosition, Loop PROVE TypeOK'
  OBVIOUS
<1> USE RunAssumption DEF TypeOK, TypeFlags, TypeLoop, TypeSets, TypeSums, TypeRecord, TypeVerdict,
        Plan, Places, Causes, Outcomes, Skips, Filings, Tellings, NoCode, Codes,
        ctxVars, unitVars, skipVars, sumVars, flagVars, endVars,
        LoopPosition, Running, Deciding, Reported, named
<1>1. CASE SkipUnit
  BY <1>1 DEF SkipUnit, skipBefore, flagsSkip, tellsSkip, upNext, heldBack, droppedBefore,
              boundReached, named
<1>2. CASE StartUnit
  <2>1. TypeFlags'
    BY <1>2 DEF StartUnit, skipBefore, heldBack, droppedBefore, boundReached, named
  <2>2. TypeLoop' /\ TypeSets' /\ TypeSums' /\ TypeRecord' /\ TypeVerdict'
    BY <1>2 DEF StartUnit, skipBefore, heldBack, droppedBefore, boundReached, named
  <2> QED
    BY <2>1, <2>2
<1>3. CASE LoopEnds
  BY <1>3 DEF LoopEnds
<1>4. CASE ResetSucceeds
  BY <1>4 DEF ResetSucceeds, aroundUnit
<1>5. CASE ResetFails
  BY <1>5 DEF ResetFails, UnitFails, endedByBound, aroundUnit
<1>6. CASE QuerySucceeds
  BY <1>6 DEF QuerySucceeds, aroundUnit
<1>7. CASE QueryFails
  BY <1>7 DEF QueryFails, UnitFails, endedByBound, aroundUnit
<1>8. CASE WriteSucceeds
  <2>1. TypeFlags'
    BY <1>8 DEF WriteSucceeds, aroundUnit
  <2>2. TypeLoop' /\ TypeSets' /\ TypeSums' /\ TypeRecord' /\ TypeVerdict'
    BY <1>8 DEF WriteSucceeds, aroundUnit
  <2> QED
    BY <2>1, <2>2
<1>9. CASE WriteFails
  <2>1. TypeFlags'
    BY <1>9 DEF WriteFails, UnitFails, aroundUnit
  <2>2. TypeLoop' /\ TypeSets' /\ TypeSums' /\ TypeRecord' /\ TypeVerdict'
    BY <1>9 DEF WriteFails, UnitFails, aroundUnit
  <2> QED
    BY <2>1, <2>2
<1>10. CASE UnitEnded
  BY <1>10 DEF UnitEnded, boundReached
<1>11. CASE Mends
  <2>1. TypeFlags'
    BY <1>11 DEF Mends
  <2>2. TypeLoop' /\ TypeSets' /\ TypeSums' /\ TypeRecord' /\ TypeVerdict'
    BY <1>11 DEF Mends
  <2> QED
    BY <2>1, <2>2
<1>12. CASE MendFails
  <2>1. TypeFlags'
    BY <1>12, ZenonT(60) DEF MendFails, boundReached, sessionLost, explained, break, continue, refuse,
                 upNext, finishWith, Finished
  <2>2. TypeLoop' /\ TypeSets' /\ TypeSums' /\ TypeRecord'
    BY <1>12 DEF MendFails, boundReached, sessionLost, explained, break, continue, refuse,
                 upNext, finishWith, Finished
  <2>3. TypeVerdict'
    <3>1. CASE refuse(1)
      BY <3>1, RefuseVerdict DEF refuse
    <3>2. CASE UNCHANGED endVars
      BY <3>2
    <3> QED
      BY <1>12, <3>1, <3>2 DEF MendFails, sessionLost, explained
  <2> QED
    BY <2>1, <2>2, <2>3
<1>13. CASE Judges
  BY <1>13 DEF Judges, marksDatabase, named
<1>14. CASE FoundDropped
  BY <1>14 DEF FoundDropped
<1>15. CASE NotShownDropped
  BY <1>15 DEF NotShownDropped
<1>16. CASE ReportsSuccess
  BY <1>16 DEF ReportsSuccess, succeeded, toldOf
<1>17. CASE ReportsInterruption
  BY <1>17 DEF ReportsInterruption, succeeded, outranks, break
<1>18. CASE ReportsFailure
  BY <1>18 DEF ReportsFailure, succeeded, outranks
<1>19. CASE Onward
  <2>1. TypeFlags'
    BY <1>19, ZenonT(60) DEF Onward, break, boundReached, continue, succeeded, upNext
  <2>2. TypeLoop' /\ TypeSets' /\ TypeSums' /\ TypeRecord' /\ TypeVerdict'
    BY <1>19 DEF Onward, break, boundReached, continue, succeeded, upNext
  <2> QED
    BY <2>1, <2>2
<1>20. CASE Pings
  BY <1>20 DEF Pings
<1>21. CASE PingFails
  <2>1. TypeFlags'
    BY <1>21 DEF PingFails, break, boundReached, continue, upNext
  <2>2. TypeLoop' /\ TypeSets' /\ TypeSums' /\ TypeRecord' /\ TypeVerdict'
    BY <1>21 DEF PingFails, break, boundReached, continue, upNext
  <2> QED
    BY <2>1, <2>2
<1>22. CASE SessionRenewed
  <2>1. TypeFlags'
    BY <1>22 DEF SessionRenewed, continue, upNext
  <2>2. TypeLoop' /\ TypeSets' /\ TypeSums' /\ TypeRecord' /\ TypeVerdict'
    BY <1>22 DEF SessionRenewed, continue, upNext
  <2> QED
    BY <2>1, <2>2
<1>23. CASE SessionNotRenewed
  <2>1. TypeFlags'
    BY <1>23, ZenonT(60) DEF SessionNotRenewed, sessionLost, explained, break, continue, refuse,
                 boundReached, upNext, finishWith, Finished
  <2>2. TypeLoop' /\ TypeSets' /\ TypeSums' /\ TypeRecord'
    BY <1>23 DEF SessionNotRenewed, sessionLost, explained, break, continue, refuse,
                 boundReached, upNext, finishWith, Finished
  <2>3. TypeVerdict'
    <3>1. CASE refuse(1)
      BY <3>1, RefuseVerdict DEF refuse
    <3>2. CASE UNCHANGED endVars
      BY <3>2
    <3> QED
      BY <1>23, <3>1, <3>2 DEF SessionNotRenewed, sessionLost, explained
  <2> QED
    BY <2>1, <2>2, <2>3
<1> QED
  BY <1>1, <1>2, <1>3, <1>4, <1>5, <1>6, <1>7, <1>8, <1>9, <1>10, <1>11, <1>12, <1>13, <1>14,
     <1>15, <1>16, <1>17, <1>18, <1>19, <1>20, <1>21, <1>22, <1>23 DEF Loop, runUnit

\* So do the steps after it.
LEMMA TailType == TypeOK /\ LoopPosition /\ Tail => TypeOK'
<1> SUFFICES ASSUME TypeOK, LoopPosition, Tail PROVE TypeOK'
  OBVIOUS
<1> USE RunAssumption DEF TypeOK, TypeFlags, TypeLoop, TypeSets, TypeSums, TypeRecord, TypeVerdict,
        Plan, Places, Causes, Outcomes, Skips, Filings, Tellings, NoCode, Codes,
        ctxVars, unitVars, skipVars, sumVars, flagVars, endVars
<1>1. CASE Settles
  BY <1>1 DEF Settles, settleRun, Finished
<1>2. CASE Writes
  BY <1>2 DEF Writes
<1>3. CASE Archives
  BY <1>3 DEF Archives, discards
<1>4. CASE ArchiveFails
  BY <1>4 DEF ArchiveFails
<1> QED
  BY <1>1, <1>2, <1>3, <1>4 DEF Tail

\* So do the ends of the contexts.
LEMMA ContextType == TypeOK /\ LoopPosition /\ Environment => TypeOK'
<1> SUFFICES ASSUME TypeOK, LoopPosition, Environment PROVE TypeOK'
  OBVIOUS
<1> USE RunAssumption DEF TypeOK, TypeFlags, TypeLoop, TypeSets, TypeSums, TypeRecord, TypeVerdict,
        Plan, Places, Causes, Outcomes, Skips, Filings, Tellings, NoCode, Codes,
        ctxVars, unitVars, skipVars, sumVars, flagVars, endVars
<1>1. CASE Stop
  BY <1>1 DEF Stop
<1>2. CASE BoundFires
  BY <1>2 DEF BoundFires
<1>3. CASE WatchFires
  BY <1>3 DEF WatchFires
<1>4. CASE CallExpires
  BY <1>4 DEF CallExpires
<1> QED
  BY <1>1, <1>2, <1>3, <1>4 DEF Environment

\* The initial states are typed.
LEMMA InitType == Init => TypeOK
<1> SUFFICES ASSUME Init PROVE TypeOK
  OBVIOUS
<1> USE RunAssumption DEF Init, Plan, NoCode
<1>1. TypeFlags
  BY DEF TypeFlags
<1>2. TypeLoop
  BY DEF TypeLoop, Places, Causes, Outcomes
<1>3. TypeSets /\ TypeSums
  BY DEF TypeSets, TypeSums, Codes
<1>4. TypeRecord /\ TypeVerdict
  BY DEF TypeRecord, Filings, Tellings, TypeVerdict, NoVerdict
<1> QED
  BY <1>1, <1>2, <1>3, <1>4 DEF TypeOK

---------------------------------------------------------------------------
(* The inductive invariant *)

\* Before the run, nothing is owed.
LEMMA InitControl == Init => Control
  BY RunAssumption
     DEF Init, Control, LoopPosition, AheadIsPending, OutcomeIsFiled, BehindIsPaid, CutIsPaid,
         BlockedIsHeld, DroppedIsMarked, InLoop, CodeComesLast, DiscardComesLast,
         ExitZeroMeansWhole, Unlocked, Plan, Early, Running,
         Deciding, Reported, Over, NoCode

\* The steps before the first unit keep the relations between the variables.
LEMMA PreambleControl ==
  ASSUME TypeOK, Control, Preamble
  PROVE  Control'
<1> USE RunAssumption DEF TypeOK, TypeFlags, TypeLoop, TypeSums, TypeRecord, Plan, NoCode, Codes,
        Control, LoopPosition, AheadIsPending, OutcomeIsFiled, BehindIsPaid, CutIsPaid, Paid, whole,
        BlockedIsHeld, DroppedIsMarked, InLoop, named, TypeSets,
        CodeComesLast, DiscardComesLast, ExitZeroMeansWhole, Unlocked, Early, Running, Deciding,
        Reported, Over,
        ctxVars, unitVars, skipVars, sumVars, flagVars, endVars
<1>1. CASE Configures
  BY <1>1 DEF Configures, beforeLoop
<1>2. CASE ConfigRefused
  BY <1>2 DEF ConfigRefused, refuse, beforeLoop, finishWith, Finished
<1>3. CASE Reaches
  BY <1>3 DEF Reaches, beforeLoop
<1>4. CASE ReachFails
  BY <1>4 DEF ReachFails, stoppedOr, beforeLoop, boundReached, Finished, refuse, finishWith
<1>5. CASE Resolves
  BY <1>5 DEF Resolves, beforeLoop
<1>6. CASE ListFails
  BY <1>6 DEF ListFails, stoppedOr, beforeLoop, boundReached, Finished, refuse, finishWith
<1>7. CASE SelectionRefused
  BY <1>7 DEF SelectionRefused, refuse, beforeLoop, finishWith, Finished
<1>8. CASE Locks
  BY <1>8 DEF Locks, asksBoundFirst, beforeLoop, boundReached
<1>9. CASE BoundBeforeFolder
  BY <1>9 DEF BoundBeforeFolder, asksBoundFirst, stoppedOr, beforeLoop, boundReached, Finished,
              refuse, finishWith
<1>10. CASE LockRefused
  BY <1>10 DEF LockRefused, asksBoundFirst, refuse, beforeLoop, boundReached, finishWith, Finished
<1>11. CASE Prepares
  BY <1>11 DEF Prepares, beforeLoop
<1>12. CASE PrepareRefused
  BY <1>12 DEF PrepareRefused, refuse, beforeLoop, finishWith, Finished
<1>13. CASE Plans
  BY <1>13, SMTT(30) DEF Plans, beforeLoop
<1> QED
  BY <1>1, <1>2, <1>3, <1>4, <1>5, <1>6, <1>7, <1>8, <1>9, <1>10, <1>11, <1>12, <1>13 DEF Preamble

\* So do the steps of the loop: each unit left behind is whole or paid for.
LEMMA LoopControl ==
  ASSUME TypeOK, Control, Loop
  PROVE  Control'
<1> USE RunAssumption DEF TypeOK, TypeFlags, TypeLoop, TypeSums, TypeRecord, Plan, NoCode, Codes,
        Control, LoopPosition, AheadIsPending, OutcomeIsFiled, BehindIsPaid, CutIsPaid, Paid, whole,
        BlockedIsHeld, DroppedIsMarked, InLoop, named, TypeSets,
        CodeComesLast, DiscardComesLast, ExitZeroMeansWhole, Unlocked, Early, Running, Deciding,
        Reported, Over,
        ctxVars, unitVars, skipVars, sumVars, flagVars, endVars
<1>1. CASE SkipUnit
  <2> USE <1>1 DEF SkipUnit, upNext
  <2>1. filed'[at] \in {"ok", "dropped"} \/ Paid'
    BY DEF skipBefore, heldBack, flagsSkip
  <2>2. LoopPosition' /\ AheadIsPending' /\ OutcomeIsFiled'
    OBVIOUS
  <2>3. BehindIsPaid'
    BY <2>1
  <2>4. CutIsPaid' /\ BlockedIsHeld' /\ CodeComesLast' /\ DiscardComesLast' /\ ExitZeroMeansWhole'
    OBVIOUS
  <2>5. DroppedIsMarked'
    BY DEF skipBefore, droppedBefore
  <2> QED
    BY <2>2, <2>3, <2>4, <2>5
<1>2. CASE StartUnit
  BY <1>2 DEF StartUnit, skipBefore, heldBack, droppedBefore, boundReached, named
<1>3. CASE LoopEnds
  BY <1>3 DEF LoopEnds
<1>4. CASE ResetSucceeds
  BY <1>4 DEF ResetSucceeds, aroundUnit
<1>5. CASE ResetFails
  BY <1>5 DEF ResetFails, UnitFails, endedByBound, aroundUnit
<1>6. CASE QuerySucceeds
  BY <1>6 DEF QuerySucceeds, aroundUnit
<1>7. CASE QueryFails
  BY <1>7 DEF QueryFails, UnitFails, endedByBound, aroundUnit
<1>8. CASE WriteSucceeds
  BY <1>8 DEF WriteSucceeds, aroundUnit
<1>9. CASE WriteFails
  BY <1>9 DEF WriteFails, UnitFails, aroundUnit
<1>10. CASE UnitEnded
  BY <1>10 DEF UnitEnded, boundReached
<1>11. CASE Mends
  BY <1>11 DEF Mends
<1>12. CASE MendFails
  BY <1>12 DEF MendFails, boundReached, sessionLost, explained, break, continue, refuse, upNext,
               finishWith, Finished
<1>13. CASE Judges
  BY <1>13 DEF Judges, marksDatabase, named
<1>14. CASE FoundDropped
  BY <1>14 DEF FoundDropped
<1>15. CASE NotShownDropped
  BY <1>15 DEF NotShownDropped
<1>16. CASE ReportsSuccess
  BY <1>16 DEF ReportsSuccess, succeeded, toldOf
<1>17. CASE ReportsInterruption
  BY <1>17 DEF ReportsInterruption, succeeded, outranks, break
<1>18. CASE ReportsFailure
  BY <1>18 DEF ReportsFailure, succeeded, outranks
<1>19. CASE Onward
  BY <1>19 DEF Onward, break, boundReached, continue, succeeded, upNext
<1>20. CASE Pings
  BY <1>20 DEF Pings
<1>21. CASE PingFails
  BY <1>21 DEF PingFails, break, boundReached, continue, upNext
<1>22. CASE SessionRenewed
  BY <1>22 DEF SessionRenewed, continue, upNext
<1>23. CASE SessionNotRenewed
  BY <1>23, SMTT(30) DEF SessionNotRenewed, sessionLost, explained, break, continue, refuse, boundReached,
               upNext, finishWith, Finished
<1> QED
  BY <1>1, <1>2, <1>3, <1>4, <1>5, <1>6, <1>7, <1>8, <1>9, <1>10, <1>11, <1>12, <1>13, <1>14,
     <1>15, <1>16, <1>17, <1>18, <1>19, <1>20, <1>21, <1>22, <1>23 DEF Loop, runUnit

\* So do the steps after it, which settle the code.
LEMMA TailControl ==
  ASSUME TypeOK, Control, Tail
  PROVE  Control'
<1> USE RunAssumption DEF TypeOK, TypeFlags, TypeLoop, TypeSums, TypeRecord, Plan, NoCode, Codes,
        Control, LoopPosition, AheadIsPending, OutcomeIsFiled, BehindIsPaid, CutIsPaid, Paid, whole,
        BlockedIsHeld, DroppedIsMarked, InLoop, named, TypeSets,
        CodeComesLast, DiscardComesLast, ExitZeroMeansWhole, Unlocked, Early, Running, Deciding,
        Reported, Over,
        ctxVars, unitVars, skipVars, sumVars, flagVars, endVars
<1>1. CASE Settles
  BY <1>1 DEF Settles, settleRun, Finished
<1>2. CASE Writes
  BY <1>2 DEF Writes
<1>3. CASE Archives
  BY <1>3 DEF Archives, discards
<1>4. CASE ArchiveFails
  BY <1>4 DEF ArchiveFails
<1> QED
  BY <1>1, <1>2, <1>3, <1>4 DEF Tail

\* So do the ends of the contexts, which change neither the record nor the sums.
LEMMA ContextControl ==
  ASSUME TypeOK, Control, Environment
  PROVE  Control'
<1> USE RunAssumption DEF TypeOK, TypeFlags, TypeLoop, TypeSums, TypeRecord, Plan, NoCode, Codes,
        Control, LoopPosition, AheadIsPending, OutcomeIsFiled, BehindIsPaid, CutIsPaid, Paid, whole,
        BlockedIsHeld, DroppedIsMarked, InLoop, named, TypeSets,
        CodeComesLast, DiscardComesLast, ExitZeroMeansWhole, Unlocked, Early, Running, Deciding,
        Reported, Over,
        ctxVars, unitVars, skipVars, sumVars, flagVars, endVars
<1>1. CASE Stop
  BY <1>1 DEF Stop
<1>2. CASE BoundFires
  BY <1>2 DEF BoundFires
<1>3. CASE WatchFires
  BY <1>3 DEF WatchFires
<1>4. CASE CallExpires
  BY <1>4 DEF CallExpires
<1> QED
  BY <1>1, <1>2, <1>3, <1>4 DEF Environment

\* No step leaves the types.
LEMMA NextType == ASSUME TypeOK, Control, Next PROVE TypeOK'
  BY PreambleType, LoopType, TailType, ContextType DEF Next, Run, Control

\* No step leaves the relations.
LEMMA NextControl == ASSUME TypeOK, Control, Next PROVE Control'
  BY PreambleControl, LoopControl, TailControl, ContextControl DEF Next, Run

\* Nor does a stutter.
LEMMA StutterInv == ASSUME IInv, UNCHANGED vars PROVE IInv'
<1>1. TypeOK'
  BY DEF IInv, TypeOK, TypeFlags, TypeLoop, TypeSets, TypeSums, TypeRecord, TypeVerdict,
         vars, ctxVars, unitVars, skipVars, sumVars, flagVars, endVars
<1>2. Control'
  BY DEF IInv, Control, LoopPosition, AheadIsPending, OutcomeIsFiled, BehindIsPaid, CutIsPaid,
         Paid, whole, BlockedIsHeld, DroppedIsMarked, CodeComesLast, DiscardComesLast, ExitZeroMeansWhole,
         Unlocked, vars, ctxVars, unitVars, skipVars, sumVars, flagVars, endVars
<1> QED
  BY <1>1, <1>2 DEF IInv

\* IInv is inductive.
LEMMA NextInv == IInv /\ [Next]_vars => IInv'
  BY NextType, NextControl, StutterInv DEF IInv

\* The inductive invariant holds of every state of every run.
THEOREM Invariance == Spec => []IInv
<1>1. Init => IInv
  BY InitType, InitControl DEF IInv
<1> QED
  BY <1>1, NextInv, PTL DEF Spec

---------------------------------------------------------------------------
(* What follows *)

\* Every variable of Run keeps its type, whatever the plan.
THEOREM TypeCorrect == Spec => []TypeOK
<1>1. IInv => TypeOK
  BY DEF IInv
<1> QED
  BY <1>1, Invariance, PTL

\* settleRun is right to say 0: a run that does has every unit's result, or found
\* its database dropped, and no error of its own.
THEOREM ZeroIsWhole == Spec => []ExitZeroMeansWhole
<1>1. IInv => ExitZeroMeansWhole
  BY DEF IInv, Control
<1> QED
  BY <1>1, Invariance, PTL

\* discardSuperseded runs only for a whole run that has its archive.
THEOREM DiscardIsLast == Spec => []DiscardNeedsWholeRun
<1>1. IInv => DiscardNeedsWholeRun
  BY DEF IInv, Control, DiscardComesLast, ExitZeroMeansWhole, DiscardNeedsWholeRun
<1> QED
  BY <1>1, Invariance, PTL

\* heldBack and droppedBefore keep every later unit off a database on which the
\* watch has cancelled one, and off one a unit was filed as dropped with.
THEOREM HeldBackHolds == Spec => HeldBackStaysBack
<1>1. IInv /\ [Next]_vars =>
        [pc = "next" /\ pc' = "resetting" =>
           \A u \in Plan : named(u) /\ (u \in blockedOn \/ filed[u] = "dropped")
                            => Target[u] # Target[at]]_vars
  <2> SUFFICES ASSUME IInv, Next, pc = "next", pc' = "resetting"
               PROVE  \A u \in Plan : named(u) /\ (u \in blockedOn \/ filed[u] = "dropped")
                                       => Target[u] # Target[at]
    OBVIOUS
  <2>1. StartUnit
    BY DEF Next, Run, Preamble, Loop, Tail, runUnit, Configures, ConfigRefused, Reaches,
           ReachFails, Resolves, ListFails, SelectionRefused, Locks, BoundBeforeFolder,
           LockRefused, Prepares, PrepareRefused, Plans, SkipUnit, LoopEnds, ResetSucceeds,
           ResetFails, QuerySucceeds, QueryFails, WriteSucceeds, WriteFails, UnitEnded, Mends,
           MendFails, Judges, FoundDropped, NotShownDropped, ReportsSuccess,
           ReportsInterruption, ReportsFailure, Onward, Pings, PingFails, SessionRenewed,
           SessionNotRenewed, Settles, Writes, Archives, ArchiveFails, Stop, BoundFires,
           Environment, WatchFires, CallExpires, endVars
  <2>2. ~heldBack(at) /\ ~droppedBefore(at)
    BY <2>1 DEF StartUnit, skipBefore
  <2>3. \A u \in blockedOn : named(u) => Target[u] \in cancelledOn
    BY DEF IInv, Control, BlockedIsHeld, InLoop
  <2>4. \A u \in Plan : filed[u] = "dropped" => Target[u] \in droppedOn
    BY DEF IInv, Control, DroppedIsMarked
  <2>5. \A u \in Plan : named(u) /\ Target[u] = Target[at] => named(at)
    BY DEF named
  <2> QED
    BY <2>2, <2>3, <2>4, <2>5 DEF heldBack, droppedBefore
<1> QED
  BY <1>1, Invariance, PTL DEF Spec, HeldBackStaysBack

---------------------------------------------------------------------------
(* Refinement: Run implements RunContract *)

\* Run starts as its contract does.
LEMMA InitImplements == Init => Contract!Init
  BY DEF Init, Contract!Init, outcomeNow, statusOf

\* A filing that was nothing and becomes something settles that unit.
LEMMA FilingSettles ==
  ASSUME TypeOK, NEW u \in Plan, NEW f \in Filings \ {"nothing"},
         filed[u] = "nothing", filed' = [filed EXCEPT ![u] = f],
         pc # "returned", pc' # "returned", UNCHANGED previous
  PROVE  Contract!Settle(u)
<1>1. statusOf(f) \in Contract!Settled /\ statusOf("nothing") = "pending"
  BY DEF statusOf, Filings, Skips, Contract!Settled
<1>2. [v \in Plan |-> statusOf(filed'[v])] =
        [[v \in Plan |-> statusOf(filed[v])] EXCEPT ![u] = statusOf(f)]
  BY DEF TypeOK, TypeRecord
<1> QED
  BY <1>1, <1>2 DEF Contract!Settle, outcomeNow

\* A step that files nothing, gives up nothing and does not end the run.
LEMMA Silent ==
  ASSUME UNCHANGED filed, pc # "returned", pc' # "returned",
         previous # "discarded", previous' # "discarded"
  PROVE  UNCHANGED Contract!contract
  BY DEF Contract!contract, outcomeNow

\* The steps that file a unit.
LEMMA FilingImplements ==
  ASSUME IInv, SkipUnit \/ WriteSucceeds \/ FoundDropped \/ ReportsFailure
  PROVE  \E u \in Plan : Contract!Settle(u)
<1> USE DEF IInv, Control, TypeOK, TypeLoop, LoopPosition, AheadIsPending, OutcomeIsFiled, Early,
            Running, Deciding, Reported, Filings, Skips
<1>1. CASE SkipUnit
  <2>1. skipBefore(at) \in Skips
    BY <1>1 DEF SkipUnit, skipBefore
  <2>2. at \in Plan /\ filed[at] = "nothing" /\ filed' = [filed EXCEPT ![at] = skipBefore(at)]
    BY <1>1 DEF SkipUnit
  <2> QED
    BY <1>1, <2>1, <2>2, FilingSettles DEF SkipUnit, endVars
<1>2. CASE WriteSucceeds
  <2>1. at \in Plan /\ filed[at] = "nothing"
    BY <1>2 DEF WriteSucceeds
  <2> QED
    BY <1>2, <2>1, FilingSettles DEF WriteSucceeds, aroundUnit
<1>3. CASE FoundDropped
  <2>1. at \in Plan /\ filed[at] = "nothing"
    BY <1>3 DEF FoundDropped
  <2> QED
    BY <1>3, <2>1, FilingSettles DEF FoundDropped
<1>4. CASE ReportsFailure
  <2>1. at \in Plan /\ filed[at] = "nothing"
    BY <1>4 DEF ReportsFailure, succeeded
  <2> QED
    BY <1>4, <2>1, FilingSettles DEF ReportsFailure
<1> QED
  BY <1>1, <1>2, <1>3, <1>4

\* The steps that end the run.
LEMMA EndImplements ==
  ASSUME IInv, Writes \/ Archives \/ ArchiveFails
  PROVE  Contract!End \/ UNCHANGED Contract!contract
<1> USE DEF IInv, Control, DiscardComesLast, CodeComesLast, Over
<1>1. CASE Writes
  <2>1. CASE pc' = "returned"
    BY <1>1, <2>1 DEF Writes, Contract!End, outcomeNow
  <2>2. CASE pc' # "returned"
    BY <1>1, <2>2, Silent DEF Writes
  <2> QED
    BY <2>1, <2>2
<1>2. CASE Archives
  <2>1. CASE code = 0
    <3>1. Contract!Complete
      BY <2>1 DEF ExitZeroMeansWhole, whole, Contract!Complete, statusOf
    <3> QED
      BY <1>2, <2>1, <3>1 DEF Archives, Contract!End, outcomeNow
  <2>2. CASE code # 0
    BY <1>2, <2>2 DEF Archives, discards, Contract!End, outcomeNow
  <2> QED
    BY <2>1, <2>2
<1>3. CASE ArchiveFails
  BY <1>3 DEF ArchiveFails, Contract!End, outcomeNow
<1> QED
  BY <1>1, <1>2, <1>3

\* The rest is of no concern to whoever launched the run.
LEMMA RestIsSilent ==
  ASSUME IInv, Next, ~(SkipUnit \/ WriteSucceeds \/ FoundDropped \/ ReportsFailure),
         ~(Writes \/ Archives \/ ArchiveFails)
  PROVE  UNCHANGED Contract!contract
<1>1. UNCHANGED filed /\ pc # "returned" /\ pc' # "returned" /\ previous' \in {previous, "aside"}
  <2> USE DEF endVars
  <2>1. CASE Preamble
    BY <2>1 DEF Preamble, Configures, beforeLoop, ConfigRefused, refuse, finishWith,
                Finished, Reaches, ReachFails, stoppedOr, boundReached, Resolves, ListFails,
                SelectionRefused, Locks, asksBoundFirst, BoundBeforeFolder, LockRefused,
                Prepares, PrepareRefused, Plans
  <2>2. CASE Loop
    BY <2>2 DEF Loop, runUnit, StartUnit, skipBefore, heldBack, droppedBefore, boundReached,
                named, LoopEnds, ResetSucceeds, aroundUnit, ResetFails, UnitFails,
                endedByBound, QuerySucceeds, QueryFails, WriteFails, UnitEnded, Mends,
                MendFails, sessionLost, explained, break, continue, refuse, upNext,
                finishWith, Finished, Judges, marksDatabase, NotShownDropped,
                ReportsSuccess, succeeded, toldOf, ReportsInterruption, outranks, Onward,
                Pings, PingFails, SessionRenewed, SessionNotRenewed
  <2>3. CASE Settles \/ Environment
    BY <2>3 DEF Environment, Settles, settleRun, Finished, Stop, BoundFires, WatchFires, CallExpires
  <2> QED
    BY <2>1, <2>2, <2>3 DEF Next, Run, Tail
<1>2. previous # "discarded"
  BY <1>1 DEF IInv, Control, DiscardComesLast
<1> QED
  BY <1>1, <1>2, Silent

\* Run keeps its contract: no unit is settled twice, the run ends once, complete
\* only when no unit is missing, and only then gives up the run it replaced.
THEOREM Implements == Spec => KeepsContract
<1>1. IInv /\ [Next]_vars => [Contract!Next]_(Contract!contract)
  <2>1. ASSUME IInv, Next PROVE Contract!Next \/ UNCHANGED Contract!contract
    BY <2>1, FilingImplements, EndImplements, RestIsSilent DEF Contract!Next
  <2>2. ASSUME UNCHANGED vars PROVE UNCHANGED Contract!contract
    BY <2>2 DEF vars, endVars, Contract!contract, outcomeNow
  <2> QED
    BY <2>1, <2>2
<1> QED
  BY <1>1, InitImplements, Invariance, PTL DEF Spec, KeepsContract, Contract!Spec

---------------------------------------------------------------------------
(* The accounts of the run *)

\* What the screen was told of a unit and what the manifest says of it agree.
agreed(u) ==
  \/ told[u] = "done" /\ filed[u] = "ok"
  \/ told[u] = "error" /\ filed[u] = "error"
  \/ told[u] = "skipped" /\ filed[u] \in Skips

\* A unit the run was interrupted in, or before the end of.
interrupted(u) == filed[u] \in {"nothing", "ok"} /\ told[u] \in {"nothing", "done"}

\* They agree on every unit behind; of the units ahead, the screen was told
\* nothing; on the one the run was left at, the unit may be an interrupted one.
AgreedBehind ==
  \A u \in Plan :
    /\ u < at => agreed(u)
    /\ u = at /\ pc \in Reported => agreed(u)
    /\ u = at /\ pc \in Over \cup {"settling"} => agreed(u) \/ interrupted(u)
    /\ u = at /\ pc \notin Reported \cup Over \cup {"settling"} => told[u] = "nothing"
    /\ u > at => told[u] = "nothing"

LeftAtItsEnd == looped => cancelled \/ at \notin Plan

Agreement == AgreedBehind /\ LeftAtItsEnd /\ InstanceUnitsRun

\* The bound's flag and the count of what it kept from starting.
unstarted == {u \in Plan : filed[u] = "notStarted"}
FlagIsTrue ==
  pc \notin {"filing", "returned"} =>
    /\ maxDuration <=> stoppedByBound \/ unstarted # {}
    /\ notStarted = Cardinality(unstarted)

\* What the run earned is its own: the units that failed alone are behind, or the
\* one at hand, which then was not cut.
FailedAloneIsBehind ==
  /\ \A u \in failedAlone : u < at \/ (u = at /\ pc \notin Early \cup Running \cup {"next"})
  /\ pc \in Deciding /\ out \notin {"ok", "dropped"} => (at \in failedAlone <=> ~cut)
ownFailure == runError \/ \E u \in failedAlone : told[u] = "error"
EarnedIsOwn ==
  /\ pc \in Early => ~runError /\ earned = 0
  /\ pc \notin {"filing", "returned"} => (earned # 0 <=> ownFailure)
  /\ pc \notin Over => ~verdict.given
  /\ pc \in {"closing", "archiving"} => (verdict.failed <=> ownFailure)

Accounts == Agreement /\ FlagIsTrue /\ FailedAloneIsBehind /\ EarnedIsOwn

\* The accounts agree before the first unit.
LEMMA InitAccounts == Init => Accounts
<1> SUFFICES ASSUME Init PROVE Accounts
  OBVIOUS
<1>1. unstarted = {} /\ Cardinality({}) = 0
  BY FS_EmptySet DEF Init, unstarted
<1> QED
  BY <1>1, RunAssumption
     DEF Init, Accounts, Agreement, AgreedBehind, LeftAtItsEnd, InstanceUnitsRun, FlagIsTrue,
         FailedAloneIsBehind, EarnedIsOwn, ownFailure, looped, Plan, Early, Running, Deciding,
         Reported, Over, NoVerdict

\* The screen and the manifest.
LEMMA NextAgreement ==
  ASSUME IInv, Agreement, Next
  PROVE  Agreement'
<1> USE RunAssumption DEF IInv, TypeOK, TypeLoop, TypeRecord, Plan, Control, LoopPosition,
        AheadIsPending, OutcomeIsFiled, Agreement, AgreedBehind, LeftAtItsEnd, InstanceUnitsRun,
        agreed, interrupted, named, looped, Skips, Early, Running, Deciding, Reported, Over,
        ctxVars, unitVars, skipVars, sumVars, flagVars, endVars
<1>1. CASE Preamble
  BY <1>1 DEF Preamble, Configures, ConfigRefused, Reaches, ReachFails, Resolves, ListFails,
              SelectionRefused, Locks, BoundBeforeFolder, LockRefused, Prepares, PrepareRefused,
              Plans, beforeLoop, stoppedOr, refuse, finishWith
<1>2. CASE Environment
  BY <1>2 DEF Environment, Stop, BoundFires, WatchFires, CallExpires
<1>3. CASE Tail
  BY <1>3 DEF Tail, Settles, Writes, Archives, ArchiveFails
<1>4. CASE SkipUnit
  BY <1>4 DEF SkipUnit, skipBefore, heldBack, droppedBefore, tellsSkip, upNext
<1>5. CASE StartUnit \/ LoopEnds
  BY <1>5 DEF StartUnit, LoopEnds
<1>6. CASE runUnit
  BY <1>6 DEF runUnit, ResetSucceeds, ResetFails, QuerySucceeds, QueryFails, WriteSucceeds,
              WriteFails, UnitFails, aroundUnit
<1>7. CASE UnitEnded \/ Mends \/ Judges \/ NotShownDropped
  BY <1>7 DEF UnitEnded, Mends, Judges, NotShownDropped
<1>8. CASE MendFails
  BY <1>8 DEF MendFails, sessionLost, explained, break, refuse, finishWith
<1>9. CASE FoundDropped
  BY <1>9 DEF FoundDropped
<1>10. CASE ReportsSuccess
  BY <1>10 DEF ReportsSuccess, succeeded, toldOf
<1>11. CASE ReportsInterruption
  BY <1>11 DEF ReportsInterruption, succeeded, break
<1>12. CASE ReportsFailure
  BY <1>12 DEF ReportsFailure, succeeded
<1>13. CASE Onward \/ Pings \/ PingFails
  BY <1>13 DEF Onward, Pings, PingFails, break, continue, upNext
<1>14. CASE SessionRenewed \/ SessionNotRenewed
  BY <1>14 DEF SessionRenewed, SessionNotRenewed, sessionLost, explained, break, continue, upNext,
               refuse, finishWith
<1> QED
  BY <1>1, <1>2, <1>3, <1>4, <1>5, <1>6, <1>7, <1>8, <1>9, <1>10, <1>11, <1>12, <1>13, <1>14
     DEF Next, Run, Loop

\* A unit that has left nothing and is filed as something else than "not started"
\* leaves the count alone.
LEMMA UnstartedKept ==
  ASSUME IInv, NEW f, f # "notStarted", at \in Plan, filed[at] = "nothing" \/ filed[at] = "ok",
         filed' = [filed EXCEPT ![at] = f]
  PROVE  unstarted' = unstarted
BY DEF unstarted, IInv, TypeOK, TypeRecord

\* Every step keeps the flag of the bound true to what the bound skipped.
LEMMA NextFlag ==
  ASSUME IInv, FlagIsTrue, Next
  PROVE  FlagIsTrue'
<1> USE DEF IInv, TypeOK, TypeFlags, TypeLoop, TypeSums, FlagIsTrue, Control, LoopPosition,
            AheadIsPending, OutcomeIsFiled, Early, Running, Deciding, Reported, Over,
            ctxVars, unitVars, skipVars, sumVars, flagVars, endVars
<1>1. ASSUME UNCHANGED <<filed, maxDuration, stoppedByBound, notStarted>>,
             pc \notin {"filing", "returned"} \/ pc' \in {"filing", "returned"}
      PROVE  FlagIsTrue'
  BY <1>1 DEF unstarted
<1>2. CASE Preamble
  <2>1. CASE pc' = "filing"
    BY <2>1
  <2>2. CASE pc' # "filing"
    BY <1>1, <1>2, <2>2
       DEF Preamble, Configures, ConfigRefused, Reaches, ReachFails, Resolves, ListFails,
           SelectionRefused, Locks, BoundBeforeFolder, LockRefused, Prepares, PrepareRefused,
           Plans, beforeLoop, stoppedOr, refuse, finishWith
  <2> QED
    BY <2>1, <2>2
<1>3. CASE Environment
  BY <1>1, <1>3 DEF Environment, Stop, BoundFires, WatchFires, CallExpires
<1>4. CASE Tail
  BY <1>1, <1>4 DEF Tail, Settles, Writes, Archives, ArchiveFails
<1>5. CASE SkipUnit
  <2> DEFINE reason == skipBefore(at)
  <2>1. /\ filed' = [filed EXCEPT ![at] = reason] /\ at \in Plan /\ pc = "next" /\ pc' = "next"
        /\ maxDuration' = (maxDuration \/ reason = "notStarted")
        /\ notStarted' = (IF reason = "notStarted" THEN notStarted + 1 ELSE notStarted)
        /\ UNCHANGED stoppedByBound
    BY <1>5 DEF SkipUnit, flagsSkip
  <2>2. filed[at] = "nothing" /\ filed \in [Plan -> Filings]
    BY <2>1 DEF TypeRecord
  <2> HIDE DEF reason
  <2>3. CASE reason = "notStarted"
    <3>1. unstarted' = unstarted \cup {at} /\ at \notin unstarted
      BY <2>1, <2>2, <2>3 DEF unstarted
    <3>2. IsFiniteSet(unstarted)
      <4>1. IsFiniteSet(1..Units) /\ unstarted \subseteq 1..Units
        BY RunAssumption, FS_Interval DEF unstarted, Plan
      <4> QED
        BY <4>1, FS_Subset
    <3>3. Cardinality(unstarted') = Cardinality(unstarted) + 1
      BY <3>1, <3>2, FS_AddElement
    <3> QED
      BY <2>1, <2>3, <3>1, <3>3
  <2>4. CASE reason # "notStarted"
    <3>1. unstarted' = unstarted
      BY <2>1, <2>2, <2>4, UnstartedKept
    <3> QED
      BY <2>1, <2>4, <3>1
  <2> QED
    BY <2>3, <2>4
<1>6. CASE StartUnit \/ LoopEnds \/ UnitEnded \/ Mends \/ NotShownDropped \/ ReportsSuccess
           \/ ReportsInterruption \/ Onward \/ Pings \/ PingFails \/ SessionRenewed
  BY <1>1, <1>6 DEF StartUnit, LoopEnds, UnitEnded, Mends, NotShownDropped, ReportsSuccess,
                    ReportsInterruption, Onward, Pings, PingFails, SessionRenewed, break, continue
<1>7. CASE ResetSucceeds \/ ResetFails \/ QuerySucceeds \/ QueryFails \/ WriteFails
  BY <1>1, <1>7 DEF ResetSucceeds, ResetFails, QuerySucceeds, QueryFails, WriteFails, UnitFails,
                    aroundUnit
<1>8. CASE WriteSucceeds
  <2>1. unstarted' = unstarted
    BY <1>8, UnstartedKept DEF WriteSucceeds
  <2> QED
    BY <1>8, <2>1 DEF WriteSucceeds, aroundUnit
<1>9. CASE MendFails \/ SessionNotRenewed
  BY <1>1, <1>9 DEF MendFails, SessionNotRenewed, sessionLost, explained, break, continue,
                    refuse, finishWith
<1>10. CASE Judges
  BY <1>10 DEF Judges, unstarted, CutIsPaid
<1>11. CASE FoundDropped
  <2>1. unstarted' = unstarted
    BY <1>11, UnstartedKept DEF FoundDropped
  <2> QED
    BY <1>11, <2>1 DEF FoundDropped
<1>12. CASE ReportsFailure
  <2>1. unstarted' = unstarted
    BY <1>12, UnstartedKept DEF ReportsFailure, succeeded
  <2> QED
    BY <1>12, <2>1 DEF ReportsFailure
<1> QED
  BY <1>2, <1>3, <1>4, <1>5, <1>6, <1>7, <1>8, <1>9, <1>10, <1>11, <1>12
     DEF Next, Run, Loop, runUnit

\* What the run is told to have earned.
LEMMA NextEarned ==
  ASSUME IInv, Agreement, FailedAloneIsBehind, EarnedIsOwn, Next
  PROVE  (FailedAloneIsBehind /\ EarnedIsOwn)'
<1> USE RunAssumption
        DEF IInv, TypeOK, TypeFlags, TypeLoop, TypeSets, TypeSums, TypeRecord, Plan, Control,
            LoopPosition, OutcomeIsFiled, Agreement, AgreedBehind, agreed,
            FailedAloneIsBehind, EarnedIsOwn, Early, Running, Deciding, Reported, Over,
            ctxVars, unitVars, skipVars, sumVars, flagVars, endVars
<1>0. ASSUME UNCHANGED <<failedAlone, told, runError>>
      PROVE  ownFailure' <=> ownFailure
  BY <1>0 DEF ownFailure
<1>00. ASSUME UNCHANGED <<failedAlone, told, runError, earned, verdict>>,
              pc' \in Early => pc \in Early, pc \in Over => pc' \in Over,
              pc \in {"filing", "returned"} => pc' \in {"filing", "returned"},
              pc' \in {"closing", "archiving"} => pc \in {"closing", "archiving"}
       PROVE  EarnedIsOwn'
  BY <1>0, <1>00
<1>01. ASSUME UNCHANGED failedAlone, pc' \notin Deciding \/ (pc \in Deciding /\ UNCHANGED <<out, cut>>)
              \/ (pc' = "ended" /\ out' = "ok"),
              \/ at' = at /\ (pc' \in Early \cup Running \cup {"next"} => pc \in Early \cup Running \cup {"next"})
              \/ at' = at + 1 /\ at \in Plan /\ pc' \notin Deciding
       PROVE  FailedAloneIsBehind'
  <2>1. \A u \in failedAlone' : u < at' \/ (u = at' /\ pc' \notin Early \cup Running \cup {"next"})
    BY <1>01
  <2>2. pc' \in Deciding /\ out' \notin {"ok", "dropped"} => (at' \in failedAlone' <=> ~cut')
    <3>1. pc' \in Deciding /\ out' \notin {"ok", "dropped"} =>
            pc \in Deciding /\ out \notin {"ok", "dropped"} /\ at' = at
      BY <1>01
    <3>2. pc' \in Deciding /\ out' \notin {"ok", "dropped"} => cut' = cut /\ failedAlone' = failedAlone
      BY <1>01
    <3> QED
      BY <3>1, <3>2
  <2> QED
    BY <2>1, <2>2
<1>1. CASE Preamble
  <2>1. pc \in Early /\ UNCHANGED <<at, told, failedAlone>>
    BY <1>1 DEF Preamble, Configures, ConfigRefused, Reaches, ReachFails, Resolves, ListFails,
                SelectionRefused, Locks, BoundBeforeFolder, LockRefused, Prepares, PrepareRefused,
                Plans, beforeLoop
  <2>2. (ownFailure <=> runError) /\ (ownFailure' <=> runError')
    BY <2>1 DEF ownFailure
  <2>3. CASE pc' = "filing"
    BY <2>1, <2>3
  <2>4. CASE Plans
    BY <2>1, <2>2, <2>4 DEF Plans, beforeLoop
  <2>5. CASE pc' # "filing" /\ ~Plans
    <3>1. UNCHANGED <<runError, earned, verdict>> /\ pc' \in Early
      BY <1>1, <2>5 DEF Preamble, Configures, ConfigRefused, Reaches, ReachFails, Resolves,
                ListFails, SelectionRefused, Locks, BoundBeforeFolder, LockRefused, Prepares,
                PrepareRefused, beforeLoop, stoppedOr, refuse, finishWith
    <3> QED
      BY <2>1, <2>2, <3>1
  <2> QED
    BY <2>3, <2>4, <2>5
<1>2. CASE Environment
  <2> USE <1>2 DEF Environment, Stop, BoundFires, WatchFires, CallExpires
  <2>1. EarnedIsOwn'
    <3>1. UNCHANGED <<failedAlone, told, runError, earned, verdict>> \/ pc' = "filing"
      OBVIOUS
    <3>2. CASE pc' = "filing"
      BY <3>2
    <3>3. CASE pc' # "filing"
      BY <1>00, <3>1, <3>3
    <3> QED
      BY <3>2, <3>3
  <2>2. FailedAloneIsBehind'
    BY <1>01
  <2> QED
    BY <2>1, <2>2
<1>3. CASE Settles
  <2>1. verdict'.failed = (earned # 0)
    BY <1>3 DEF Settles, Finished
  <2> QED
    BY <1>0, <1>3, <2>1 DEF Settles
<1>4. CASE Writes \/ Archives \/ ArchiveFails
  BY <1>0, <1>4, ZenonT(60) DEF Writes, Archives, ArchiveFails
<1>5. CASE SkipUnit
  <2>1. /\ at \in Plan /\ pc = "next" /\ pc' = "next" /\ at' = at + 1
        /\ told' = [told EXCEPT ![at] = "skipped"]
        /\ UNCHANGED <<failedAlone, runError, earned, verdict, out, cut>>
    BY <1>5 DEF SkipUnit, tellsSkip, upNext
  <2>2. ownFailure' <=> ownFailure
    BY <2>1 DEF ownFailure
  <2> QED
    BY <2>1, <2>2
<1>6. CASE StartUnit \/ LoopEnds \/ UnitEnded \/ Mends \/ Judges \/ NotShownDropped
  <2> USE <1>6 DEF StartUnit, LoopEnds, UnitEnded, Mends, Judges, NotShownDropped
  <2>1. EarnedIsOwn'
    <3>1. UNCHANGED <<failedAlone, told, runError, earned, verdict>> \/ pc' = "filing"
      OBVIOUS
    <3>2. CASE pc' = "filing"
      BY <3>2
    <3>3. CASE pc' # "filing"
      BY <1>00, <3>1, <3>3
    <3> QED
      BY <3>2, <3>3
  <2>2. FailedAloneIsBehind'
    BY <1>01
  <2> QED
    BY <2>1, <2>2
<1>7. CASE ResetSucceeds \/ QuerySucceeds \/ WriteSucceeds
  <2> USE <1>7 DEF ResetSucceeds, QuerySucceeds, WriteSucceeds, aroundUnit
  <2>1. EarnedIsOwn'
    <3>1. UNCHANGED <<failedAlone, told, runError, earned, verdict>> \/ pc' = "filing"
      OBVIOUS
    <3>2. CASE pc' = "filing"
      BY <3>2
    <3>3. CASE pc' # "filing"
      BY <1>00, <3>1, <3>3
    <3> QED
      BY <3>2, <3>3
  <2>2. FailedAloneIsBehind'
    BY <1>01
  <2> QED
    BY <2>1, <2>2
<1>8. CASE ResetFails \/ QueryFails \/ WriteFails
  <2>1. PICK o, byBound : /\ out' = o /\ cut' = byBound /\ pc' = "ended"
                          /\ failedAlone' = IF byBound THEN failedAlone ELSE failedAlone \cup {at}
                          /\ UNCHANGED <<at, earned, runError, told, verdict>>
    <3>1. ASSUME NEW o, NEW byBound \in BOOLEAN, NEW lost, UnitFails(o, byBound, lost),
                 byBound = (pc # "writing" /\ cause = "bound" /\ ~late)
          PROVE  /\ out' = o /\ cut' = byBound /\ pc' = "ended"
                 /\ failedAlone' = IF byBound THEN failedAlone ELSE failedAlone \cup {at}
                 /\ UNCHANGED <<at, earned, runError, told, verdict>>
      BY <3>1 DEF UnitFails, aroundUnit
    <3> QED
      BY <1>8, <3>1 DEF ResetFails, QueryFails, WriteFails, endedByBound
  <2>2. told[at] = "nothing" /\ pc \in Running
    BY <1>8 DEF ResetFails, QueryFails, WriteFails
  <2>3. ownFailure' <=> ownFailure
    BY <2>1, <2>2 DEF ownFailure
  <2> QED
    BY <2>1, <2>2, <2>3
<1>9. CASE MendFails
  BY <1>0, <1>9 DEF MendFails, sessionLost, explained, break, refuse, finishWith
<1>10. CASE FoundDropped
  BY <1>0, <1>10 DEF FoundDropped
<1>11. CASE ReportsSuccess
  <2>1. /\ pc = "reporting" /\ pc' = "onward"
        /\ \E t \in {"done", "skipped"} : told' = [told EXCEPT ![at] = t]
        /\ UNCHANGED <<at, failedAlone, runError, earned, verdict, out, cut>>
    BY <1>11 DEF ReportsSuccess, toldOf
  <2>2. told[at] = "nothing"
    BY <2>1
  <2>3. ownFailure' <=> ownFailure
    BY <2>1, <2>2 DEF ownFailure
  <2> QED
    BY <2>1, <2>3
<1>12. CASE ReportsInterruption
  <2>1. /\ pc = "reporting" /\ pc' = "settling"
        /\ told' = [told EXCEPT ![at] = "done"]
        /\ UNCHANGED <<at, failedAlone, runError, earned, verdict, out, cut>>
    BY <1>12 DEF ReportsInterruption, break
  <2>2. told[at] = "nothing"
    BY <2>1
  <2>3. ownFailure' <=> ownFailure
    BY <2>1, <2>2 DEF ownFailure
  <2> QED
    BY <2>1, <2>3
<1>13. CASE ReportsFailure
  <2>1. /\ pc = "reporting" /\ pc' = "onward" /\ out \notin {"ok", "dropped"}
        /\ told' = [told EXCEPT ![at] = "error"]
        /\ earned' = (IF cut THEN earned ELSE 2)
        /\ UNCHANGED <<at, failedAlone, runError, verdict, out, cut>>
    BY <1>13 DEF ReportsFailure, succeeded
  <2>2. told[at] = "nothing" /\ (at \in failedAlone <=> ~cut) /\ at \in Plan
    BY <2>1
  <2>3. ownFailure' <=> ownFailure \/ ~cut
    BY <2>1, <2>2 DEF ownFailure
  <2> QED
    BY <2>1, <2>2, <2>3
<1>14. CASE Onward \/ Pings \/ PingFails
  <2> USE <1>14 DEF Onward, Pings, PingFails, break, continue, upNext
  <2>1. EarnedIsOwn'
    <3>1. UNCHANGED <<failedAlone, told, runError, earned, verdict>> \/ pc' = "filing"
      OBVIOUS
    <3>2. CASE pc' = "filing"
      BY <3>2
    <3>3. CASE pc' # "filing"
      BY <1>00, <3>1, <3>3
    <3> QED
      BY <3>2, <3>3
  <2>2. FailedAloneIsBehind'
    BY <1>01
  <2> QED
    BY <2>1, <2>2
<1>15. CASE SessionRenewed \/ SessionNotRenewed
  <2> USE <1>15 DEF SessionRenewed, SessionNotRenewed, sessionLost, explained, break,
             continue, upNext, refuse, finishWith
  <2>1. EarnedIsOwn'
    <3>1. UNCHANGED <<failedAlone, told, runError, earned, verdict>> \/ pc' = "filing"
      OBVIOUS
    <3>2. CASE pc' = "filing"
      BY <3>2
    <3>3. CASE pc' # "filing"
      BY <1>00, <3>1, <3>3
    <3> QED
      BY <3>2, <3>3
  <2>2. FailedAloneIsBehind'
    BY <1>01
  <2> QED
    BY <2>1, <2>2
<1> QED
  BY <1>1, <1>2, <1>3, <1>4, <1>5, <1>6, <1>7, <1>8, <1>9, <1>10, <1>11, <1>12, <1>13, <1>14, <1>15
     DEF Next, Run, Loop, Tail, runUnit

\* A step that changes nothing keeps the accounts.
LEMMA AccountsStutter == ASSUME Accounts, UNCHANGED vars PROVE Accounts'
<1>1. unstarted' = unstarted
  BY DEF unstarted, vars
<1> QED
  BY <1>1 DEF vars, ctxVars, unitVars, skipVars, sumVars, flagVars, endVars, Accounts, Agreement,
              AgreedBehind, agreed, interrupted, LeftAtItsEnd, looped, InstanceUnitsRun, FlagIsTrue,
              FailedAloneIsBehind, EarnedIsOwn, ownFailure

\* The inductive invariants give the property the runs check.
LEMMA AccountsSuffice == IInv /\ Accounts => AccountsAgree
<1> SUFFICES ASSUME IInv, Accounts PROVE AccountsAgree
  OBVIOUS
<1> USE RunAssumption
        DEF IInv, Control, AheadIsPending, Accounts, Agreement, AgreedBehind, agreed,
            interrupted, LeftAtItsEnd, looped, Plan, Over, Reported, Skips
<1>1. at \in Nat /\ at >= 1 /\ Units \in Nat
  BY DEF TypeOK, TypeLoop
<1>2. ScreenAgreesWithManifest
  <2> SUFFICES ASSUME looped, NEW u \in Plan
               PROVE  \/ agreed(u)
                      \/ cancelled /\ interrupted(u)
    BY DEF ScreenAgreesWithManifest
  <2>1. CASE u < at
    BY <2>1
  <2>2. CASE u = at
    BY <2>2
  <2>3. CASE u > at
    BY <1>1, <2>3
  <2> QED
    BY <1>1, <2>1, <2>2, <2>3
<1>3. SilentUnitMeansStopped
  BY <1>2 DEF SilentUnitMeansStopped, ScreenAgreesWithManifest
<1>4. GaugeReachesTotal
  BY <1>2 DEF GaugeReachesTotal, ScreenAgreesWithManifest
<1>5. BoundFlagIsTrue
  BY DEF BoundFlagIsTrue, FlagIsTrue, unstarted
<1>6. VerdictFailedIsOwn
  BY DEF VerdictFailedIsOwn, EarnedIsOwn, ownFailure
<1> QED
  BY <1>2, <1>3, <1>4, <1>5, <1>6 DEF AccountsAgree

\* One run's accounts agree: whichever of the stop, the bound and the watch met,
\* the manifest, the screen, the gauge and the verdict tell the same story.
THEOREM AccountsAgreed == Spec => []AccountsAgree
<1>1. IInv /\ Accounts /\ [Next]_vars => Accounts'
  BY NextAgreement, NextFlag, NextEarned, AccountsStutter DEF Accounts
<1> QED
  BY <1>1, InitAccounts, AccountsSuffice, Invariance, PTL DEF Spec

\* Where the bound found the run: not past the lock, the run never gets there; and
\* the unit it found running is the last that is tried.
FoundWhere ==
  boundReached =>
    /\ ~found.locked => pc \in Unlocked \cup {"filing", "returned"}
                          /\ previous \in {"none", "inPlace"}
    /\ pc \in Running \cup Deciding \cup Reported => at <= found.unit
    /\ \A u \in Plan : u > found.unit => filed[u] \in Skips \cup {"nothing"}

\* A run that was given no time at all starts nowhere.
LEMMA InitFound == Init => FoundWhere
  BY DEF Init, FoundWhere, boundReached

\* When the bound passes, the units ahead of the loop have nothing filed.
LEMMA BoundFinds ==
  ASSUME IInv, FoundWhere, BoundFires
  PROVE  FoundWhere'
<1> USE RunAssumption DEF IInv, Control, TypeOK, TypeLoop, TypeRecord, AheadIsPending, LoopPosition,
        DiscardComesLast, BoundFires, Plan, Early, Running, Deciding, Reported, Unlocked, Over
<1>1. at \in Nat /\ at >= 1
  OBVIOUS
<1>2. found'.unit = IF pc \in Unlocked \cup {"preparing", "planning", "next"} THEN at - 1 ELSE at
  OBVIOUS
<1>3. found'.locked = (pc \notin Unlocked)
  OBVIOUS
<1>4. \A u \in Plan : u > found'.unit => filed[u] = "nothing"
  BY <1>1, <1>2
<1>5. pc \in Running \cup Deciding \cup Reported => at <= found'.unit
  BY <1>1, <1>2
<1>6. pc \in Unlocked => previous \in {"none", "inPlace"}
  OBVIOUS
<1> QED
  BY <1>3, <1>4, <1>5, <1>6 DEF FoundWhere

\* From then on the run tries no other unit, and takes no lock it does not hold.
LEMMA NextFound ==
  ASSUME IInv, FoundWhere, Next
  PROVE  FoundWhere'
<1> USE DEF ctxVars, unitVars, skipVars, sumVars, flagVars, endVars
<1>1. CASE BoundFires
  BY <1>1, BoundFinds
<1>2. CASE ~BoundFires /\ ~boundReached
  <2>1. UNCHANGED bound \/ bound' = "stop"
    BY <1>2 DEF Next, Run, Preamble, Loop, Tail, runUnit, Configures, ConfigRefused, Reaches,
           ReachFails, Resolves, ListFails, SelectionRefused, Locks, BoundBeforeFolder,
           LockRefused, Prepares, PrepareRefused, Plans, SkipUnit, StartUnit, LoopEnds, ResetSucceeds,
           ResetFails, QuerySucceeds, QueryFails, WriteSucceeds, WriteFails, UnitEnded, Mends,
           MendFails, Judges, FoundDropped, NotShownDropped, ReportsSuccess,
           ReportsInterruption, ReportsFailure, Onward, Pings, PingFails, SessionRenewed,
           SessionNotRenewed, Settles, Writes, Archives, ArchiveFails, Stop,
           Environment, WatchFires, CallExpires, beforeLoop, aroundUnit, UnitFails
  <2> QED
    BY <1>2, <2>1 DEF FoundWhere, boundReached
<1>3. CASE boundReached /\ ~BoundFires
  <2> USE <1>3 DEF boundReached, FoundWhere
  <2>1. CASE Preamble
    <3> USE <2>1 DEF Preamble, Configures, ConfigRefused, Reaches, ReachFails, Resolves, ListFails,
                SelectionRefused, Locks, BoundBeforeFolder, LockRefused, Prepares, PrepareRefused,
                Plans, beforeLoop, stoppedOr, refuse, finishWith, asksBoundFirst, Unlocked
    <3>1. UNCHANGED <<found, at, filed, bound>>
      OBVIOUS
    <3>2. pc' \notin Running \cup Deciding \cup Reported
      BY DEF Running, Deciding, Reported
    <3>3. ~found.locked => pc' \in Unlocked \cup {"filing", "returned"} /\ UNCHANGED previous
      OBVIOUS
    <3> QED
      BY ONLY <3>1, <3>2, <3>3, FoundWhere, bound = "bound" DEF FoundWhere, boundReached
  <2>2. CASE Environment
    BY <2>2 DEF Environment, Stop, WatchFires, CallExpires
  <2>3. CASE Tail
    BY <2>3 DEF Tail, Settles, Writes, Archives, ArchiveFails, discards, Unlocked, Running,
                Deciding, Reported
  <2>4. CASE SkipUnit \/ StartUnit \/ LoopEnds
    <3>1. ~StartUnit
      BY DEF StartUnit, skipBefore
    <3>2. SkipUnit => skipBefore(at) \in Skips /\ filed' = [filed EXCEPT ![at] = skipBefore(at)]
      BY DEF SkipUnit, skipBefore, Skips
    <3>3. filed \in [Plan -> Filings]
      BY DEF IInv, TypeOK, TypeRecord
    <3>4. pc' \in {"next", "settling"} /\ UNCHANGED <<found, bound, previous>> /\ found.locked
      BY <2>4, <3>1 DEF SkipUnit, LoopEnds, Unlocked
    <3>5. \A u \in Plan : u > found.unit => filed'[u] \in Skips \cup {"nothing"}
      BY <2>4, <3>1, <3>2, <3>3 DEF LoopEnds
    <3> QED
      BY <3>4, <3>5 DEF Running, Deciding, Reported
  <2>5. CASE runUnit
    <3>1. UNCHANGED <<found, at, bound, previous>> /\ pc \in Running /\ pc' \in Running \cup Deciding
      BY <2>5 DEF runUnit, ResetSucceeds, ResetFails, QuerySucceeds, QueryFails, WriteSucceeds,
                  WriteFails, UnitFails, aroundUnit, Running, Deciding
    <3>2. at <= found.unit /\ found.locked
      BY <3>1 DEF Running, Unlocked
    <3>3. filed' = [filed EXCEPT ![at] = "ok"] \/ UNCHANGED filed
      BY <2>5 DEF runUnit, ResetSucceeds, ResetFails, QuerySucceeds, QueryFails, WriteSucceeds,
                  WriteFails, UnitFails
    <3>4. \A u \in Plan : u > found.unit => filed'[u] = filed[u]
      <4> SUFFICES ASSUME NEW u \in Plan, u > found.unit PROVE filed'[u] = filed[u]
        OBVIOUS
      <4>1. u # at
        BY <3>2, RunAssumption DEF IInv, TypeOK, TypeLoop, Plan
      <4> QED
        BY <3>3, <4>1 DEF IInv, TypeOK, TypeRecord
    <3> QED
      BY <3>1, <3>2, <3>4
  <2>6. CASE \/ UnitEnded \/ Mends \/ MendFails \/ Judges \/ FoundDropped \/ NotShownDropped
             \/ ReportsSuccess \/ ReportsInterruption \/ ReportsFailure
             \/ Onward \/ Pings \/ PingFails \/ SessionRenewed \/ SessionNotRenewed
    <3> USE DEF UnitEnded, Mends, MendFails, Judges, FoundDropped, NotShownDropped, ReportsSuccess,
                ReportsInterruption, ReportsFailure, Onward, Pings, PingFails, SessionRenewed,
                SessionNotRenewed, sessionLost, explained, break, continue, refuse, finishWith
    <3>1. /\ UNCHANGED <<found, bound, previous>> /\ pc \in Deciding \cup Reported
          /\ \/ UNCHANGED at
             \/ pc' = "next"
          /\ pc' \in Deciding \cup Reported \cup {"next", "settling", "filing"}
      BY <2>6 DEF Deciding, Reported
    <3>2. at <= found.unit /\ found.locked
      BY <3>1 DEF Deciding, Reported, Unlocked
    <3>3. filed' = [filed EXCEPT ![at] = "error"] \/ UNCHANGED filed
      BY <2>6
    <3>4. \A u \in Plan : u > found.unit => filed'[u] = filed[u]
      <4> SUFFICES ASSUME NEW u \in Plan, u > found.unit PROVE filed'[u] = filed[u]
        OBVIOUS
      <4>1. u # at
        BY <3>2, RunAssumption DEF IInv, TypeOK, TypeLoop, Plan
      <4> QED
        BY <3>3, <4>1 DEF IInv, TypeOK, TypeRecord
    <3>5. pc' \in Running \cup Deciding \cup Reported => UNCHANGED at
      BY <3>1 DEF Running, Deciding, Reported
    <3> QED
      BY ONLY <3>1, <3>2, <3>4, <3>5, FoundWhere, bound = "bound" DEF FoundWhere, boundReached
  <2> QED
    BY <1>3, <2>1, <2>2, <2>3, <2>4, <2>5, <2>6 DEF Next, Run, Loop
<1> QED
  BY <1>1, <1>2, <1>3

\* Nor is anything found by a stutter.
LEMMA StutterFound == ASSUME FoundWhere, UNCHANGED vars PROVE FoundWhere'
  BY DEF FoundWhere, boundReached, vars, ctxVars, unitVars, skipVars, sumVars, flagVars, endVars

\* The bound costs the run only what it found under way: the previous run stays in
\* place when the lock was still to be taken, and no later unit is tried.
THEOREM BoundCosts == Spec => []BoundCostsWhatRuns
<1>1. IInv /\ FoundWhere /\ [Next]_vars => FoundWhere'
  BY NextFound, StutterFound
<1>2. FoundWhere => BoundCostsWhatRuns
  BY DEF FoundWhere, BoundCostsWhatRuns
<1> QED
  BY <1>1, <1>2, InitFound, Invariance, PTL DEF Spec

\* A unit still running when the operator stopped the run is not written as an
\* error; and once the stop or the bound has come, no call that fails ends the run
\* with code 1, the server's.  (A unit the bound cut is an error entry.)
THEOREM StopIsNoOnesFault == Spec => StopIsNoFailure
<1> DEFINE NoFault ==
             /\ \A u \in Plan : filed[u] # "error" /\ filed'[u] = "error" => ~ctxDead
             /\ pc \notin {"configuring", "filing"} /\ pc' = "filing" /\ code' = 1
                  => ~ctxDead /\ ~boundReached
<1>1. IInv /\ Next => NoFault
  <2> SUFFICES ASSUME IInv, Next PROVE NoFault
    OBVIOUS
  <2> USE DEF ctxVars, unitVars, skipVars, sumVars, flagVars, endVars
  <2>1. CASE Preamble
    BY <2>1 DEF Preamble, Configures, ConfigRefused, Reaches, ReachFails, Resolves, ListFails,
                SelectionRefused, Locks, BoundBeforeFolder, LockRefused, Prepares, PrepareRefused,
                Plans, beforeLoop, stoppedOr, refuse, finishWith
  <2>2. CASE Environment
    BY <2>2 DEF Environment, Stop, BoundFires, WatchFires, CallExpires
  <2>3. CASE Tail
    BY <2>3 DEF Tail, Settles, Writes, Archives, ArchiveFails
  <2>4. CASE SkipUnit \/ StartUnit \/ LoopEnds
    <3>1. SkipUnit => skipBefore(at) # "error" /\ filed' = [filed EXCEPT ![at] = skipBefore(at)]
      BY DEF SkipUnit, skipBefore
    <3>2. filed \in [Plan -> Filings]
      BY DEF IInv, TypeOK, TypeRecord
    <3> QED
      BY <2>4, <3>1, <3>2 DEF SkipUnit, StartUnit, LoopEnds
  <2>5. CASE runUnit
    BY <2>5 DEF runUnit, ResetSucceeds, ResetFails, QuerySucceeds, QueryFails, WriteSucceeds,
                WriteFails, UnitFails, aroundUnit, IInv, TypeOK, TypeRecord
  <2>6. CASE UnitEnded \/ Mends \/ MendFails \/ Judges \/ FoundDropped \/ NotShownDropped
    BY <2>6 DEF UnitEnded, Mends, MendFails, Judges, FoundDropped, NotShownDropped, sessionLost,
                explained, break, continue, refuse, finishWith, IInv, TypeOK, TypeRecord
  <2>7. CASE ReportsSuccess \/ ReportsInterruption \/ ReportsFailure
    BY <2>7 DEF ReportsSuccess, ReportsInterruption, ReportsFailure, break, outranks
  <2>8. CASE Onward \/ Pings \/ PingFails \/ SessionRenewed \/ SessionNotRenewed
    BY <2>8 DEF Onward, Pings, PingFails, SessionRenewed, SessionNotRenewed, sessionLost,
                explained, break, continue, refuse, finishWith
  <2> QED
    BY <2>1, <2>2, <2>3, <2>4, <2>5, <2>6, <2>7, <2>8 DEF Next, Run, Loop
<1>2. IInv /\ [Next]_vars => [NoFault]_vars
  BY <1>1
<1> QED
  BY <1>2, Invariance, PTL DEF Spec, StopIsNoFailure

=============================================================================
