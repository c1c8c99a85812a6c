------------------------- MODULE BlockingWatchProofs -------------------------
(***************************************************************************)
(* Proofs about the blocking watch, for every number of sessions, units,   *)
(* session ids and retries.  The inductive invariant relates the three     *)
(* views of "which unit": the run loop's phase, the watch's armed fields   *)
(* and the goroutine's locals, which were read in an earlier critical      *)
(* section and may be stale.                                               *)
(***************************************************************************)
EXTENDS BlockingWatch, FiniteSetTheorems, SequenceTheorems, WellFoundedInduction, TLAPS

\* A unit is armed only while the run loop is inside it, and never once the
\* watch is being closed.
ArmedInside ==
  /\ armed => phase \in Inside
  /\ quit => phase \in {"closing", "closed"}

\* A sample waiting to be used was read on the session the goroutine asked about.
SampleFromAsked == gpc \in {"answered", "identifying"} /\ seen(sample) => sample.about = gspid

\* The watch is never the cause of the bound's context.
BoundCauseIsNotTheWatch == runCause \in {"none", "bound", "stop"}

\* Until the goroutine is started, the main goroutine is in firstPoll.
FirstPollFirst == phase = "starting" => gpc \in {"polling", "pausing"} /\ ~armed

\* An identity query in flight is about a session the last sample saw.
AsksAboutASession == gpc = "identifying" => seen(sample)

\* The session an identity query in flight is about is not on record yet: the
\* query is the only one of the armed unit that has left no record, and a unit
\* armed after it was sent has sent none.
QueriesAreRecorded ==
  /\ gpc = "identifying" => sample.session \notin known
  /\ armed /\ gpc # "identifying" => queries <= Cardinality(known)
  /\ armed /\ gpc = "identifying" =>
       queries = 0 \/ (queries <= Cardinality(known) + 1 /\ wspid = gspid)

\* What failed since the last answer is what retry has counted, until it gives up.
FailuresAreCounted ==
  /\ gpc \in {"idle", "answered", "identifying"} => failures = 0
  /\ gpc \in {"polling", "pausing"} => failures = attempt
  /\ gpc = "givingUp" => failures = Retries + 1 /\ failedLive
  /\ stopped => gpc = "done"

IInv ==
  /\ TypeOK /\ AsksAboutASession /\ BoundCauseIsNotTheWatch /\ ArmedInside /\ SampleFromAsked /\ FirstPollFirst
  /\ CreditedToItsSession /\ DeadWatchIsReported
  /\ QueriesAreRecorded /\ IdentifyIsBounded
  /\ FailuresAreCounted /\ BlameIsEarned

---------------------------------------------------------------------------
(* Type correctness *)

\* The empty sample is a sample.
LEMMA NoSampleType == NoSample \in Samples
  BY WatchAssumption DEF NoSample, Samples

\* The records are kept for finitely many sessions, so they can be counted.
LEMMA KnownIsFinite == TypeOK => IsFiniteSet(known) /\ Cardinality(known) \in Nat
<1> SUFFICES ASSUME TypeOK PROVE IsFiniteSet(known) /\ Cardinality(known) \in Nat
  OBVIOUS
<1>1. IsFiniteSet(known)
  BY WatchAssumption, FS_Subset DEF TypeOK, TypeRecords
<1> QED
  BY <1>1, FS_CardinalityType

\* The list stays a list: a wait is appended, takes a place, or is counted.
LEMMA ListedType ==
  ASSUME blockedWaits \in Lists, worst \in Samples, NEW b \in BOOLEAN
  PROVE  listed(b) \in Lists
<1> DEFINE wait == [waited |-> worst.waited, cancelled |-> b]
           l == IF seen(worst) THEN AddBlockedWait(blockedWaits, wait) ELSE blockedWaits
<1>1. wait \in Waits
  BY WatchAssumption DEF Samples, Waits
<1> HIDE DEF wait
<1>2. kept(blockedWaits.items, wait) \in Seq(Waits)
  <2> DEFINE items == blockedWaits.items
  <2>1. items \in Seq(Waits)
    BY DEF Lists
  <2> HIDE DEF items
  <2>2. ASSUME NEW i PROVE [items EXCEPT ![i] = wait] \in Seq(Waits)
    <3>1. CASE i \in 1..Len(items)
      BY <1>1, <2>1, <3>1, ExceptSeq
    <3>2. CASE i \notin 1..Len(items)
      <4>1. DOMAIN items = 1..Len(items)
        BY <2>1
      <4>2. [items EXCEPT ![i] = wait] = items
        BY <2>1, <3>2, <4>1
      <4> QED
        BY <2>1, <4>2
    <3> QED
      BY <3>1, <3>2
  <2>3. kept(items, wait) \in Seq(Waits)
    BY <2>1, <2>2 DEF kept
  <2> QED
    BY <2>3 DEF items
<1>3. AddBlockedWait(blockedWaits, wait) \in Lists
  <2>1. Append(blockedWaits.items, wait) \in Seq(Waits)
    BY <1>1, AppendProperties DEF Lists
  <2>2. \A s \in Seq(Waits) :
          /\ [blockedWaits EXCEPT !.items = s] \in Lists
          /\ [items |-> s, omitted |-> blockedWaits.omitted + 1, cancelled |-> blockedWaits.cancelled]
               \in Lists
    <3> DEFINE S == Seq(Waits)
    <3>1. blockedWaits \in [items : S, omitted : Nat, cancelled : Nat]
      BY DEF Lists
    <3> HIDE DEF S
    <3>2. \A s \in S :
            /\ [blockedWaits EXCEPT !.items = s] \in [items : S, omitted : Nat, cancelled : Nat]
            /\ [items |-> s, omitted |-> blockedWaits.omitted + 1, cancelled |-> blockedWaits.cancelled]
                 \in [items : S, omitted : Nat, cancelled : Nat]
      BY <3>1
    <3> QED
      BY <3>2 DEF Lists, S
  <2> QED
    BY <1>2, <2>1, <2>2 DEF AddBlockedWait
<1>4. l \in Lists
  BY <1>3
<1>5. listed(b) = IF b THEN [l EXCEPT !.cancelled = @ + 1] ELSE l
  BY DEF listed, wait
<1> HIDE DEF l
<1> QED
  BY <1>4, <1>5 DEF Lists

\* The empty report is a report.
LEMMA NoReportType == NoReport \in Reports
  BY NoSampleType, WatchAssumption DEF NoReport, Reports, Statuses, Accounts

\* The initial state is typed.
LEMMA InitType == Init => TypeOK
<1> SUFFICES ASSUME Init PROVE TypeOK
  OBVIOUS
<1>1. NoRecords \in [{} -> Statuses] /\ DOMAIN NoRecords = {}
  BY DEF NoRecords
<1>2. NoReport \in Reports
  BY NoReportType
<1> USE WatchAssumption DEF Init, Phases, Inside, Places, Causes, NoWaits, known
<1>8. TypeFlags
  BY DEF TypeFlags
<1>3. TypeRunLoop
  BY <1>1, <1>2, NoSampleType DEF TypeRunLoop, Inside
<1>4. TypeFields
  BY <1>1, <1>2, NoSampleType DEF TypeFields
<1>5. TypeRecords
  BY <1>1, <1>2, NoSampleType DEF TypeRecords
<1>6. TypeGoroutine
  BY <1>1, <1>2, NoSampleType DEF TypeGoroutine
<1>7. TypeHistory
  <2>1. [items |-> <<>>, omitted |-> 0, cancelled |-> 0] \in Lists
    BY DEF Lists
  <2> QED
    BY <1>1, <1>2, <2>1, NoSampleType DEF TypeHistory
<1> QED
  BY <1>3, <1>4, <1>5, <1>6, <1>7, <1>8 DEF TypeOK

\* The run loop's steps keep every variable in its type.
LEMMA RunLoopType == TypeOK /\ RunLoop => TypeOK'
<1> SUFFICES ASSUME TypeOK, RunLoop PROVE TypeOK'
  OBVIOUS
<1> USE WatchAssumption DEF TypeOK, TypeFlags, TypeRunLoop, TypeFields, TypeRecords, TypeGoroutine, TypeHistory,
        Phases, Inside, Places, Causes, known,
        runVars, ctxVars, fields, ending, goVars, tailVars, reports
<1>7. NoWaits \in [Sessions -> 0..MaxWait]
  BY DEF NoWaits
<1>1. CASE Arm
  <2>1. NoRecords \in [{} -> Statuses] /\ DOMAIN NoRecords = {}
    BY DEF NoRecords
  <2>10. TypeFlags'
    <3>1. armed' \in BOOLEAN /\ fired' \in BOOLEAN
      BY <1>1 DEF Arm
    <3>2. UNCHANGED <<ctxDead, stopped, recovered, quit, gap, failedLive, cut, blocked, excused, reached>>
      BY <1>1 DEF Arm
    <3> QED
      BY <3>1, <3>2
  <2>5. TypeRunLoop'
    BY <1>1, <1>7, <2>1, NoSampleType, SMTT(30) DEF Arm
  <2>6. TypeFields'
    BY <1>1, <1>7, <2>1, NoSampleType DEF Arm
  <2>7. TypeRecords'
    BY <1>1, <1>7, <2>1, NoSampleType DEF Arm
  <2>8. TypeGoroutine'
    BY <1>1, <1>7, <2>1, NoSampleType DEF Arm
  <2>9. TypeHistory'
    BY <1>1, <1>7, <2>1, NoSampleType, NoReportType, SMTT(30) DEF Arm
  <2> QED
    BY <2>10, <2>5, <2>6, <2>7, <2>8, <2>9
<1>2. CASE RowsRead
  BY <1>2, <1>7 DEF RowsRead, leave
<1>3. CASE Disarm
  <2>1. incidentStatus \in Statuses
    BY DEF incidentStatus, Statuses
  <2>2. recordWatchOutcome(blocked, cut) \in Accounts
    BY DEF recordWatchOutcome, Accounts
  <2>3. Cardinality(known) \in Nat
    BY KnownIsFinite
  <2>12. (phase = "leaving") \in BOOLEAN
    OBVIOUS
  <2>4. last' \in Reports
    BY <1>3, <2>1, <2>2, <2>3, <2>12 DEF Disarm, Reports
  <2>11. blockedWaits' \in Lists
    BY <1>3, ListedType DEF Disarm
  <2>10. TypeFlags'
    BY <1>3, <1>7, <2>4 DEF Disarm, disarm, leave
  <2>5. TypeRunLoop'
    BY <1>3, <1>7, <2>4 DEF Disarm, disarm, leave
  <2>6. TypeFields'
    BY <1>3, <1>7, <2>4 DEF Disarm, disarm, leave
  <2>7. TypeRecords'
    BY <1>3, <1>7, <2>4 DEF Disarm, disarm, leave
  <2>8. TypeGoroutine'
    BY <1>3, <1>7, <2>4 DEF Disarm, disarm, leave
  <2>9. TypeHistory'
    BY <1>3, <1>7, <2>4, <2>11 DEF Disarm, disarm, leave
  <2> QED
    BY <2>10, <2>5, <2>6, <2>7, <2>8, <2>9
<1>4. ASSUME NEW n \in 0..Spids, Recycle(n) PROVE TypeOK'
  BY <1>4, <1>7 DEF Recycle
<1>5. CASE Close
  BY <1>5 DEF Close, closesQuit
<1>6. CASE Closed
  BY <1>6 DEF Closed
<1>8. CASE CallFails
  <2>1. /\ cut' \in BOOLEAN /\ reached' \in BOOLEAN /\ excused' \in BOOLEAN
        /\ UNCHANGED <<unit, spid, blocked, ctxVars, waits, fields, quit, reports, goVars, tailVars>>
        /\ phase' = "failing"
    BY <1>8 DEF CallFails
  <2> QED
    BY <2>1
<1>9. CASE AsksCause
  <2>1. /\ blocked' \in BOOLEAN /\ waits' \in [Sessions -> 0..MaxWait] /\ phase' = "failed"
        /\ UNCHANGED <<unit, spid, cut, excused, reached, ctxVars, fields, quit, reports, goVars, tailVars>>
    BY <1>7, <1>9 DEF AsksCause, blockedOr, leave
  <2> QED
    BY <2>1
<1> QED
  BY <1>1, <1>2, <1>3, <1>4, <1>5, <1>6, <1>8, <1>9 DEF RunLoop

\* So do the steps of the operator, the clock and the server's sessions.
LEMMA EnvironmentType == TypeOK /\ Environment => TypeOK'
<1> SUFFICES ASSUME TypeOK, Environment PROVE TypeOK'
  OBVIOUS
<1> USE WatchAssumption DEF TypeOK, TypeFlags, TypeRunLoop, TypeFields, TypeRecords, TypeGoroutine, TypeHistory,
        Phases, Inside, Places, Causes, known,
        runVars, ctxVars, fields, ending, goVars, tailVars, reports
<1>1. CASE Stop
  BY <1>1 DEF Stop
<1>2. CASE BoundFires
  BY <1>2 DEF BoundFires
<1>3. ASSUME NEW s \in Sessions, WaitGrows(s) PROVE TypeOK'
  BY <1>3 DEF WaitGrows
<1>4. ASSUME NEW s \in Sessions, WaitEnds(s) PROVE TypeOK'
  BY <1>4 DEF WaitEnds
<1> QED
  BY <1>1, <1>2, <1>3, <1>4 DEF Environment

\* And the goroutine's.
LEMMA GoroutineType == TypeOK /\ AsksAboutASession /\ Goroutine => TypeOK'
<1> SUFFICES ASSUME TypeOK, AsksAboutASession, Goroutine PROVE TypeOK'
  OBVIOUS
<1> USE WatchAssumption DEF TypeOK, TypeFlags, TypeRunLoop, TypeFields, TypeRecords, TypeGoroutine, TypeHistory,
        Phases, Inside, Places, Causes, known,
        runVars, ctxVars, fields, ending, goVars, tailVars, reports
<1>1. CASE TickStarts
  BY <1>1 DEF TickStarts
<1>2. CASE LoopQuits
  BY <1>2 DEF LoopQuits
<1>3. CASE PollAnswers
  <2>1. sample' \in Samples
    BY <1>3, NoSampleType DEF PollAnswers
  <2>10. TypeFlags'
    BY <1>3, <2>1, ZenonT(60) DEF PollAnswers, recover
  <2>5. TypeRunLoop'
    BY <1>3, <2>1 DEF PollAnswers, recover
  <2>6. TypeFields'
    BY <1>3, <2>1 DEF PollAnswers, recover
  <2>7. TypeRecords'
    BY <1>3, <2>1 DEF PollAnswers, recover
  <2>8. TypeGoroutine'
    BY <1>3, <2>1 DEF PollAnswers, recover
  <2>9. TypeHistory'
    BY <1>3, <2>1 DEF PollAnswers, recover
  <2> QED
    BY <2>10, <2>5, <2>6, <2>7, <2>8, <2>9
<1>4. CASE PollFails
  <2>10. TypeFlags'
    BY <1>4 DEF PollFails, Fails, attemptsLeft, GiveUp, retryGivesUp
  <2>5. TypeRunLoop'
    BY <1>4 DEF PollFails, Fails, attemptsLeft, GiveUp, retryGivesUp
  <2>6. TypeFields'
    BY <1>4 DEF PollFails, Fails, attemptsLeft, GiveUp, retryGivesUp
  <2>7. TypeRecords'
    BY <1>4 DEF PollFails, Fails, attemptsLeft, GiveUp, retryGivesUp
  <2>8. TypeGoroutine'
    BY <1>4 DEF PollFails, Fails, attemptsLeft, GiveUp, retryGivesUp
  <2>9. TypeHistory'
    BY <1>4 DEF PollFails, Fails, attemptsLeft, GiveUp, retryGivesUp
  <2> QED
    BY <2>10, <2>5, <2>6, <2>7, <2>8, <2>9
<1>5. CASE FirstPollRefused
  BY <1>5 DEF FirstPollRefused
<1>6. CASE Reconnects
  BY <1>6 DEF Reconnects
<1>7. CASE ReconnectFails
  <2>10. TypeFlags'
    BY <1>7 DEF ReconnectFails, Fails, attemptsLeft, GiveUp, retryGivesUp
  <2>5. TypeRunLoop'
    BY <1>7 DEF ReconnectFails, Fails, attemptsLeft, GiveUp, retryGivesUp
  <2>6. TypeFields'
    BY <1>7 DEF ReconnectFails, Fails, attemptsLeft, GiveUp, retryGivesUp
  <2>7. TypeRecords'
    BY <1>7 DEF ReconnectFails, Fails, attemptsLeft, GiveUp, retryGivesUp
  <2>8. TypeGoroutine'
    BY <1>7 DEF ReconnectFails, Fails, attemptsLeft, GiveUp, retryGivesUp
  <2>9. TypeHistory'
    BY <1>7 DEF ReconnectFails, Fails, attemptsLeft, GiveUp, retryGivesUp
  <2> QED
    BY <2>10, <2>5, <2>6, <2>7, <2>8, <2>9
<1>8. CASE RetryIsQuiet
  BY <1>8 DEF RetryIsQuiet
<1>9. CASE SampleDropped
  BY <1>9 DEF SampleDropped
<1>10. CASE SampleUsed
  <2>1. sample.session \in Sessions
    BY <1>10 DEF SampleUsed, stillArmed, seen, Samples
  <2>2. known' \subseteq Sessions /\ waiters' \in [known' -> Statuses]
    BY <1>10, <2>1 DEF SampleUsed, Statuses
  <2>3. worst' \in Samples /\ queries' \in Nat /\ asked' \in SUBSET (0..Spids)
    BY <1>10, <2>1 DEF SampleUsed
  <2>4. /\ fired' \in BOOLEAN /\ cause' \in Causes
        /\ UNCHANGED <<runVars, ending, ctxDead, runCause, waits, armed, quit, tailVars>>
    BY <1>10 DEF SampleUsed
  <2>10. TypeFlags'
    BY <2>4
  <2>5. TypeRunLoop'
    BY <2>4
  <2>6. TypeFields'
    BY <1>10, <2>2, <2>3 DEF SampleUsed
  <2>7. TypeRecords'
    BY <1>10, <2>2, <2>3 DEF SampleUsed
  <2>8. TypeGoroutine'
    BY <1>10, <2>2, <2>3 DEF SampleUsed
  <2>9. TypeHistory'
    BY <1>10, <2>2, <2>3 DEF SampleUsed
  <2> QED
    BY <2>10, <2>5, <2>6, <2>7, <2>8, <2>9
<1>11. ASSUME NEW st \in Statuses \ {"not_attempted"}, Identifies(st) PROVE TypeOK'
  <2>1. sample.session \in Sessions
    BY <1>11 DEF Identifies, AsksAboutASession, seen, Samples
  <2>2. known' \subseteq Sessions /\ waiters' \in [known' -> Statuses]
    BY <1>11, <2>1 DEF Identifies
  <2> QED
    BY <1>11, <2>2 DEF Identifies
<1>12. CASE Stops
  BY <1>12 DEF Stops
<1> QED
  BY <1>1, <1>2, <1>3, <1>4, <1>5, <1>6, <1>7, <1>8, <1>9, <1>10, <1>11, <1>12 DEF Goroutine

---------------------------------------------------------------------------
(* The inductive invariant *)

\* The inductive invariant holds initially.
LEMMA InitInv == Init => IInv
<1> SUFFICES ASSUME Init PROVE IInv
  OBVIOUS
<1>1. Cardinality(known) \in Nat
  BY InitType, KnownIsFinite
<1> QED
  BY <1>1, InitType, WatchAssumption
     DEF Init, IInv, AsksAboutASession, BoundCauseIsNotTheWatch, ArmedInside, SampleFromAsked, FirstPollFirst,
         CreditedToItsSession, DeadWatchIsReported, QueriesAreRecorded, IdentifyIsBounded,
         FailuresAreCounted, BlameIsEarned, seen, NoSample

\* Everything but the count of the queries.
LEMMA NextControl ==
  ASSUME IInv, Next
  PROVE  (AsksAboutASession /\ BoundCauseIsNotTheWatch /\ ArmedInside /\ SampleFromAsked /\ FirstPollFirst
          /\ CreditedToItsSession /\ DeadWatchIsReported)'
<1> USE WatchAssumption
        DEF IInv, TypeOK, TypeFlags, TypeRunLoop, TypeFields, TypeRecords, TypeGoroutine, TypeHistory,
            AsksAboutASession, BoundCauseIsNotTheWatch, ArmedInside,
            SampleFromAsked, FirstPollFirst,
            CreditedToItsSession, DeadWatchIsReported, Phases, Inside, Places,
            seen, known, runVars, ctxVars, fields, ending, goVars, tailVars, reports
<1>1. CASE Arm
  BY <1>1 DEF Arm, NoSample
<1>2. CASE RowsRead
  BY <1>2 DEF RowsRead
<1>3. CASE Disarm
  BY <1>3 DEF Disarm, disarm
<1>4. ASSUME NEW n \in 0..Spids, Recycle(n)
      PROVE  (AsksAboutASession /\ BoundCauseIsNotTheWatch /\ ArmedInside /\ SampleFromAsked /\ FirstPollFirst
              /\ CreditedToItsSession /\ DeadWatchIsReported)'
  BY <1>4 DEF Recycle
<1>5. CASE Close
  BY <1>5 DEF Close, closesQuit
<1>6. CASE Closed
  BY <1>6 DEF Closed
<1>7. CASE Environment
  BY <1>7 DEF Environment, Stop, BoundFires, WaitGrows, WaitEnds
<1>8. CASE TickStarts
  BY <1>8 DEF TickStarts
<1>9. CASE LoopQuits
  BY <1>9 DEF LoopQuits
<1>10. CASE PollAnswers
  BY <1>10 DEF PollAnswers, longestWait, NoSample
<1>11. CASE PollFails
  BY <1>11 DEF PollFails, Fails, attemptsLeft, GiveUp, retryGivesUp
<1>12. CASE FirstPollRefused
  BY <1>12 DEF FirstPollRefused
<1>13. CASE Reconnects
  BY <1>13 DEF Reconnects
<1>19. CASE CallFails
  BY <1>19 DEF CallFails
<1>21. CASE AsksCause
  BY <1>21 DEF AsksCause
<1>20. CASE Stops
  BY <1>20 DEF Stops
<1>14. CASE ReconnectFails
  BY <1>14 DEF ReconnectFails, Fails, attemptsLeft, GiveUp, retryGivesUp
<1>15. CASE RetryIsQuiet
  BY <1>15 DEF RetryIsQuiet
<1>16. CASE SampleDropped
  BY <1>16 DEF SampleDropped
<1>17. CASE SampleUsed
  BY <1>17 DEF SampleUsed, stillArmed
<1>18. ASSUME NEW st \in Statuses \ {"not_attempted"}, Identifies(st)
       PROVE  (AsksAboutASession /\ BoundCauseIsNotTheWatch /\ ArmedInside /\ SampleFromAsked /\ FirstPollFirst
               /\ CreditedToItsSession /\ DeadWatchIsReported)'
  BY <1>18 DEF Identifies, identifyKept
<1> QED
  BY <1>1, <1>2, <1>3, <1>4, <1>5, <1>6, <1>7, <1>8, <1>9, <1>10, <1>11, <1>12, <1>13,
     <1>14, <1>15, <1>16, <1>17, <1>18, <1>19, <1>20, <1>21 DEF Next, RunLoop, Goroutine

\* Adding one record for a session not on record adds one to the count.
LEMMA OneMoreRecord ==
  ASSUME TypeOK, NEW s \in Sessions, s \notin known
  PROVE  Cardinality(known \cup {s}) = Cardinality(known) + 1
BY KnownIsFinite, FS_AddElement

\* The count of the queries: sent only when a record is missing and the bound is
\* not reached, and recorded however they end while the unit is armed.
LEMMA NextQueries ==
  ASSUME IInv, Next
  PROVE  (QueriesAreRecorded /\ IdentifyIsBounded)'
<1> USE WatchAssumption
        DEF IInv, TypeOK, TypeFlags, TypeRunLoop, TypeFields, TypeRecords, TypeGoroutine, TypeHistory,
            QueriesAreRecorded, IdentifyIsBounded, ArmedInside,
            FirstPollFirst, Places, runVars, ctxVars, fields, ending, goVars, tailVars, reports
<1>0. Cardinality(known) \in Nat
  BY KnownIsFinite
<1>1. CASE Arm
  <2>1. CASE gpc = "off"
    BY <1>0, <1>1, <2>1 DEF Arm, known
  <2>2. CASE gpc # "off"
    <3>1. known' = {}
      BY <1>1, <2>2 DEF Arm, NoRecords, known
    <3>2. Cardinality({}) = 0
      BY FS_EmptySet
    <3> QED
      BY <1>1, <2>2, <3>1, <3>2 DEF Arm
  <2> QED
    BY <2>1, <2>2
<1>2. ASSUME UNCHANGED <<waiters, queries, wspid>>, armed' => armed,
             gpc' # "identifying" \/ UNCHANGED <<gpc, gspid, sample>>,
             gpc = "identifying" => gpc' = "identifying"
      PROVE  (QueriesAreRecorded /\ IdentifyIsBounded)'
  BY <1>0, <1>2 DEF known
<1>3. CASE RowsRead \/ CallFails \/ AsksCause \/ Disarm \/ (\E n \in 0..Spids : Recycle(n)) \/ Close \/ Closed
  BY <1>2, <1>3 DEF RowsRead, CallFails, AsksCause, Disarm, disarm, Recycle, Close, Closed
<1>4. CASE Environment
  BY <1>2, <1>4 DEF Environment, Stop, BoundFires, WaitGrows, WaitEnds
<1>5. CASE TickStarts \/ LoopQuits \/ PollAnswers \/ FirstPollRefused \/ Reconnects
           \/ RetryIsQuiet \/ SampleDropped \/ Stops
  BY <1>2, <1>5 DEF TickStarts, LoopQuits, PollAnswers, FirstPollRefused, Reconnects,
                    RetryIsQuiet, SampleDropped, Stops
<1>6. CASE PollFails \/ ReconnectFails
  BY <1>2, <1>6 DEF PollFails, ReconnectFails, Fails, attemptsLeft, GiveUp, retryGivesUp
<1>7. CASE SampleUsed
  <2>1. sample.session \in Sessions
    BY <1>7 DEF SampleUsed, stillArmed, seen, Samples
  <2>2. queries <= Cardinality(known) /\ armed /\ wspid = gspid
    BY <1>7 DEF SampleUsed, stillArmed
  <2>3. CASE sample.session \in known
    BY <1>0, <1>7, <2>2, <2>3 DEF SampleUsed, known
  <2>4. CASE sample.session \notin known /\ Cardinality(known) >= IdentifyMax
    <3>1. known' = known \cup {sample.session}
      BY <1>7, <2>4 DEF SampleUsed, known
    <3>2. Cardinality(known') = Cardinality(known) + 1
      BY <2>1, <2>4, <3>1, OneMoreRecord
    <3> QED
      BY <1>0, <1>7, <2>2, <2>4, <3>2 DEF SampleUsed
  <2>5. CASE sample.session \notin known /\ ~(Cardinality(known) >= IdentifyMax)
    <3>1. queries + 1 <= IdentifyMax
      BY <1>0, <2>2, <2>5
    <3> QED
      BY <1>0, <1>7, <2>2, <2>5, <3>1 DEF SampleUsed, known
  <2> QED
    BY <2>3, <2>4, <2>5
<1>8. ASSUME NEW st \in Statuses \ {"not_attempted"}, Identifies(st)
      PROVE  (QueriesAreRecorded /\ IdentifyIsBounded)'
  <2>1. sample.session \in Sessions /\ sample.session \notin known
    BY <1>8 DEF Identifies, AsksAboutASession, seen, Samples
  <2>2. CASE identifyKept(st)
    <3>1. known' = known \cup {sample.session}
      BY <1>8, <2>2 DEF Identifies, known
    <3>2. Cardinality(known') = Cardinality(known) + 1
      BY <2>1, <3>1, OneMoreRecord
    <3> QED
      BY <1>0, <1>8, <3>2 DEF Identifies
  <2>3. CASE ~identifyKept(st)
    BY <1>0, <1>8, <2>3 DEF Identifies, identifyKept, known
  <2> QED
    BY <2>2, <2>3
<1> QED
  BY <1>1, <1>3, <1>4, <1>5, <1>6, <1>7, <1>8 DEF Next, RunLoop, Goroutine

\* The count of the failures: what is blamed on the watch has failed every time.
LEMMA NextBlame ==
  ASSUME IInv, Next
  PROVE  (FailuresAreCounted /\ BlameIsEarned)'
<1> USE WatchAssumption
        DEF IInv, FailuresAreCounted, BlameIsEarned, FirstPollFirst,
            runVars, ctxVars, fields, ending, goVars, tailVars, reports
<1>0. attempt \in 0..Retries /\ failures \in Nat
  BY DEF TypeOK, TypeGoroutine, TypeHistory
<1>1. CASE RunLoop
  <2>1. UNCHANGED <<goVars, tailVars>>
    BY <1>1 DEF RunLoop, Arm, RowsRead, CallFails, AsksCause, Disarm, Recycle, Close, Closed
  <2> QED
    BY <2>1
<1>2. CASE Environment
  BY <1>2 DEF Environment, Stop, BoundFires, WaitGrows, WaitEnds
<1>3. CASE TickStarts \/ LoopQuits \/ PollAnswers \/ Stops
  BY <1>3 DEF TickStarts, LoopQuits, PollAnswers, Stops
<1>4. CASE PollFails \/ ReconnectFails
  <2>1. stopped' = stopped /\ failures = attempt /\ ~stopped /\ gpc \in {"polling", "pausing"}
    BY <1>4 DEF PollFails, ReconnectFails
  <2>2. CASE attemptsLeft
    BY <1>0, <1>4, <2>1, <2>2 DEF PollFails, ReconnectFails, Fails
  <2>3. CASE ~attemptsLeft
    <3>1. attempt = Retries
      BY <1>0, <2>3 DEF attemptsLeft
    <3>2. failures' = Retries + 1 /\ failedLive' = ~ctxDead
      BY <1>4, <2>1, <3>1 DEF PollFails, ReconnectFails, Fails
    <3>3. gpc' \in {"off", "done", "givingUp"} /\ (gpc' = "givingUp" => ~ctxDead)
      BY <1>4, <2>3 DEF PollFails, ReconnectFails, Fails, GiveUp, retryGivesUp
    <3> QED
      BY <2>1, <3>2, <3>3
  <2> QED
    BY <2>2, <2>3
<1>5. CASE FirstPollRefused \/ Reconnects \/ RetryIsQuiet
  BY <1>5 DEF FirstPollRefused, Reconnects, RetryIsQuiet
<1>6. CASE SampleDropped \/ SampleUsed
  BY <1>6 DEF SampleDropped, SampleUsed
<1>7. CASE \E st \in Statuses \ {"not_attempted"} : Identifies(st)
  BY <1>7 DEF Identifies
<1> QED
  BY <1>1, <1>2, <1>3, <1>4, <1>5, <1>6, <1>7 DEF Next, Goroutine

\* IInv is inductive.
LEMMA NextInv == IInv /\ [Next]_vars => IInv'
<1>1. CASE IInv /\ Next
  <2>1. TypeOK'
    BY <1>1, RunLoopType, EnvironmentType, GoroutineType DEF IInv, Next
  <2> QED
    BY <1>1, <2>1, NextControl, NextQueries, NextBlame DEF IInv
<1>2. CASE IInv /\ UNCHANGED vars
  BY <1>2 DEF vars, IInv, TypeOK, TypeFlags, TypeRunLoop, TypeFields, TypeRecords, TypeGoroutine,
              TypeHistory, AsksAboutASession, BoundCauseIsNotTheWatch, ArmedInside,
              SampleFromAsked,
              FirstPollFirst, CreditedToItsSession, DeadWatchIsReported,
              QueriesAreRecorded, IdentifyIsBounded, FailuresAreCounted, BlameIsEarned, known, seen
<1> QED
  BY <1>1, <1>2

\* IInv holds of every behaviour of the watch.
THEOREM Invariance == Spec => []IInv
  BY InitInv, NextInv, PTL DEF Spec

---------------------------------------------------------------------------
(* What follows from it *)

\* Type correctness of the watch.
THEOREM TypeCorrect == Spec => []TypeOK
<1>1. IInv => TypeOK
  BY DEF IInv
<1> QED
  BY <1>1, Invariance, PTL

\* Nothing read on one session is credited to a unit running on another one,
\* however many reconnects and units pass while a poll is in flight.
THEOREM CreditIsSound == Spec => []CreditedToItsSession
<1>1. IInv => CreditedToItsSession
  BY DEF IInv
<1> QED
  BY <1>1, Invariance, PTL

\* No collector runs unwatched behind a watch the manifest calls enabled, unless
\* the run is ending.
THEOREM DeadWatchSpeaks == Spec => []DeadWatchIsReported
<1>1. IInv => DeadWatchIsReported
  BY DEF IInv
<1> QED
  BY <1>1, Invariance, PTL

\* A convoy of any length costs a unit at most IdentifyMax identity queries.
THEOREM IdentifyBound == Spec => []IdentifyIsBounded
<1>1. IInv => IdentifyIsBounded
  BY DEF IInv
<1> QED
  BY <1>1, Invariance, PTL

\* The watch cancels only a unit that is armed when it does, never a unit that
\* has ended and never anything during or after close.
THEOREM CancelIsAimed == Spec => CancelHitsArmedUnit
<1>1. IInv /\ [Next]_vars =>
        [cause # "watch" /\ cause' = "watch" => armed /\ phase \in Inside /\ ~quit]_vars
  <2> SUFFICES ASSUME IInv, Next, cause # "watch", cause' = "watch"
               PROVE  armed /\ phase \in Inside /\ ~quit
    OBVIOUS
  <2> USE DEF runVars, ctxVars, fields, ending, goVars, tailVars, reports
  <2>1. CASE RunLoop
    BY <2>1 DEF RunLoop, Arm, RowsRead, CallFails, AsksCause, Disarm, Recycle, Close, Closed,
                IInv, BoundCauseIsNotTheWatch
  <2>2. CASE Environment
    BY <2>2 DEF Environment, Stop, BoundFires, WaitGrows, WaitEnds
  <2>3. CASE SampleUsed
    BY <2>3 DEF SampleUsed, stillArmed, IInv, ArmedInside, Inside
  <2>4. CASE Goroutine /\ ~SampleUsed
    BY <2>4 DEF Goroutine, TickStarts, LoopQuits, PollAnswers, PollFails, FirstPollRefused,
                Reconnects, ReconnectFails, RetryIsQuiet, Stops, SampleDropped, Identifies
  <2> QED
    BY <2>1, <2>2, <2>3, <2>4 DEF Next
<1> QED
  BY <1>1, Invariance, PTL DEF Spec, CancelHitsArmedUnit

---------------------------------------------------------------------------
(* The list of blocked waits *)

Below == {r \in Nat \X Nat : r[1] < r[2]}

\* The order of the positions of a list is well founded.
LEMMA BelowIsWellFounded == IsWellFoundedOn(Below, Nat)
  BY NatLessThanWellFounded DEF OpToRel, Below

\* Numbers have a least one.
LEMMA Least ==
  ASSUME NEW S \in SUBSET Nat, S # {}
  PROVE  \E x \in S : \A y \in S : x <= y
<1>1. PICK x \in S : \A y \in S : <<y, x>> \notin Below
  BY BelowIsWellFounded, WFMin
<1>2. \A y \in S : ~(y < x)
  BY <1>1 DEF Below
<1> QED
  BY <1>1, <1>2

\* Where something can be displaced, the victim is one of those: the shortest
\* waits have a first one.
LEMMA VictimExists ==
  ASSUME NEW items \in Seq(Waits), displaceable(items) # {}
  PROVE  victim(items) \in displaceable(items)
<1> DEFINE d == displaceable(items)
           shortest(i) == \A j \in d : items[i].waited <= items[j].waited
           ties == {i \in d : shortest(i)}
<1>1. d \subseteq 1..Len(items) /\ \A i \in d : items[i].waited \in Nat
  <2>1. DOMAIN items = 1..Len(items) /\ \A i \in 1..Len(items) : items[i] \in Waits
    OBVIOUS
  <2>2. \A wait \in Waits : wait.waited \in Nat
    BY DEF Waits
  <2>3. d \subseteq 1..Len(items)
    BY <2>1 DEF displaceable
  <2> QED
    BY <2>1, <2>2, <2>3
<1> HIDE DEF d
<1>2. PICK w \in {items[i].waited : i \in d} : \A y \in {items[i].waited : i \in d} : w <= y
  <2>1. {items[i].waited : i \in d} \in SUBSET Nat /\ {items[i].waited : i \in d} # {}
    BY <1>1 DEF d
  <2> QED
    BY <2>1, Least
<1>3. ties # {} /\ ties \in SUBSET Nat
  <2>1. PICK i \in d : items[i].waited = w
    BY <1>2
  <2>2. \A j \in d : items[i].waited <= items[j].waited
    BY <1>2, <2>1
  <2>3. ties \subseteq 1..Len(items)
    BY <1>1
  <2> QED
    BY <2>2, <2>3
<1>4. PICK i \in ties : \A j \in ties : i <= j
  BY <1>3, Least
<1>5. \A j \in d : items[i].waited < items[j].waited \/ (items[i].waited = items[j].waited /\ i <= j)
  <2> SUFFICES ASSUME NEW j \in d, ~(items[i].waited < items[j].waited)
               PROVE  items[i].waited = items[j].waited /\ i <= j
    OBVIOUS
  <2>1. items[i].waited \in Nat /\ items[j].waited \in Nat /\ items[i].waited <= items[j].waited
    BY <1>1, <1>4
  <2>2. items[i].waited = items[j].waited
    BY <2>1
  <2>3. j \in ties
    BY <1>4, <2>2
  <2> QED
    BY <1>4, <2>2, <2>3
<1> QED
  BY <1>4, <1>5 DEF victim, d

cancellations(items) == {i \in DOMAIN items : items[i].cancelled}

\* A list that holds its promise: it is no longer than it may be, lists every
\* cancellation there is room for, and leaves nothing out before it is full.
SoundList(list) ==
  /\ Len(list.items) <= MaxBlockedWaits
  /\ \/ Cardinality(cancellations(list.items)) = list.cancelled
     \/ Cardinality(cancellations(list.items)) = MaxBlockedWaits /\ list.cancelled > MaxBlockedWaits
  /\ list.omitted > 0 => Len(list.items) = MaxBlockedWaits

\* A list has as many positions as its length.
LEMMA PositionsCount ==
  ASSUME NEW items \in Seq(Waits)
  PROVE  IsFiniteSet(1..Len(items)) /\ Cardinality(1..Len(items)) = Len(items)
<1>1. Len(items) \in Nat /\ 1 \in Int /\ Len(items) \in Int
  OBVIOUS
<1>2. /\ IsFiniteSet(1..Len(items))
      /\ Cardinality(1..Len(items)) = IF 1 > Len(items) THEN 0 ELSE Len(items) - 1 + 1
  BY <1>1, FS_Interval
<1> QED
  BY <1>1, <1>2

\* The cancellations of a list are at most its length.
LEMMA CancellationsCount ==
  ASSUME NEW items \in Seq(Waits)
  PROVE  /\ IsFiniteSet(cancellations(items))
         /\ Cardinality(cancellations(items)) \in Nat
         /\ Cardinality(cancellations(items)) <= Len(items)
<1>1. cancellations(items) \subseteq 1..Len(items)
  BY DEF cancellations
<1>2. IsFiniteSet(1..Len(items)) /\ Cardinality(1..Len(items)) = Len(items)
  BY PositionsCount
<1> QED
  BY <1>1, <1>2, FS_Subset, FS_CardinalityType

\* A wait that is appended, and one that takes the victim's place.
LEMMA AppendedCancellation ==
  ASSUME NEW items \in Seq(Waits), NEW wait \in Waits
  PROVE  /\ Len(Append(items, wait)) = Len(items) + 1
         /\ Cardinality(cancellations(Append(items, wait)))
              = Cardinality(cancellations(items)) + (IF wait.cancelled THEN 1 ELSE 0)
<1>1. /\ DOMAIN Append(items, wait) = 1..(Len(items) + 1)
      /\ \A i \in 1..Len(items) : Append(items, wait)[i] = items[i]
      /\ Append(items, wait)[Len(items) + 1] = wait
      /\ Len(Append(items, wait)) = Len(items) + 1
  OBVIOUS
<1>2. cancellations(Append(items, wait))
        = cancellations(items) \cup (IF wait.cancelled THEN {Len(items) + 1} ELSE {})
  <2>1. DOMAIN items = 1..Len(items) /\ Len(items) \in Nat
    OBVIOUS
  <2> QED
    BY <1>1, <2>1 DEF cancellations
<1>3. Len(items) + 1 \notin cancellations(items)
  BY DEF cancellations
<1>4. CASE wait.cancelled
  <2>1. cancellations(Append(items, wait)) = cancellations(items) \cup {Len(items) + 1}
    BY <1>2, <1>4
  <2>2. Cardinality(cancellations(items) \cup {Len(items) + 1}) = Cardinality(cancellations(items)) + 1
    BY <1>3, CancellationsCount, FS_AddElement
  <2> QED
    BY <1>1, <1>4, <2>1, <2>2
<1>5. CASE ~wait.cancelled
  BY <1>1, <1>2, <1>5, CancellationsCount
<1> QED
  BY <1>4, <1>5

\* A cancellation that takes the place of a wait keeps the length and adds one to them.
LEMMA DisplacingCancellation ==
  ASSUME NEW items \in Seq(Waits), NEW wait \in Waits, wait.cancelled,
         displaceable(items) # {}
  PROVE  /\ Len(kept(items, wait)) = Len(items)
         /\ Cardinality(cancellations(kept(items, wait))) = Cardinality(cancellations(items)) + 1
         /\ Cardinality(cancellations(items)) < Len(items)
<1> DEFINE v == victim(items)
<1>1. v \in 1..Len(items) /\ ~items[v].cancelled
  BY VictimExists DEF displaceable
<1>2. kept(items, wait) = [items EXCEPT ![v] = wait]
  BY DEF kept
<1> HIDE DEF v
<1>3. /\ DOMAIN kept(items, wait) = 1..Len(items) /\ Len(kept(items, wait)) = Len(items)
      /\ kept(items, wait)[v] = wait
      /\ \A i \in 1..Len(items) : i # v => kept(items, wait)[i] = items[i]
  BY <1>1, <1>2
<1>4. cancellations(kept(items, wait)) = cancellations(items) \cup {v}
  <2>1. DOMAIN items = 1..Len(items)
    OBVIOUS
  <2> QED
    BY <1>1, <1>3, <2>1 DEF cancellations
<1>5. v \notin cancellations(items)
  BY <1>1 DEF cancellations
<1>6. Cardinality(cancellations(items)) < Len(items)
  <2>1. cancellations(items) \subseteq (1..Len(items)) \ {v}
    BY <1>5 DEF cancellations
  <2>2. IsFiniteSet(1..Len(items)) /\ Cardinality(1..Len(items)) = Len(items)
    BY PositionsCount
  <2>3. /\ IsFiniteSet((1..Len(items)) \ {v})
        /\ Cardinality((1..Len(items)) \ {v}) = Len(items) - 1
    BY <1>1, <2>2, FS_RemoveElement
  <2>4. Cardinality(cancellations(items)) <= Len(items) - 1
    BY <2>1, <2>3, FS_Subset
  <2> QED
    BY <2>4, CancellationsCount
<1> QED
  BY <1>3, <1>4, <1>5, <1>6, CancellationsCount, FS_AddElement

\* What is added to a list keeps its promise, as long as a cancelled unit has a
\* wait to show.
LEMMA ListedSound ==
  ASSUME blockedWaits \in Lists, worst \in Samples, NEW b \in BOOLEAN,
         SoundList(blockedWaits), b => seen(worst), MaxBlockedWaits \in Nat \ {0}
  PROVE  SoundList(listed(b))
<1> DEFINE wait == [waited |-> worst.waited, cancelled |-> b]
           items == blockedWaits.items
           full == AddBlockedWait(blockedWaits, wait)
           more == IF b THEN 1 ELSE 0
<1>1. wait \in Waits /\ wait.cancelled = b
  BY WatchAssumption DEF Samples, Waits
<1>2. /\ items \in Seq(Waits) /\ blockedWaits.omitted \in Nat /\ blockedWaits.cancelled \in Nat
      /\ blockedWaits = [items |-> items, omitted |-> blockedWaits.omitted,
                         cancelled |-> blockedWaits.cancelled]
  BY DEF Lists
<1>3. CASE ~seen(worst)
  BY <1>3 DEF listed
<1>4. CASE seen(worst) /\ Len(items) < MaxBlockedWaits
  <2>1. listed(b) = [items |-> Append(items, wait), omitted |-> blockedWaits.omitted,
                     cancelled |-> blockedWaits.cancelled + more]
    <3>1. full = [blockedWaits EXCEPT !.items = Append(items, wait)]
      BY <1>4 DEF AddBlockedWait
    <3>2. listed(b) = IF b THEN [full EXCEPT !.cancelled = @ + 1] ELSE full
      BY <1>4 DEF listed
    <3> HIDE DEF full, items, wait
    <3>3. full = [items |-> Append(items, wait), omitted |-> blockedWaits.omitted,
                  cancelled |-> blockedWaits.cancelled]
      BY <1>2, <3>1
    <3> DEFINE longer == Append(items, wait)
               left == blockedWaits.omitted
               many == blockedWaits.cancelled
    <3> HIDE DEF longer, left, many
    <3>4. full = [items |-> longer, omitted |-> left, cancelled |-> many]
      BY <3>3 DEF longer, left, many
    <3>5. [full EXCEPT !.cancelled = @ + 1] = [items |-> longer, omitted |-> left, cancelled |-> many + 1]
      BY <3>4
    <3>6. many + 0 = many
      BY <1>2 DEF many
    <3> QED
      BY <3>2, <3>4, <3>5, <3>6 DEF longer, left, many
  <2> HIDE DEF wait, items
  <2>2. Cardinality(cancellations(items)) = blockedWaits.cancelled
    BY <1>2, <1>4, CancellationsCount DEF SoundList, items
  <2>3. Cardinality(cancellations(Append(items, wait))) = blockedWaits.cancelled + more
    BY <1>1, <1>2, <2>2, AppendedCancellation
  <2>4. Len(Append(items, wait)) <= MaxBlockedWaits /\ blockedWaits.omitted = 0
    BY <1>1, <1>2, <1>4, AppendedCancellation DEF SoundList, items
  <2> QED
    BY <2>1, <2>3, <2>4 DEF SoundList
<1>5. CASE seen(worst) /\ Len(items) = MaxBlockedWaits
  <2>1. listed(b) = [items |-> kept(items, wait), omitted |-> blockedWaits.omitted + 1,
                     cancelled |-> blockedWaits.cancelled + more]
    BY <1>2, <1>5 DEF listed, AddBlockedWait
  <2> HIDE DEF wait, items
  <2>2. CASE ~b
    BY <1>1, <1>2, <1>5, <2>1, <2>2 DEF SoundList, kept, items
  <2>3. CASE b /\ displaceable(items) = {}
    <3>1. cancellations(items) = 1..Len(items)
      BY <1>2, <2>3 DEF cancellations, displaceable
    <3>2. Cardinality(cancellations(items)) = MaxBlockedWaits
      BY <1>2, <1>5, <3>1, PositionsCount
    <3>3. blockedWaits.cancelled + 1 > MaxBlockedWaits
      BY <1>2, <3>2 DEF SoundList, items
    <3>4. kept(items, wait) = items
      BY <2>3 DEF kept
    <3> QED
      BY <1>2, <1>5, <2>1, <2>3, <3>2, <3>3, <3>4 DEF SoundList
  <2>4. CASE b /\ displaceable(items) # {}
    <3>1. /\ Len(kept(items, wait)) = MaxBlockedWaits
          /\ Cardinality(cancellations(kept(items, wait))) = Cardinality(cancellations(items)) + 1
          /\ Cardinality(cancellations(items)) < MaxBlockedWaits
      BY <1>1, <1>2, <1>5, <2>4, DisplacingCancellation
    <3>2. Cardinality(cancellations(items)) = blockedWaits.cancelled
      BY <3>1 DEF SoundList, items
    <3> QED
      BY <1>2, <2>1, <2>4, <3>1, <3>2 DEF SoundList
  <2> QED
    BY <2>2, <2>3, <2>4
<1> QED
  BY <1>2, <1>3, <1>4, <1>5 DEF SoundList

---------------------------------------------------------------------------
(* What the manifest says of the watch *)

\* Who ended the armed unit: the watch, which then has a wait at the limit to
\* show, or whoever ended the run's context; the watch fires once somebody has.
CauseIsExplained ==
  /\ cause = "watch" => worst.waited >= CancelAfter
  /\ worst.waited > 0 => seen(worst)
  /\ fired => cause # "none"
  /\ gpc = "off" \/ phase = "starting" => ~fired
  /\ cause = "stop" \/ runCause = "stop" => ctxDead

\* A poll that failed is being tried again until its recovery is recorded.
GapIsBeingClosed ==
  /\ phase = "starting" => ~gap
  /\ gap /\ gpc \in {"polling", "pausing"} => recovered \/ attempt > 0

\* What runUnit has read so far of how its unit ended.  A watch that fired before
\* the call failed has ended it, unless the bound did, or something excused it.
EndingIsExplained ==
  /\ phase \notin {"failing", "failed"} => ~cut /\ ~blocked /\ ~excused /\ ~reached
  /\ phase = "failing" => ~blocked
  /\ phase = "failing" /\ reached => cause = "watch" \/ cut \/ excused
  /\ phase = "failed" /\ reached => blocked \/ cut \/ excused
  /\ blocked => cause = "watch"

OInv ==
  /\ EndingIsExplained /\ CauseIsExplained /\ GapIsBeingClosed /\ SoundList(blockedWaits)
  /\ CancelledAtTheLimit /\ RowsReadIsTrueInTheCall /\ GapIsRecorded

\* OInv holds before the watch starts.
LEMMA InitOutcome == Init => OInv
<1> SUFFICES ASSUME Init PROVE OInv
  OBVIOUS
<1>1. SoundList(blockedWaits)
  <2>1. cancellations(<<>>) = {} /\ Len(<<>>) = 0
    BY DEF cancellations
  <2>2. Cardinality({}) = 0
    BY FS_EmptySet
  <2>3. /\ blockedWaits.items = <<>> /\ blockedWaits.omitted = 0 /\ blockedWaits.cancelled = 0
    BY DEF Init
  <2>4. /\ Cardinality(cancellations(blockedWaits.items)) = 0
        /\ Len(blockedWaits.items) = 0
    BY <2>1, <2>2, <2>3
  <2>5. MaxBlockedWaits \in Nat
    BY WatchAssumption
  <2> QED
    BY <2>3, <2>4, <2>5 DEF SoundList
<1> QED
  BY <1>1, WatchAssumption
     DEF Init, OInv, EndingIsExplained, CauseIsExplained, GapIsBeingClosed, CancelledAtTheLimit,
         RowsReadIsTrueInTheCall, GapIsRecorded, NoReport, NoSample, seen

\* What the causes, the gap and the last report are after each step.
LEMMA NextOutcome ==
  ASSUME IInv, OInv, Next
  PROVE  OInv'
<1> USE WatchAssumption
        DEF IInv, OInv, EndingIsExplained, CauseIsExplained, GapIsBeingClosed, CancelledAtTheLimit,
            RowsReadIsTrueInTheCall, GapIsRecorded, FirstPollFirst, BoundCauseIsNotTheWatch,
            runVars, ctxVars, fields, ending, goVars, tailVars, reports
<1>0. /\ TypeOK /\ cut \in BOOLEAN /\ blocked \in BOOLEAN /\ excused \in BOOLEAN /\ reached \in BOOLEAN
      /\ cause \in Causes /\ ctxDead \in BOOLEAN /\ fired \in BOOLEAN /\ gap \in BOOLEAN /\ recovered \in BOOLEAN
      /\ worst.waited \in Nat /\ sample.waited \in Nat /\ attempt \in Nat
  BY DEF TypeOK, TypeFlags, TypeRunLoop, TypeFields, TypeGoroutine, Samples
<1>1. CASE Arm
  BY <1>0, <1>1 DEF Arm, NoSample, NoReport, seen
<1>2. CASE RowsRead
  BY <1>2 DEF RowsRead, seen
<1>13. CASE CallFails
  <2>1. fired => cause \in {"watch", "bound", "stop"}
    BY <1>0 DEF Causes
  <2> QED
    BY <1>0, <1>13, <2>1 DEF CallFails, seen
<1>14. CASE AsksCause
  BY <1>0, <1>14 DEF AsksCause, blockedOr, seen
<1>3. CASE Disarm
  <2>1. SoundList(blockedWaits')
    <3>1. blockedWaits' = listed(blocked) /\ blocked \in BOOLEAN
      BY <1>0, <1>3 DEF Disarm
    <3>2. blocked => seen(worst)
      BY <1>0
    <3>3. SoundList(listed(blocked))
      <4>1. blockedWaits \in Lists /\ worst \in Samples
        BY <1>0 DEF TypeOK, TypeHistory, TypeFields
      <4> QED
        BY <3>1, <3>2, <4>1, ListedSound
    <3> QED
      BY <3>1, <3>3
  <2>3. /\ last'.cancelled = blocked /\ last'.worst = worst /\ last'.rowsRead = (phase = "leaving")
        /\ last'.excused = excused /\ last'.reached = reached
        /\ last'.account = recordWatchOutcome(blocked, cut)
    BY <1>3 DEF Disarm
  <2>4. CancelledAtTheLimit'
    BY <1>0, <2>3 DEF recordWatchOutcome
  <2>5. RowsReadIsTrueInTheCall'
    <3>1. phase \in {"failed", "leaving"}
      BY <1>3 DEF Disarm
    <3>2. recordWatchOutcome(blocked, cut) = "rowsRead" => fired /\ ~blocked /\ ~cut
      BY <1>0 DEF recordWatchOutcome
    <3> QED
      BY <1>0, <2>3, <3>1, <3>2
  <2> QED
    BY <1>0, <1>3, <2>1, <2>4, <2>5 DEF Disarm, seen
<1>4. CASE \E n \in 0..Spids : Recycle(n)
  BY <1>4 DEF Recycle, seen
<1>5. CASE Close \/ Closed
  BY <1>5 DEF Close, Closed, seen
<1>6. CASE Environment
  BY <1>0, <1>6 DEF Environment, Stop, BoundFires, WaitGrows, WaitEnds, seen
<1>7. CASE TickStarts \/ LoopQuits \/ Reconnects \/ SampleDropped \/ Stops
  BY <1>0, <1>7 DEF TickStarts, LoopQuits, Reconnects, SampleDropped, Stops, seen
<1>8. CASE PollAnswers
  BY <1>0, <1>8 DEF PollAnswers, recover, seen
<1>9. CASE PollFails \/ ReconnectFails
  BY <1>0, <1>9 DEF PollFails, ReconnectFails, Fails, attemptsLeft, GiveUp, retryGivesUp, seen
<1>10. CASE FirstPollRefused \/ RetryIsQuiet
  BY <1>0, <1>10 DEF FirstPollRefused, RetryIsQuiet, seen
<1>11. CASE SampleUsed
  <2>1. /\ worst' = worst \/ (worst' = sample /\ sample.waited > worst.waited)
        /\ sample.waited <= worst'.waited /\ worst.waited <= worst'.waited
        /\ seen(sample) /\ worst'.waited \in Nat
    BY <1>0, <1>11 DEF SampleUsed, stillArmed
  <2>2. cause' = "watch" => worst'.waited >= CancelAfter
    BY <1>0, <1>11, <2>1 DEF SampleUsed, limitReached
  <2>3. worst'.waited > 0 => seen(worst)'
    BY <1>0, <2>1 DEF seen
  <2>4. fired' => cause' # "none"
    BY <1>0, <1>11 DEF SampleUsed
  <2> QED
    BY <1>0, <1>11, <2>2, <2>3, <2>4 DEF SampleUsed
<1>12. CASE \E st \in Statuses \ {"not_attempted"} : Identifies(st)
  BY <1>0, <1>12 DEF Identifies, seen
<1> QED
  BY <1>1, <1>2, <1>3, <1>4, <1>5, <1>6, <1>7, <1>8, <1>9, <1>10, <1>11, <1>12, <1>13, <1>14
     DEF Next, RunLoop, Goroutine

\* The manifest says what happened: a unit called cancelled had a wait at the
\* limit, rows called read were read if the watch fired while the unit's call was
\* under way, a failed poll is recorded once one answers, and every cancellation
\* the list has room for is on it.
THEOREM OutcomeTrue == Spec => []OutcomeIsTrue
<1>1. OInv /\ UNCHANGED vars => OInv'
  BY DEF vars, OInv, EndingIsExplained, CauseIsExplained, GapIsBeingClosed, SoundList, cancellations,
         CancelledAtTheLimit, RowsReadIsTrueInTheCall, GapIsRecorded, seen
<1>2. IInv /\ OInv /\ [Next]_vars => OInv'
  BY <1>1, NextOutcome
<1>3. IInv /\ OInv => OutcomeIsTrue
  BY DEF IInv, OInv, OutcomeIsTrue, SoundList, cancellations, CancellationsAreListed
<1> QED
  BY <1>2, <1>3, InitOutcome, Invariance, PTL DEF Spec

\* The watch is blamed for its own failures alone: all its attempts in a row
\* failed, the last of them in a run that nobody was stopping.
THEOREM BlameEarned == Spec => []BlameIsEarned
<1>1. IInv => BlameIsEarned
  BY DEF IInv
<1> QED
  BY <1>1, Invariance, PTL

=============================================================================
