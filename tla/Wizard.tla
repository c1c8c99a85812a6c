------------------------------- MODULE Wizard -------------------------------
(***************************************************************************)
(* The wizard (tui/run.go, state.go, loop.go, observer.go): one goroutine  *)
(* owns the state and applies the events that the keyboard, the signals,   *)
(* the ticker and the jobs send it over one channel.  After each event a   *)
(* hook starts the job of the step that was entered and cancels the one of *)
(* the step that was left.  A cancelled job is not waited for.             *)
(*                                                                         *)
(* A job is connect, verify or collect.  It works from the state that was  *)
(* handed to it when it started, reads its context at given places, and    *)
(* holds its event until the loop takes it.  Other processes may run the   *)
(* program into the same directory.                                        *)
(***************************************************************************)
EXTENDS Naturals, FiniteSets, FiniteSetsExt

CONSTANTS
  Addresses,   \* what the operator may type in the server field
  Instances,   \* the names instances give themselves
  InstanceOf,  \* the instance that answers at an address
  Profiles,    \* the profiles [p] goes through
  Whole,       \* no profile: the whole corpus
  NoOne,       \* no address, instance or name
  Earlier,     \* the names that earlier runs of the day occupy
  MaxJobs,     \* bound: how many jobs the operator starts
  MaxAlive,    \* bound: how many are alive at once, the abandoned ones included
  MaxOthers,   \* bound: how many runs other processes make
  MaxPanics    \* bound: how many goroutines panic

Plans    == Profiles \cup {Whole}
Suffixes == 1..(Cardinality(Earlier) + MaxOthers + 1)
Names    == Instances \X Plans \X Suffixes
Jobs     == 1..MaxJobs

ASSUME WizardAssumption ==
  /\ InstanceOf \in [Addresses -> Instances]
  /\ Whole \notin Profiles
  /\ NoOne \notin Addresses /\ NoOne \notin Instances /\ NoOne \notin Names
  /\ Earlier \subseteq Names /\ IsFiniteSet(Earlier)
  /\ MaxJobs \in Nat /\ MaxAlive \in Nat /\ MaxOthers \in Nat /\ MaxPanics \in Nat

VARIABLES
  s,        \* the State the loop owns
  code,     \* the exit code the loop remembers
  returned, \* the loop returned it
  job,      \* the goroutines of the jobs
  last,     \* how many were started
  current,  \* the one stopJob cancels, 0 for none
  ticking,  \* a ticker runs
  panics,   \* panics of the other goroutines, waiting for the loop
  disk,     \* what stands at each run name
  \* history
  died,     \* how many goroutines panicked
  crashed,  \* an event told the loop of one
  stale,    \* an answer was applied to another attempt than its own
  stopped,  \* the operator pressed ctrl-c on the collection
  named,    \* the name the operator agreed to replace
  replaced, \* the names whose previous run was moved aside
  others    \* the names other processes took since this one started its run

wizardVars == <<s, code, returned, last, current, ticking>>
worldVars  == <<disk, replaced, others>>
vars == <<wizardVars, job, panics, worldVars, died, crashed, stale, stopped, named>>

---------------------------------------------------------------------------
(* Values *)

Steps   == {"connection", "connecting", "verification", "verifying", "options",
            "collecting", "done", "quit"}
Waits(step) == step \in {"connecting", "verifying", "collecting"}
Unseen  == [of |-> NoOne, probed |-> FALSE, runnable |-> FALSE]
NoVerdict == [bound |-> FALSE, failed |-> FALSE, some |-> FALSE]

initialState ==
  [ step |-> "connection", server |-> NoOne, verify |-> Unseen, collision |-> NoOne, keep |-> FALSE, profile |-> Whole,
    stopping |-> FALSE, verdict |-> NoVerdict, errors |-> FALSE, zip |-> NoOne, previous |-> NoOne ]

NoAsk == [addr |-> NoOne, profile |-> Whole, keep |-> FALSE, folder |-> NoOne]
NoEvent == [is |-> "none"]
Idle  == [kind |-> "none", pc |-> "over", dead |-> FALSE, ask |-> NoAsk, ev |-> NoEvent,
          took |-> NoOne, err |-> FALSE, code |-> 0]

Live(j) == job[j].pc # "over"

---------------------------------------------------------------------------
(* Names on the disk *)

\* RunFolderFor: under --keep the first name nothing occupies.
RunFolderFor(inst, profile, keep) ==
  <<inst, profile,
    IF keep THEN Min({n \in Suffixes : disk[<<inst, profile, n>>] = "free"}) ELSE 1>>

\* The folder is named after what the probed server calls itself.
runFolderFor(st) == RunFolderFor(st.verify.of, st.profile, st.keep)

collisionFor(verify, profile, keep) ==
  LET name == RunFolderFor(verify.of, profile, keep)
  IN IF verify.probed /\ disk[name] # "free" THEN name ELSE NoOne

---------------------------------------------------------------------------
(* The state machine of the screens *)

canContinue(st) == st.verify.probed
canStart(st)    == st.verify.probed /\ st.verify.runnable

\* Nothing reads the fields before [enter]: the edits are part of it.
keyConnection(st) ==
  {[st EXCEPT !.step = "connecting", !.server = a] : a \in Addresses \cup {st.server}}
    \cup {[st EXCEPT !.step = "quit"]}

keyVerification(st) ==
  {[st EXCEPT !.step = "verifying"], [st EXCEPT !.step = "connection"],
   [st EXCEPT !.step = "quit"]}
    \cup (IF canContinue(st) THEN {[st EXCEPT !.step = "options"]} ELSE {})

\* Mutant: the collision of the profile that was left stays on the screen.
withProfile_blind(st) == {[st EXCEPT !.profile = p] : p \in Plans}

withProfile(st) ==
  {[st EXCEPT !.profile = p,
              !.collision = collisionFor(st.verify, p, st.keep),
              !.keep = @ /\ st.collision = collisionFor(st.verify, p, st.keep)] : p \in Plans}

\* [enter] replaces what the banner names, if it names anything; [k] keeps it.
start(st) ==
  IF ~canStart(st) THEN {}
  ELSE {IF st.collision = NoOne THEN [st EXCEPT !.step = "collecting"]
        ELSE [st EXCEPT !.step = "collecting", !.collision = NoOne, !.keep = FALSE]}
         \cup (IF st.collision = NoOne THEN {}
               ELSE {[st EXCEPT !.step = "collecting", !.collision = NoOne, !.keep = TRUE]})

keyOptions(st) ==
  withProfile(st) \cup start(st)
    \cup {[st EXCEPT !.step = "verification"], [st EXCEPT !.step = "quit"]}

\* Every state that one keystroke, or the signal that stands for ctrl-c, leads to.
Key(st) ==
  CASE st.step = "connection"   -> keyConnection(st)
    [] st.step \in {"connecting", "verifying"} -> {[st EXCEPT !.step = "connection"]}
    [] st.step = "verification" -> keyVerification(st)
    [] st.step = "options"      -> keyOptions(st)
    [] st.step = "collecting"   -> {[st EXCEPT !.stopping = TRUE]}
    [] st.step = "done"         -> {[st EXCEPT !.step = "quit"]}
    [] OTHER -> {}

---------------------------------------------------------------------------
(* Events *)

connectFailed(st) == [st EXCEPT !.step = "connection"]

\* Mutant: a panic during the collection ends the screen at once.
Apply_panicEnds(e, st) ==
  CASE e.is = "connected" -> [st EXCEPT !.step = "verifying"]
    [] e.is = "verified" ->
         [st EXCEPT !.verify = e.result, !.collision = e.collision, !.step = "verification"]
    [] e.is \in {"collectDone", "panic"} -> [st EXCEPT !.step = "done"]
    [] OTHER -> st

\* Mutant: a probe made already is not made again for another address.
Apply_probedOnce(e, st) ==
  CASE e.is = "connected" ->
         [st EXCEPT !.step = IF st.verify.probed THEN "verification" ELSE "verifying"]
    [] e.is = "verified" ->
         [st EXCEPT !.verify = e.result, !.collision = e.collision, !.step = "verification"]
    [] OTHER -> st

Apply(e, st) ==
  CASE e.is = "connected" ->
         IF st.step # "connecting" THEN st ELSE [st EXCEPT !.step = "verifying"]
    [] e.is = "connectFailed" ->
         IF st.step # "connecting" THEN st ELSE connectFailed(st)
    [] e.is = "verified" ->
         IF st.step # "verifying" THEN st
         ELSE IF ~e.reachable THEN connectFailed(st)
         ELSE [st EXCEPT !.verify = e.result, !.collision = e.collision, !.step = "verification"]
    [] e.is = "finished" -> [st EXCEPT !.verdict = e.verdict]
    [] e.is = "collectDone" ->
         [st EXCEPT !.step = "done", !.stopping = FALSE, !.zip = e.zip, !.previous = e.previous,
                    !.errors = @ \/ e.err]
    [] e.is = "panic" ->
         IF st.step = "collecting" THEN [st EXCEPT !.stopping = TRUE, !.errors = TRUE]
         ELSE IF st.step \in {"done", "quit"}
         THEN [st EXCEPT !.step = "done", !.stopping = FALSE, !.errors = TRUE]
         ELSE [st EXCEPT !.step = "connection"]
    [] OTHER -> st

\* Mutant: the bound excuses a run that came back with an error.
exitStatus_boundExcuses(e, st) ==
  CASE e.is = "panic" -> 2
    [] e.is = "collectDone" -> IF e.stopped \/ st.verdict.bound THEN 0 ELSE e.code
    [] OTHER -> 0

\* What the event says of the exit code, from the state before it is applied.
exitStatus(e, st) ==
  CASE e.is = "panic" -> 2
    [] e.is = "collectDone" ->
         IF st.verdict.bound
         THEN IF ~e.err /\ ~st.verdict.failed /\ st.verdict.some THEN 0 ELSE e.code
         ELSE IF e.stopped THEN 0 ELSE e.code
    [] OTHER -> 0

\* Mutants: the last code wins; the codes are added up.
remembered_last(e, st) ==
  IF e.is \in {"panic", "collectDone"} THEN exitStatus(e, st) ELSE code
remembered_sum(e, st) == code + exitStatus(e, st)

\* The first code that is not zero wins.
remembered(e, st) == IF code = 0 THEN exitStatus(e, st) ELSE code

---------------------------------------------------------------------------
(* The loop and its hook *)

kindOf(step) ==
  CASE step = "connecting" -> "connect" [] step = "verifying" -> "verify"
    [] OTHER -> "collect"

\* applyState: the job works on a copy of what was typed and ticked.
asked(st) ==
  [addr |-> st.server, profile |-> st.profile, keep |-> st.keep,
   folder |-> IF st.step = "collecting" THEN runFolderFor(st) ELSE NoOne]

startWork(st) == [Idle EXCEPT !.kind = kindOf(st.step), !.pc = "started", !.ask = asked(st)]

\* Mutant: only ctrl-c stops the ticker and the job.
Leaves_ctrlC(prev, next) ==
  next.step # prev.step /\ Waits(prev.step) /\ next.step = "connection"

Leaves(prev, next) == next.step # prev.step /\ Waits(prev.step)
Enters(prev, next) == next.step # prev.step /\ Waits(next.step)
stopsWork(prev, next) == Leaves(prev, next) \/ (next.stopping /\ ~prev.stopping)

stopWork(jobs) == IF current = 0 THEN jobs ELSE [jobs EXCEPT ![current].dead = TRUE]

\* stateChanged(prev, next), the jobs being as they are when the hook is called.
stateChanged(prev, next, jobs) ==
  LET left == IF stopsWork(prev, next) THEN stopWork(jobs) ELSE jobs
  IN IF Enters(prev, next)
     THEN /\ job' = [left EXCEPT ![last + 1] = startWork(next)]
          /\ last' = last + 1 /\ current' = last + 1 /\ ticking' = TRUE
     ELSE /\ job' = left
          /\ current' = IF stopsWork(prev, next) THEN 0 ELSE current
          /\ ticking' = (ticking /\ ~Leaves(prev, next))
          /\ UNCHANGED last

\* One turn of the loop: the code, the state, the hook, the quit test.
Turn(next, status, jobs) ==
  /\ ~returned
  /\ Enters(s, next) =>
       last < MaxJobs /\ Cardinality({j \in Jobs : jobs[j].pc # "over"}) < MaxAlive
  /\ s' = next /\ code' = status
  /\ stateChanged(s, next, jobs)
  /\ returned' = (next.step = "quit")

PressKey ==
  /\ \E next \in Key(s) :
       /\ Turn(next, code, job)
       /\ stopped' = (stopped \/ next.stopping)
       /\ named' = IF next.step = "collecting" /\ s.step = "options" THEN s.collision ELSE named
  /\ UNCHANGED <<panics, worldVars, died, crashed, stale>>

\* Mutant: the panic of a collection is its only event.
After_once(j) ==
  IF job[j].ev.is = "finished" THEN [job EXCEPT ![j].pc = "archiving", ![j].ev = NoEvent]
  ELSE [job EXCEPT ![j] = Idle]

\* The loop takes the event that a job holds; observer events and the first of
\* the two events of a crashed collection leave the job going on.
After(j) ==
  LET e == job[j].ev IN
  CASE e.is = "finished" -> [job EXCEPT ![j].pc = "archiving", ![j].ev = NoEvent]
    [] e.is = "panic" /\ job[j].kind = "collect" ->
         [job EXCEPT ![j].ev = [is |-> "collectDone", code |-> 2, err |-> TRUE, stopped |-> FALSE,
                                zip |-> NoOne, previous |-> NoOne]]
    [] OTHER -> [job EXCEPT ![j] = Idle]

Deliver(j) ==
  /\ job[j].pc = "sending"
  /\ LET e == job[j].ev IN
     /\ Turn(Apply(e, s), remembered(e, s), After(j))
     /\ stale' = (stale \/ (Apply(e, s) # s /\ job[j].dead /\ e.is \in {"connected", "connectFailed", "verified"}))
     /\ crashed' = (crashed \/ e.is = "panic")
  /\ UNCHANGED <<panics, worldVars, died, stopped, named>>

\* A panic of the ticker, the keyboard reader or the signal handler.
DeliverPanic ==
  /\ panics > 0
  /\ Turn(Apply([is |-> "panic"], s), remembered([is |-> "panic"], s), job)
  /\ panics' = panics - 1
  /\ crashed' = TRUE
  /\ UNCHANGED <<worldVars, died, stale, stopped, named>>

\* done is closed and the channel drained: nothing sends into a lost reader.
Release(j) ==
  /\ returned /\ job[j].pc = "sending"
  /\ job' = After(j)
  /\ UNCHANGED <<wizardVars, panics, worldVars, died, crashed, stale, stopped, named>>

ReleasePanic ==
  /\ returned /\ panics > 0
  /\ panics' = panics - 1
  /\ UNCHANGED <<wizardVars, job, worldVars, died, crashed, stale, stopped, named>>

---------------------------------------------------------------------------
(* The jobs *)

Send(j, e) == job' = [job EXCEPT ![j].pc = "sending", ![j].ev = e]
At(j, kind, pc) == job[j].kind = kind /\ job[j].pc = pc
quiet == UNCHANGED <<wizardVars, panics, died, crashed, stale, stopped, named>>

\* CheckConnectable or Open refuses, whatever became of the context.
ConnectRefuses(j) ==
  /\ At(j, "connect", "started")
  /\ Send(j, [is |-> "connectFailed"])
  /\ quiet /\ UNCHANGED worldVars

ConnectFails(j) ==
  /\ At(j, "connect", "started") /\ job[j].ask.addr # NoOne
  /\ IF job[j].dead THEN job' = [job EXCEPT ![j] = Idle] ELSE Send(j, [is |-> "connectFailed"])
  /\ quiet /\ UNCHANGED worldVars

Connects(j) ==
  /\ At(j, "connect", "started") /\ job[j].ask.addr # NoOne
  /\ IF job[j].dead THEN job' = [job EXCEPT ![j] = Idle]
     ELSE \/ job' = [job EXCEPT ![j].pc = "saving"]
          \/ Send(j, [is |-> "connected"])
  /\ quiet /\ UNCHANGED worldVars

\* UpdateDotEnv, if it was ticked, between the look at the context and the event.
Saves(j) ==
  /\ At(j, "connect", "saving")
  /\ Send(j, [is |-> "connected"])
  /\ quiet /\ UNCHANGED worldVars

\* VerifyLocal, VerifyServer and the look at the context.
Results(addr) ==
  {[reachable |-> FALSE, result |-> Unseen], [reachable |-> TRUE, result |-> Unseen]}
    \cup (IF addr = NoOne THEN {}
          ELSE {[reachable |-> TRUE,
                 result |-> [of |-> InstanceOf[addr], probed |-> TRUE, runnable |-> r]] : r \in BOOLEAN})

Verifies(j) ==
  /\ At(j, "verify", "started")
  /\ IF job[j].dead THEN job' = [job EXCEPT ![j] = Idle]
     ELSE \E r \in Results(job[j].ask.addr) :
            job' = [job EXCEPT ![j].pc = "looking",
                               ![j].ev = [is |-> "verified", reachable |-> r.reachable,
                                          result |-> r.result, collision |-> NoOne]]
  /\ quiet /\ UNCHANGED worldVars

\* collisionFor looks at the disk, the last thing before the event.
Looks(j) ==
  LET ask == job[j].ask   v == job[j].ev.result IN
  /\ At(j, "verify", "looking")
  /\ job' = [job EXCEPT ![j].pc = "sending",
                        ![j].ev.collision = IF v.probed THEN collisionFor(v, ask.profile, ask.keep)
                                            ELSE NoOne]
  /\ quiet /\ UNCHANGED worldVars

\* collect.Run: it refuses to go on before it has a name for its folder.
RunRefuses(j) ==
  /\ At(j, "collect", "started")
  /\ job' = [job EXCEPT ![j].pc = "leaving", ![j].err = TRUE, ![j].code = 1]
  /\ quiet /\ UNCHANGED worldVars

\* It takes the name of the instance that answered, and moves aside what is there.
RunPrepares(j) ==
  LET ask == job[j].ask
      name == RunFolderFor(InstanceOf[ask.addr], ask.profile, ask.keep)
  IN
  /\ At(j, "collect", "started") /\ ask.addr # NoOne
  /\ job' = [job EXCEPT ![j].pc = "collecting", ![j].took = name]
  /\ disk' = [disk EXCEPT ![name] = "folder"]
  /\ replaced' = IF disk[name] = "free" THEN replaced ELSE replaced \cup {name}
  /\ quiet /\ UNCHANGED others

Verdicts(j) ==
  {v \in [bound : BOOLEAN, failed : BOOLEAN, some : BOOLEAN] :
     job[j].took = NoOne => ~v.some}

\* finish: the verdict is told, and the run goes on to its archive or fails.
RunFinishes(j) ==
  /\ At(j, "collect", "started") \/ At(j, "collect", "collecting")
  /\ \E v \in Verdicts(j), e \in BOOLEAN :
       /\ job[j].took = NoOne => e
       /\ job' = [job EXCEPT ![j].pc = "sending", ![j].err = e,
                             ![j].code = IF v.some /\ ~v.bound /\ ~v.failed /\ ~e THEN 0 ELSE 2,
                             ![j].ev = [is |-> "finished", verdict |-> v]]
  /\ quiet /\ UNCHANGED worldVars

\* Zip; Run's error is nil on its last line only.
RunArchives(j) ==
  /\ At(j, "collect", "archiving")
  /\ \/ /\ ~job[j].err
        /\ disk' = [disk EXCEPT ![job[j].took] = "mine"]
        /\ job' = [job EXCEPT ![j].pc = "leaving"]
     \/ /\ job' = [job EXCEPT ![j].pc = "leaving", ![j].err = TRUE,
                              ![j].code = IF job[j].err THEN job[j].code ELSE 2]
        /\ UNCHANGED disk
  /\ quiet /\ UNCHANGED <<replaced, others>>

\* archiveOf: the archive to offer, and the earlier one to name for what it is.
Archives == {"earlier", "other", "mine"}
\* Mutant: a file at the run's name is taken for its archive.
archiveOf_stat(folder, err) ==
  {<<IF folder # NoOne /\ disk[folder] \in Archives THEN folder ELSE NoOne, NoOne>>}

archiveOf(folder, err) ==
  IF folder = NoOne \/ disk[folder] \notin Archives THEN {<<NoOne, NoOne>>}
  ELSE IF ~err THEN {<<folder, NoOne>>}
  ELSE (IF disk[folder] # "mine" THEN {<<NoOne, folder>>} ELSE {})
         \cup (IF disk[folder] # "earlier" THEN {<<NoOne, NoOne>>} ELSE {})

RunReturns(j) ==
  /\ At(j, "collect", "leaving")
  /\ \E z \in archiveOf(job[j].ask.folder, job[j].err) :
       Send(j, [is |-> "collectDone", code |-> job[j].code, err |-> job[j].err,
                stopped |-> job[j].dead, zip |-> z[1], previous |-> z[2]])
  /\ quiet /\ UNCHANGED worldVars

\* guard and guardCollection: a panic of a job becomes an event.
Panics(j) ==
  /\ job[j].pc \notin {"over", "sending"} /\ died < MaxPanics
  /\ Send(j, [is |-> "panic"])
  /\ died' = died + 1
  /\ UNCHANGED <<wizardVars, panics, worldVars, crashed, stale, stopped, named>>

OtherPanics ==
  /\ ~returned /\ died < MaxPanics
  /\ panics' = panics + 1 /\ died' = died + 1
  /\ UNCHANGED <<wizardVars, job, worldVars, crashed, stale, stopped, named>>

\* Another process runs the program between the keystroke that starts this run
\* and the moment it takes its name.  What is done before the keystroke is among
\* the earlier runs, as nothing but a look at the disk reads it, and the lock
\* keeps every other process from a name in use.
OtherRun(name) ==
  /\ \E j \in Jobs : At(j, "collect", "started")
  /\ Cardinality(others) < MaxOthers
  /\ name[1] = s.verify.of /\ name[2] = s.profile
  /\ name = RunFolderFor(name[1], name[2], name[3] # 1)
  /\ disk' = [disk EXCEPT ![name] = "other"]
  /\ others' = others \cup {name}
  /\ UNCHANGED <<wizardVars, job, panics, replaced, died, crashed, stale, stopped, named>>

---------------------------------------------------------------------------

Init ==
  /\ s = initialState
  /\ code = 0 /\ returned = FALSE
  /\ job = [j \in Jobs |-> Idle] /\ last = 0 /\ current = 0
  /\ ticking = FALSE /\ panics = 0
  /\ disk = [n \in Names |-> IF n \in Earlier THEN "earlier" ELSE "free"]
  /\ died = 0 /\ crashed = FALSE /\ stale = FALSE /\ stopped = FALSE
  /\ named = NoOne /\ replaced = {} /\ others = {}

Work(j) ==
  \/ ConnectRefuses(j) \/ ConnectFails(j) \/ Connects(j) \/ Saves(j)
  \/ Verifies(j) \/ Looks(j)
  \/ RunRefuses(j) \/ RunPrepares(j) \/ RunFinishes(j) \/ RunArchives(j) \/ RunReturns(j)

Next ==
  \/ PressKey \/ DeliverPanic \/ ReleasePanic \/ OtherPanics
  \/ \E j \in Jobs : Deliver(j) \/ Release(j) \/ Work(j) \/ Panics(j)
  \/ \E name \in Names : OtherRun(name)

Spec == Init /\ [][Next]_vars

\* The goroutines run, every call to the server ends or gives up (RunReturns
\* of RunLoop), and a channel serves the senders that wait on it.
FairSpec ==
  /\ Spec
  /\ WF_vars(\E j \in Jobs : Deliver(j) \/ Release(j))
  /\ WF_vars(\E j \in Jobs : Work(j))
  /\ WF_vars(DeliverPanic) /\ WF_vars(ReleasePanic)

---------------------------------------------------------------------------
(* Properties *)

Asks == [addr : Addresses \cup {NoOne}, profile : Plans, keep : BOOLEAN,
         folder : Names \cup {NoOne}]
\* A server that was probed said its name.
Looked == {v \in [of : Instances \cup {NoOne}, probed : BOOLEAN, runnable : BOOLEAN] :
             v.probed => v.of # NoOne}
Said   == [bound : BOOLEAN, failed : BOOLEAN, some : BOOLEAN]
EventsSent ==
  [is : {"none", "connected", "connectFailed", "panic"}]
    \cup [is : {"verified"}, reachable : BOOLEAN, result : Looked, collision : Names \cup {NoOne}]
    \cup [is : {"finished"}, verdict : Said]
    \cup [is : {"collectDone"}, code : 0..2, err : BOOLEAN, stopped : BOOLEAN,
          zip : Names \cup {NoOne}, previous : Names \cup {NoOne}]
JobStates ==
  [kind : {"none", "connect", "verify", "collect"},
   pc : {"over", "started", "saving", "looking", "collecting", "archiving", "leaving", "sending"},
   dead : BOOLEAN, ask : Asks, ev : EventsSent, took : Names \cup {NoOne}, err : BOOLEAN, code : 0..2]
StateType ==
  [step : Steps, server : Addresses \cup {NoOne}, verify : Looked, collision : Names \cup {NoOne}, keep : BOOLEAN, profile : Plans,
   stopping : BOOLEAN, verdict : Said, errors : BOOLEAN,
   zip : Names \cup {NoOne}, previous : Names \cup {NoOne}]

\* Every variable keeps its type.
TypeOK ==
  /\ s \in StateType /\ code \in 0..2 /\ returned \in BOOLEAN
  /\ job \in [Jobs -> JobStates] /\ last \in 0..MaxJobs /\ current \in 0..last
  /\ ticking \in BOOLEAN /\ panics \in Nat /\ died \in Nat
  /\ disk \in [Names -> Archives \cup {"free", "folder"}]
  /\ crashed \in BOOLEAN /\ stale \in BOOLEAN /\ stopped \in BOOLEAN
  /\ named \in Names \cup {NoOne}
  /\ replaced \subseteq Names /\ others \subseteq Names

\* The wizard ends only once no collection is running: main exits on its
\* return, and an exit in the middle of Zip leaves a truncated archive
\* (panicEvent.apply, run.go: StepCollecting ends on collectDoneEvent).
CollectionIsAwaited ==
  \A j \in Jobs : job[j].kind = "collect" => s.step = "collecting" /\ ~returned

\* What was started and not cancelled belongs to the step on the screen: one
\* job at most is alive behind it, of its kind, and a ticker turns exactly
\* behind the steps that wait (stateChanged).
OneJobPerWait ==
  /\ ticking <=> Waits(s.step)
  /\ \A j \in Jobs : Live(j) /\ ~job[j].dead =>
       j = current /\ Waits(s.step) /\ job[j].kind = kindOf(s.step)

\* A crash that the wizard was told of is never followed by an exit of zero,
\* however many events with a code came before or after it (loop, panicEvent).
CrashIsReported == returned /\ crashed => code # 0

\* What the last screens show and start is of the address that is typed, as
\* long as no abandoned attempt's answer was taken for this one's.
VerifyIsOfTheTyped ==
  s.step \in {"verification", "options", "collecting"} /\ ~stale /\ s.verify.probed =>
    s.server # NoOne /\ s.verify.of = InstanceOf[s.server]

\* A run is moved aside only when the operator agreed to replace it by name,
\* unless another process made it after that keystroke (keyOptions,
\* collisionFor: nothing is replaced without a keystroke that names it).
ReplacementIsAnswered == ~stale => replaced \subseteq {named} \cup others

\* The archive offered on the last screen is the one this run wrote, and the
\* earlier one is never offered in its place (archiveOf).
OfferedArchiveIsOurs ==
  s.zip # NoOne /\ ~stale /\ s.zip \notin others => disk[s.zip] = "mine"

\* An exit of zero after a collection means an archive was made of it or the
\* operator stopped it: a bound that cut it is no excuse (exitStatus).
ZeroMeansArchived ==
  s.step = "done" /\ code = 0 /\ ~crashed =>
    stopped \/ \E n \in Names : disk[n] = "mine"

\* The answer of an attempt that was cancelled changes nothing.
CancelledAnswerIsDropped == ~stale

\* The screen of the collection is always left, even when the collection or
\* the ticker panics while it is being stopped (guardCollection).
CollectingIsLeft == (s.step = "collecting") ~> (s.step = "done")

\* What the wizard started it waits for or cancels, and its exit code owns up to
\* what went wrong, whichever goroutine dies meanwhile.
NothingIsCutShort ==
  /\ TypeOK
  /\ CollectionIsAwaited
  /\ OneJobPerWait
  /\ CrashIsReported
  /\ ZeroMeansArchived

\* The run is the one the operator asked for: of the address typed, replacing what
\* was named, and offered as its own archive.
RunIsTheAskedOne ==
  /\ VerifyIsOfTheTyped
  /\ ReplacementIsAnswered
  /\ OfferedArchiveIsOurs
=============================================================================
