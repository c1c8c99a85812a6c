---------------------------- MODULE RunFolderProofs ----------------------------
(***************************************************************************)
(* Proofs about the run folders, for any number of processes and of runs.  *)
(* The argument is the lock's: a process past lockRun is the only one that *)
(* touches the names of its run, and of those that set a run aside, which  *)
(* all hold the day's name, there is one at a time.                        *)
(***************************************************************************)
EXTENDS RunFolder, TLAPS

\* A process between lockRun and its release, or its death.
holds(p) == job[p].pc \notin {"idle", "named"}

\* The runs that are over and may have left their lock.
over == crashed \cup lockLeft

\* Runs are numbered as they start, and no two processes are in one run.
RunsAreDistinct ==
  /\ over \subseteq 1..started
  /\ \A p \in Procs : ~at(p, "idle") => job[p].run \in (1..started) \ over
  /\ \A p, q \in Procs :
       p # q /\ ~at(p, "idle") /\ ~at(q, "idle") => job[p].run # job[q].run

\* A process past lockRun has its lock.
LockIsHeld == \A p \in Procs : holds(p) => lock[job[p].name] = job[p].run

\* Only a run of the day's name sets anything aside.
DayIsSetAside ==
  \A p \in Procs :
    /\ ~job[p].keep => job[p].name = 0
    /\ at(p, "movingZip") \/ at(p, "making") \/ job[p].moved # {} => ~job[p].keep
    /\ at(p, "movingZip") => job[p].slot \in Slots

\* Between the two renames the day's folder is gone and the archive, if there is
\* one, is of the run whose folder was moved; after them both are gone.
MoveIsHalfDone ==
  \A p \in Procs :
    /\ at(p, "movingZip") =>
         /\ dir[0] = {} /\ asideZip[job[p].slot] = 0
         /\ asideDir[job[p].slot] # {} /\ zip[0] # 0 => zip[0] \in asideDir[job[p].slot]
    /\ at(p, "making") => dir[0] = {} /\ zip[0] = 0

\* A process that collects has made its folder, and has no archive yet.
FolderIsOwn ==
  \A p \in Procs :
    at(p, "collecting") \/ at(p, "settled") =>
      job[p].run \in dir[job[p].name] /\ zip[job[p].name] = 0

\* The inductive invariant.
IInv ==
  /\ TypeOK /\ RunsAreDistinct /\ LockIsHeld /\ DayIsSetAside /\ MoveIsHalfDone
  /\ FolderIsOwn /\ NoMixture /\ PairIsOneRun

---------------------------------------------------------------------------
(* What the steps do to the jobs *)

\* What a step to another pc leaves: the job's other fields, and the other jobs.
advances(p, step) ==
  /\ job' \in [Procs -> Jobs]
  /\ \A q \in Procs \ {p} : job'[q] = job[q]
  /\ job'[p].pc = step /\ job'[p].run = job[p].run /\ job'[p].keep = job[p].keep
  /\ job'[p].name = job[p].name /\ job'[p].slot = job[p].slot /\ job'[p].moved = job[p].moved
  /\ job'[p].discards = job[p].discards

\* The day's name is the first of them.
LEMMA DayIsAName == 0 \in Names
BY FolderAssumption DEF Names

\* A step to another pc keeps the jobs typed and changes nothing else of them.
LEMMA Goes ==
  ASSUME TypeOK, NEW p \in Procs, NEW step \in Steps, goes(p, step)
  PROVE  advances(p, step)
<1>1. job[p] \in Jobs /\ job' = [job EXCEPT ![p] = [job[p] EXCEPT !.pc = step]]
  BY DEF TypeOK, goes
<1>2. [job[p] EXCEPT !.pc = step] \in Jobs
  BY <1>1 DEF Jobs
<1> QED
  BY <1>1, <1>2 DEF TypeOK, advances, Jobs

\* The process that ends keeps nothing of its run.
LEMMA Ends ==
  ASSUME TypeOK, NEW p \in Procs, ends(p)
  PROVE  job' \in [Procs -> Jobs] /\ job'[p] = Idle /\ \A q \in Procs \ {p} : job'[q] = job[q]
<1>1. Idle \in Jobs
  BY FolderAssumption DEF Idle, Jobs, Steps, Names
<1> QED
  BY <1>1 DEF TypeOK, ends

\* Every other step of a process goes on with its run, under its name.
goesOn(p) ==
  /\ job' \in [Procs -> Jobs]
  /\ \A q \in Procs \ {p} : job'[q] = job[q]
  /\ job'[p].run = job[p].run /\ job'[p].keep = job[p].keep /\ job'[p].name = job[p].name

\* A run starts typed, named, with nothing set aside.
LEMMA Starting ==
  ASSUME TypeOK, NEW p \in Procs, NEW keep \in BOOLEAN, Starts(p, keep)
  PROVE  /\ job' \in [Procs -> Jobs] /\ \A q \in Procs \ {p} : job'[q] = job[q]
         /\ job'[p].pc = "named" /\ job'[p].run = started + 1 /\ job'[p].keep = keep
         /\ ~keep => job'[p].name = 0
         /\ job'[p].slot = 0 /\ job'[p].moved = {} /\ started' \in 1..MaxRuns
<1>1. PICK n \in Names :
        /\ RunFolderFor(keep, n)
        /\ job' = [job EXCEPT ![p] = [Idle EXCEPT !.pc = "named", !.run = started + 1,
                                                  !.keep = keep, !.name = n]]
  BY DEF Starts
<1>2. started + 1 \in 1..MaxRuns /\ started' = started + 1
  BY FolderAssumption DEF Starts, TypeOK
<1>3. [Idle EXCEPT !.pc = "named", !.run = started + 1, !.keep = keep, !.name = n] \in Jobs
  <2>1. Idle \in Jobs /\ started + 1 \in 0..MaxRuns /\ "named" \in Steps
    BY <1>2, FolderAssumption DEF Idle, Jobs, Steps, Names
  <2> QED
    BY <2>1 DEF Jobs
<1> QED
  BY <1>1, <1>2, <1>3 DEF TypeOK, RunFolderFor, Idle

\* The first rename takes a slot that neither a folder nor an archive had.
LEMMA MovingFolder ==
  ASSUME TypeOK, NEW p \in Procs, MovesFolder(p)
  PROVE  /\ goesOn(p) /\ job'[p].pc = "movingZip" /\ job'[p].slot \in Slots
         /\ asideDir[job'[p].slot] = {} /\ asideZip[job'[p].slot] = 0
         /\ dir' = [dir EXCEPT ![0] = {}]
         /\ asideDir' = [asideDir EXCEPT ![job'[p].slot] = dir[0]]
         /\ "dir" \in job'[p].moved <=> dir[0] # {}
<1> DEFINE gone == IF dir[0] = {} THEN {} ELSE {"dir"}
<1>1. PICK s \in Slots :
        /\ dest(s)
        /\ job' = [job EXCEPT ![p] = [job[p] EXCEPT !.pc = "movingZip", !.slot = s, !.moved = gone]]
        /\ dir' = [dir EXCEPT ![0] = {}]
        /\ asideDir' = [asideDir EXCEPT ![s] = dir[0]]
  BY DEF MovesFolder, TypeOK
<1>2. gone \in SUBSET {"dir", "zip"} /\ ("dir" \in gone <=> dir[0] # {})
  OBVIOUS
<1>3. [job[p] EXCEPT !.pc = "movingZip", !.slot = s, !.moved = gone] \in Jobs
  <2>1. job[p] \in Jobs /\ s \in 0..MaxRuns /\ "movingZip" \in Steps
    BY FolderAssumption DEF TypeOK, Slots, Runs, Steps
  <2> QED
    BY <1>2, <2>1 DEF Jobs
<1>4. job'[p] = [job[p] EXCEPT !.pc = "movingZip", !.slot = s, !.moved = gone]
  BY <1>1 DEF TypeOK
<1>5. /\ job'[p].pc = "movingZip" /\ job'[p].slot = s /\ job'[p].moved = gone
      /\ job'[p].run = job[p].run /\ job'[p].keep = job[p].keep /\ job'[p].name = job[p].name
  BY <1>4 DEF TypeOK, Jobs
<1>6. job' \in [Procs -> Jobs] /\ \A q \in Procs \ {p} : job'[q] = job[q]
  BY <1>1, <1>3 DEF TypeOK
<1> QED
  BY <1>1, <1>2, <1>5, <1>6 DEF goesOn, dest, supersededNameTaken

\* The second rename goes on to make the folder, in the same slot.
LEMMA MovingZip ==
  ASSUME TypeOK, NEW p \in Procs, MovesZip(p)
  PROVE  /\ goesOn(p) /\ job'[p].pc = "making" /\ job'[p].slot = job[p].slot
<1>1. CASE zipIsThere
  <2>1. job' = [job EXCEPT
                 ![p] = [job[p] EXCEPT !.pc = "making", !.moved = job[p].moved \cup {"zip"}]]
    BY <1>1 DEF MovesZip, TypeOK
  <2>2. [job[p] EXCEPT !.pc = "making", !.moved = job[p].moved \cup {"zip"}] \in Jobs
    <3>1. job[p] \in Jobs /\ "making" \in Steps
      BY DEF TypeOK, Steps
    <3>2. job[p].moved \cup {"zip"} \in SUBSET {"dir", "zip"}
      BY <3>1 DEF Jobs
    <3> QED
      BY <3>1, <3>2 DEF Jobs
  <2>3. job'[p] = [job[p] EXCEPT !.pc = "making", !.moved = job[p].moved \cup {"zip"}]
    BY <2>1 DEF TypeOK
  <2> QED
    BY <2>1, <2>2, <2>3 DEF TypeOK, Jobs, goesOn
<1>2. CASE ~zipIsThere
  BY <1>2, Goes DEF MovesZip, Steps, advances, goesOn
<1> QED
  BY <1>1, <1>2

\* The end of the loop keeps what was set aside.
LEMMA Settling ==
  ASSUME TypeOK, NEW p \in Procs, Settles(p)
  PROVE  /\ goesOn(p) /\ job'[p].pc = "settled"
         /\ job'[p].slot = job[p].slot /\ job'[p].moved = job[p].moved
<1>1. PICK d \in BOOLEAN :
        job' = [job EXCEPT ![p] = [job[p] EXCEPT !.pc = "settled", !.discards = d]]
  BY DEF Settles, mayDiscard, scopeIsRead, TypeOK
<1>2. [job[p] EXCEPT !.pc = "settled", !.discards = d] \in Jobs
  <2>1. job[p] \in Jobs /\ "settled" \in Steps
    BY DEF TypeOK, Steps
  <2> QED
    BY <2>1 DEF Jobs
<1>3. job'[p] = [job[p] EXCEPT !.pc = "settled", !.discards = d]
  BY <1>1 DEF TypeOK
<1> QED
  BY <1>1, <1>2, <1>3 DEF TypeOK, Jobs, goesOn

\* The steps that only go on.
LEMMA Advancing ==
  ASSUME TypeOK, NEW p \in Procs
  PROVE  /\ Locks(p) => advances(p, "locked")
         /\ MakesFolder(p) => advances(p, "collecting")
         /\ PrepareFails(p) => advances(p, "releasing")
         /\ EndsUnarchived(p) => advances(p, "releasing")
         /\ ZipOpens(p) => advances(p, "zipping")
         /\ ZipRefused(p) => advances(p, "releasing")
         /\ ZipCloses(p) => advances(p, "archived")
         /\ ZipFails(p) => advances(p, "releasing")
         /\ DiscardsFolder(p) => advances(p, "discarding")
         /\ DiscardsZip(p) => advances(p, "releasing")
         /\ KeepsSuperseded(p) => advances(p, "releasing")
         /\ PreparesKept(p) => advances(p, "releasing") \/ advances(p, "collecting")
BY Goes DEF Steps, refuse, PreparesKept, Locks, MakesFolder, PrepareFails, EndsUnarchived,
            ZipOpens, ZipRefused, ZipCloses, ZipFails, DiscardsFolder, DiscardsZip, KeepsSuperseded

---------------------------------------------------------------------------
(* What the steps do, one idea at a time *)

\* A step between lockRun and the deferred release.
works(p) ==
  /\ goesOn(p) /\ holds(p) /\ holds(p)'
  /\ UNCHANGED <<started, lock, crashed, lockLeft>>

\* The process is done with its run.
endsRun(p) ==
  /\ job' \in [Procs -> Jobs] /\ job'[p] = Idle /\ \A q \in Procs \ {p} : job'[q] = job[q]
  /\ UNCHANGED <<started, dir, zip, asideDir, asideZip, recorded, archived, replacedBy>>

\* Every step past lockRun and before the release keeps the run, its name and the lock.
LEMMA Working ==
  ASSUME TypeOK, NEW p \in Procs,
         \/ PreparesKept(p) \/ MovesFolder(p) \/ MovesZip(p) \/ MakesFolder(p) \/ PrepareFails(p)
         \/ Settles(p) \/ EndsUnarchived(p)
         \/ ZipOpens(p) \/ ZipRefused(p) \/ ZipCloses(p) \/ ZipFails(p)
         \/ DiscardsFolder(p) \/ DiscardsZip(p) \/ KeepsSuperseded(p)
  PROVE  works(p)
<1> USE DEF works, holds, at, history, left, disk
<1>1. CASE PreparesKept(p)
  BY <1>1, Advancing DEF PreparesKept, advances, goesOn
<1>2. CASE MovesFolder(p)
  BY <1>2, MovingFolder DEF MovesFolder
<1>3. CASE MovesZip(p)
  BY <1>3, MovingZip DEF MovesZip
<1>4. CASE MakesFolder(p)
  BY <1>4, Advancing DEF MakesFolder, advances, goesOn
<1>5. CASE PrepareFails(p)
  BY <1>5, Advancing DEF PrepareFails, advances, goesOn
<1>6. CASE Settles(p)
  BY <1>6, Settling DEF Settles
<1>7. CASE EndsUnarchived(p)
  BY <1>7, Advancing DEF EndsUnarchived, advances, goesOn
<1>8. CASE ZipOpens(p) \/ ZipRefused(p) \/ ZipCloses(p) \/ ZipFails(p)
  BY <1>8, Advancing, SMTT(30) DEF ZipOpens, ZipRefused, ZipCloses, ZipFails, advances, goesOn
<1>9. CASE DiscardsFolder(p) \/ DiscardsZip(p) \/ KeepsSuperseded(p)
  BY <1>9, Advancing DEF DiscardsFolder, DiscardsZip, KeepsSuperseded, advances, goesOn
<1> QED
  BY <1>1, <1>2, <1>3, <1>4, <1>5, <1>6, <1>7, <1>8, <1>9

\* The three ways a process ends.
LEMMA Ending ==
  ASSUME TypeOK, NEW p \in Procs, LockRefused(p) \/ Releases(p) \/ Crash(p)
  PROVE  endsRun(p)
BY Ends DEF endsRun, LockRefused, Releases, Crash, disk, history, left

\* A step starts a run, claims a lock, ends a run or works under a lock.
LEMMA Kinds ==
  ASSUME TypeOK, NEW p \in Procs, Process(p) \/ Crash(p)
  PROVE  \/ \E keep \in BOOLEAN : Starts(p, keep)
         \/ Locks(p)
         \/ (LockRefused(p) \/ Releases(p) \/ Crash(p)) /\ endsRun(p)
         \/ works(p)
BY Working, Ending DEF Process

---------------------------------------------------------------------------
(* The parts about the processes *)

\* Every step keeps the runs distinct: a run's number is new when it starts.
LEMMA KeepsRuns ==
  ASSUME TypeOK, RunsAreDistinct, NEW p \in Procs, Process(p) \/ Crash(p)
  PROVE  RunsAreDistinct'
<1>1. CASE \E keep \in BOOLEAN : Starts(p, keep)
  <2>1. PICK keep \in BOOLEAN : Starts(p, keep)
    BY <1>1
  <2>2. (\A q \in Procs \ {p} : job'[q] = job[q]) /\ job'[p].run = started + 1
    BY <2>1, Starting
  <2>3. started' = started + 1 /\ over' = over
    BY <2>1 DEF Starts, history, left, over
  <2>4. started \in Nat
    BY FolderAssumption DEF TypeOK
  <2>5. /\ started + 1 \notin over
        /\ \A q \in Procs \ {p} : ~at(q, "idle") => job[q].run # started + 1
    BY <2>4 DEF RunsAreDistinct
  <2>6. 1..started \subseteq 1..(started + 1) /\ started + 1 \in 1..(started + 1)
    BY <2>4
  <2>7. /\ (over \subseteq 1..started)'
        /\ \A q \in Procs : (~at(q, "idle") => job[q].run \in (1..started) \ over)'
    BY <2>2, <2>3, <2>5, <2>6 DEF RunsAreDistinct, at
  <2>8. \A q, r \in Procs :
         q # r /\ ~at(q, "idle")' /\ ~at(r, "idle")' => job'[q].run # job'[r].run
    <3> SUFFICES ASSUME NEW q \in Procs, NEW r \in Procs,
                        q # r, ~at(q, "idle")', ~at(r, "idle")'
                 PROVE  job'[q].run # job'[r].run
      OBVIOUS
    <3> QED
      BY <2>2, <2>5 DEF RunsAreDistinct, at
  <2> QED
    BY <2>7, <2>8 DEF RunsAreDistinct
<1>2. CASE works(p) \/ Locks(p)
  <2>1. /\ \A q \in Procs \ {p} : job'[q] = job[q]
        /\ job'[p].run = job[p].run /\ ~at(p, "idle") /\ started' = started /\ over' = over
    BY <1>2, Advancing DEF works, goesOn, advances, Locks, history, left, holds, at, over
  <2>2. \A q \in Procs : job'[q].run = job[q].run /\ (~at(q, "idle")' => ~at(q, "idle"))
    BY <2>1 DEF at
  <2> QED
    BY <2>1, <2>2 DEF RunsAreDistinct
<1>3. CASE (LockRefused(p) \/ Releases(p) \/ Crash(p)) /\ endsRun(p)
  <2>1. /\ \A q \in Procs \ {p} : job'[q] = job[q]
        /\ job'[p].pc = "idle" /\ ~at(p, "idle") /\ started' = started
        /\ over' = over \/ over' = over \cup {job[p].run}
    BY <1>3 DEF endsRun, LockRefused, Releases, Crash, history, left, at, Idle, over
  <2>2. \A q \in Procs : ~at(q, "idle")' => q # p /\ job'[q] = job[q] /\ ~at(q, "idle")
    BY <2>1 DEF at
  <2>3. /\ (over \subseteq 1..started)'
        /\ \A q \in Procs \ {p} : ~at(q, "idle") => job[q].run \notin over'
    BY <2>1 DEF RunsAreDistinct
  <2> QED
    BY <2>1, <2>2, <2>3 DEF RunsAreDistinct
<1> QED
  BY <1>1, <1>2, <1>3, Kinds

\* Every step keeps the locks with their holders: lockRun claims only a free one.
LEMMA KeepsLocks ==
  ASSUME TypeOK, RunsAreDistinct, LockIsHeld, NEW p \in Procs, Process(p) \/ Crash(p)
  PROVE  LockIsHeld'
<1>1. CASE \E keep \in BOOLEAN : Starts(p, keep)
  <2>1. PICK keep \in BOOLEAN : Starts(p, keep)
    BY <1>1
  <2>2. \A q \in Procs \ {p} : job'[q] = job[q]
    BY <2>1, Starting
  <2>3. job'[p].pc = "named" /\ lock' = lock
    BY <2>1, Starting DEF Starts, disk
  <2> QED
    BY <2>2, <2>3 DEF LockIsHeld, holds
<1>2. CASE Locks(p)
  <2>1. \A q \in Procs \ {p} : job'[q] = job[q] /\ (holds(q) => job[q].name # job[p].name)
    <3>1. \A q \in Procs \ {p} : job'[q] = job[q]
      BY <1>2, Advancing DEF advances
    <3>2. \A q \in Procs : holds(q) => lock[job[q].name] = job[q].run /\ job[q].run # 0
      BY DEF RunsAreDistinct, LockIsHeld, holds, at
    <3> QED
      BY <1>2, <3>1, <3>2 DEF Locks, lockIsFree
  <2>2. job'[p].run = job[p].run /\ job'[p].name = job[p].name
    BY <1>2, Advancing DEF advances
  <2>3. job[p].name \in Names /\ \A q \in Procs : job[q].name \in Names
    BY DEF TypeOK, Jobs
  <2>4. lock' = [lock EXCEPT ![job[p].name] = job[p].run] /\ DOMAIN lock = Names
    BY <1>2 DEF Locks, TypeOK
  <2> QED
    BY <2>1, <2>2, <2>3, <2>4 DEF LockIsHeld, holds
<1>3. CASE Releases(p) /\ endsRun(p)
  <2>1. holds(p) /\ (lock' = [lock EXCEPT ![job[p].name] = 0] \/ lock' = lock)
    BY <1>3 DEF Releases, holds, at
  <2>2. /\ \A q \in Procs \ {p} : job'[q] = job[q] /\ (holds(q) => job[q].name # job[p].name)
        /\ job'[p].pc = "idle"
    BY <1>3, <2>1 DEF endsRun, Idle, LockIsHeld, RunsAreDistinct, holds, at
  <2>3. CASE lock' = lock
    BY <2>2, <2>3 DEF LockIsHeld, holds
  <2>4. CASE lock' = [lock EXCEPT ![job[p].name] = 0]
    BY <2>2, <2>4 DEF LockIsHeld, holds
  <2> QED
    BY <2>1, <2>3, <2>4
<1>4. CASE (LockRefused(p) \/ Crash(p)) /\ endsRun(p)
  <2>1. \A q \in Procs \ {p} : job'[q] = job[q]
    BY <1>4 DEF endsRun
  <2>2. job'[p].pc = "idle" /\ lock' = lock
    BY <1>4 DEF endsRun, Idle, LockRefused, Crash, disk
  <2> QED
    BY <2>1, <2>2 DEF LockIsHeld, holds
<1>5. CASE works(p)
  BY <1>5 DEF works, goesOn, LockIsHeld, holds
<1> QED
  BY <1>1, <1>2, <1>3, <1>4, <1>5, Kinds

\* Two processes past lockRun have two names.
LEMMA Alone ==
  ASSUME RunsAreDistinct, LockIsHeld, NEW p \in Procs, NEW q \in Procs \ {p}, holds(p), holds(q)
  PROVE  job[p].name # job[q].name
BY DEF RunsAreDistinct, LockIsHeld, holds, at

\* Every step keeps to the day's name what is set aside.
LEMMA KeepsDay ==
  ASSUME TypeOK, DayIsSetAside, NEW p \in Procs, Process(p) \/ Crash(p)
  PROVE  DayIsSetAside'
<1>1. CASE \E keep \in BOOLEAN : Starts(p, keep)
  <2>1. PICK keep \in BOOLEAN : Starts(p, keep)
    BY <1>1
  <2>2. /\ \A q \in Procs \ {p} : job'[q] = job[q]
        /\ job'[p].pc = "named" /\ job'[p].keep = keep /\ job'[p].moved = {}
        /\ ~keep => job'[p].name = 0
    BY <2>1, Starting
  <2> QED
    BY <2>2 DEF DayIsSetAside, at
<1>2. CASE endsRun(p)
  BY <1>2 DEF endsRun, Idle, DayIsSetAside, at
<1>3. CASE Locks(p)
  <2>1. advances(p, "locked")
    BY <1>3, Advancing
  <2> QED
    BY <2>1 DEF advances, DayIsSetAside, at
<1>4. CASE MovesFolder(p)
  <2>1. goesOn(p) /\ job'[p].pc = "movingZip" /\ job'[p].slot \in Slots /\ ~job[p].keep
    BY <1>4, MovingFolder DEF MovesFolder
  <2> QED
    BY <2>1 DEF goesOn, DayIsSetAside, at
<1>5. CASE MovesZip(p)
  <2>1. goesOn(p) /\ job'[p].pc = "making" /\ at(p, "movingZip")
    BY <1>5, MovingZip DEF MovesZip
  <2> QED
    BY <2>1 DEF goesOn, DayIsSetAside, at
<1>6. CASE Settles(p)
  <2>1. goesOn(p) /\ job'[p].pc = "settled" /\ job'[p].moved = job[p].moved
    BY <1>6, Settling
  <2> QED
    BY <2>1 DEF goesOn, DayIsSetAside, at
<1>7. CASE \/ PreparesKept(p) \/ MakesFolder(p) \/ PrepareFails(p) \/ EndsUnarchived(p)
           \/ ZipOpens(p) \/ ZipRefused(p) \/ ZipCloses(p) \/ ZipFails(p)
           \/ DiscardsFolder(p) \/ DiscardsZip(p) \/ KeepsSuperseded(p)
  <2>1. PICK step \in {"collecting", "zipping", "archived", "discarding", "releasing"} :
          advances(p, step)
    BY <1>7, Advancing
  <2> QED
    BY <2>1 DEF advances, DayIsSetAside, at
<1> QED
  BY <1>1, <1>2, <1>3, <1>4, <1>5, <1>6, <1>7, Ending DEF Process

---------------------------------------------------------------------------
(* The parts about the disk *)

\* A process past lockRun writes under its name, and sets aside from the day's.
writesItsOwn(p) ==
  /\ holds(p)
  /\ \A n \in Names \ {job[p].name} : dir'[n] = dir[n] /\ zip'[n] = zip[n]
  /\ job[p].name # 0 => UNCHANGED <<asideDir, asideZip>>

\* The steps that leave the folders and the archives.
diskIsLeft == UNCHANGED <<dir, zip, asideDir, asideZip>>
Quiet(p) ==
  \/ \E keep \in BOOLEAN : Starts(p, keep)
  \/ Locks(p) \/ LockRefused(p) \/ PrepareFails(p) \/ Settles(p) \/ EndsUnarchived(p)
  \/ ZipRefused(p) \/ ZipCloses(p) \/ KeepsSuperseded(p) \/ Releases(p) \/ Crash(p)

\* The steps that write in no folder and no archive.
LEMMA QuietSteps ==
  ASSUME NEW p \in Procs, Quiet(p)
  PROVE  diskIsLeft
BY DEF Quiet, diskIsLeft, disk, Starts, Locks, LockRefused, PrepareFails, Settles, EndsUnarchived,
       ZipRefused, ZipCloses, KeepsSuperseded, Releases, Crash

\* A step writes nothing, or under the name whose lock its process holds.
LEMMA Writing ==
  ASSUME TypeOK, DayIsSetAside, NEW p \in Procs, Process(p) \/ Crash(p)
  PROVE  diskIsLeft \/ writesItsOwn(p)
<1> USE DEF writesItsOwn, holds, at
<1>a. /\ job[p].name \in Names /\ 0 \in Names
      /\ dir \in [Names -> SUBSET Runs] /\ zip \in [Names -> 0..Earlier]
  BY DayIsAName DEF TypeOK, Jobs
<1>b. /\ ~job[p].keep => job[p].name = 0
      /\ at(p, "movingZip") \/ at(p, "making") \/ job[p].moved # {} => job[p].name = 0
  BY DEF DayIsSetAside
<1>0. /\ job[p].name \in Names /\ 0 \in Names /\ (~job[p].keep => job[p].name = 0)
      /\ dir \in [Names -> SUBSET Runs] /\ zip \in [Names -> 0..Earlier]
      /\ at(p, "movingZip") \/ at(p, "making") \/ job[p].moved # {} => job[p].name = 0
  BY <1>a, <1>b
<1>1. CASE PreparesKept(p)
  BY <1>0, <1>1 DEF PreparesKept
<1>2. CASE MovesFolder(p)
  <2>1. dir' = [dir EXCEPT ![0] = {}] /\ zip' = zip /\ at(p, "locked") /\ ~job[p].keep
    BY <1>2, MovingFolder DEF MovesFolder
  <2> QED
    BY <1>0, <2>1
<1>3. CASE MovesZip(p)
  BY <1>0, <1>3 DEF MovesZip
<1>4. CASE MakesFolder(p)
  BY <1>0, <1>4 DEF MakesFolder
<1>5. CASE ZipOpens(p)
  BY <1>0, <1>5 DEF ZipOpens
<1>6. CASE ZipFails(p)
  BY <1>0, <1>6 DEF ZipFails, removesZip
<1>7. CASE DiscardsFolder(p)
  BY <1>0, <1>7 DEF DiscardsFolder
<1>8. CASE DiscardsZip(p)
  BY <1>0, <1>8 DEF DiscardsZip
<1>9. CASE Quiet(p)
  BY <1>9, QuietSteps
<1> QED
  BY <1>1, <1>2, <1>3, <1>4, <1>5, <1>6, <1>7, <1>8, <1>9 DEF Process, Quiet

\* What a process past lockRun knows of the disk, no other takes from it.
LEMMA OthersDisk ==
  ASSUME TypeOK, RunsAreDistinct, LockIsHeld, DayIsSetAside,
         NEW p \in Procs, Process(p) \/ Crash(p), NEW q \in Procs \ {p}, holds(q)
  PROVE  /\ job'[q] = job[q]
         /\ dir'[job[q].name] = dir[job[q].name] /\ zip'[job[q].name] = zip[job[q].name]
         /\ job[q].name = 0 => UNCHANGED <<asideDir, asideZip>>
<1>1. job'[q] = job[q]
  <2>1. CASE \E keep \in BOOLEAN : Starts(p, keep)
    BY <2>1, Starting
  <2>2. CASE Locks(p)
    BY <2>2, Advancing DEF advances
  <2>3. CASE endsRun(p) \/ works(p)
    BY <2>3 DEF endsRun, works, goesOn
  <2> QED
    BY <2>1, <2>2, <2>3, Kinds
<1>2. job[q].name \in Names
  BY DEF TypeOK, Jobs
<1>3. CASE diskIsLeft
  BY <1>1, <1>3 DEF diskIsLeft
<1>4. CASE writesItsOwn(p)
  <2>1. job[p].name # job[q].name
    BY <1>4, Alone DEF writesItsOwn
  <2> QED
    BY <1>1, <1>2, <1>4, <2>1 DEF writesItsOwn
<1> QED
  BY <1>3, <1>4, Writing

\* Every step keeps what a process half way through the renames knows of the disk.
LEMMA KeepsMove ==
  ASSUME IInv, NEW p \in Procs, Process(p) \/ Crash(p)
  PROVE  MoveIsHalfDone'
<1> SUFFICES ASSUME NEW q \in Procs, holds(q)'
             PROVE  /\ at(q, "movingZip")' =>
                         /\ dir'[0] = {} /\ asideZip'[job'[q].slot] = 0
                         /\ asideDir'[job'[q].slot] # {} /\ zip'[0] # 0 =>
                              zip'[0] \in asideDir'[job'[q].slot]
                    /\ at(q, "making")' => dir'[0] = {} /\ zip'[0] = 0
  BY DEF MoveIsHalfDone, holds, at
<1>0. 0 \in Names /\ dir \in [Names -> SUBSET Runs] /\ zip \in [Names -> 0..Earlier]
  BY DayIsAName DEF IInv, TypeOK
<1>1. CASE q # p
  <2>1. holds(q) /\ job'[q] = job[q]
    <3>1. job'[q] = job[q]
      BY <1>1, Kinds, Starting, Advancing DEF IInv, advances, endsRun, works, goesOn
    <3> QED
      BY <3>1 DEF holds
  <2>2. at(q, "movingZip") \/ at(q, "making") => job[q].name = 0
    BY DEF IInv, DayIsSetAside
  <2>3. /\ dir'[job[q].name] = dir[job[q].name] /\ zip'[job[q].name] = zip[job[q].name]
        /\ job[q].name = 0 => UNCHANGED <<asideDir, asideZip>>
    BY <1>1, <2>1, OthersDisk DEF IInv
  <2> QED
    BY <2>1, <2>2, <2>3 DEF IInv, MoveIsHalfDone, at
<1>2. CASE q = p /\ MovesFolder(p)
  <2>1. /\ job'[p].pc = "movingZip" /\ job'[p].slot \in Slots /\ asideZip[job'[p].slot] = 0
        /\ dir' = [dir EXCEPT ![0] = {}] /\ asideDir' = [asideDir EXCEPT ![job'[p].slot] = dir[0]]
        /\ zip' = zip /\ asideZip' = asideZip
    BY <1>2, MovingFolder DEF IInv, MovesFolder
  <2>2. asideDir'[job'[p].slot] = dir[0] /\ dir'[0] = {}
    BY <1>0, <2>1 DEF IInv, TypeOK
  <2>3. dir[0] # {} /\ zip[0] # 0 => zip[0] \in dir[0]
    BY <1>0 DEF IInv, PairIsOneRun
  <2> QED
    BY <1>2, <2>1, <2>2, <2>3 DEF at
<1>3. CASE q = p /\ MovesZip(p)
  <2>1. job'[p].pc = "making" /\ at(p, "movingZip") /\ dir' = dir
    BY <1>3, MovingZip DEF IInv, MovesZip
  <2>2. zip'[0] = 0
    BY <1>0, <1>3 DEF MovesZip, zipIsThere
  <2> QED
    BY <1>3, <2>1, <2>2 DEF IInv, MoveIsHalfDone, at
<1>4. CASE q = p /\ ~MovesFolder(p) /\ ~MovesZip(p)
  <2>1. ~at(p, "movingZip")' /\ ~at(p, "making")'
    <3>1. CASE \E keep \in BOOLEAN : Starts(p, keep)
      BY <3>1, Starting DEF IInv, at
    <3>2. CASE LockRefused(p) \/ Releases(p) \/ Crash(p)
      BY <3>2, Ending DEF IInv, endsRun, Idle, at
    <3>3. CASE Settles(p)
      BY <3>3, Settling DEF IInv, at
    <3>4. CASE \/ Locks(p) \/ PreparesKept(p) \/ MakesFolder(p) \/ PrepareFails(p)
               \/ EndsUnarchived(p) \/ ZipOpens(p) \/ ZipRefused(p) \/ ZipCloses(p) \/ ZipFails(p)
               \/ DiscardsFolder(p) \/ DiscardsZip(p) \/ KeepsSuperseded(p)
      BY <3>4, Advancing DEF IInv, advances, at
    <3> QED
      BY <1>4, <3>1, <3>2, <3>3, <3>4 DEF Process
  <2> QED
    BY <1>4, <2>1
<1> QED
  BY <1>1, <1>2, <1>3, <1>4

\* Every step keeps the folder of a run that collects its own.
LEMMA KeepsFolder ==
  ASSUME IInv, NEW p \in Procs, Process(p) \/ Crash(p)
  PROVE  FolderIsOwn'
<1> SUFFICES ASSUME NEW q \in Procs, at(q, "collecting")' \/ at(q, "settled")'
             PROVE  job'[q].run \in dir'[job'[q].name] /\ zip'[job'[q].name] = 0
  BY DEF FolderIsOwn, at
<1>0. /\ job[p].name \in Names /\ 0 \in Names
      /\ dir \in [Names -> SUBSET Runs] /\ zip \in [Names -> 0..Earlier]
  BY DayIsAName DEF IInv, TypeOK, Jobs
<1>1. CASE q # p
  <2>1. job'[q] = job[q]
    BY <1>1, Kinds, Starting, Advancing DEF IInv, advances, endsRun, works, goesOn
  <2>2. holds(q) /\ (at(q, "collecting") \/ at(q, "settled"))
    BY <2>1 DEF holds, at
  <2>3. dir'[job[q].name] = dir[job[q].name] /\ zip'[job[q].name] = zip[job[q].name]
    BY <1>1, <2>2, OthersDisk DEF IInv
  <2> QED
    BY <2>1, <2>2, <2>3 DEF IInv, FolderIsOwn
<1>2. CASE q = p /\ PreparesKept(p)
  <2>1. job'[p].run = job[p].run /\ job'[p].name = job[p].name
    BY <1>2, Advancing DEF IInv, advances
  <2>2. /\ ~RunNameTaken(job[p].name)
        /\ dir' = [dir EXCEPT ![job[p].name] = {job[p].run}] /\ zip' = zip
    BY <1>2, Advancing, Goes DEF IInv, PreparesKept, refuse, advances, at, Steps
  <2> QED
    BY <1>0, <1>2, <2>1, <2>2 DEF RunNameTaken
<1>3. CASE q = p /\ MakesFolder(p)
  <2>1. job'[p].run = job[p].run /\ job'[p].name = job[p].name
    BY <1>3, Advancing DEF IInv, advances
  <2>2. dir' = [dir EXCEPT ![0] = dir[0] \cup {job[p].run}] /\ zip' = zip /\ at(p, "making")
    BY <1>0, <1>3 DEF MakesFolder
  <2>3. job[p].name = 0 /\ zip[0] = 0
    BY <2>2 DEF IInv, DayIsSetAside, MoveIsHalfDone
  <2> QED
    BY <1>0, <1>3, <2>1, <2>2, <2>3
<1>4. CASE q = p /\ Settles(p)
  <2>1. job'[p].run = job[p].run /\ job'[p].name = job[p].name
    BY <1>4, Settling DEF IInv, goesOn
  <2>2. dir' = dir /\ zip' = zip /\ at(p, "collecting")
    BY <1>4 DEF Settles, disk
  <2> QED
    BY <1>4, <2>1, <2>2 DEF IInv, FolderIsOwn
<1>5. CASE q = p /\ ~PreparesKept(p) /\ ~MakesFolder(p) /\ ~Settles(p)
  <2>1. CASE \E keep \in BOOLEAN : Starts(p, keep)
    BY <1>5, <2>1, Starting DEF IInv, at
  <2>2. CASE LockRefused(p) \/ Releases(p) \/ Crash(p)
    BY <1>5, <2>2, Ending DEF IInv, endsRun, Idle, at
  <2>3. CASE MovesFolder(p)
    BY <1>5, <2>3, MovingFolder DEF IInv, at
  <2>4. CASE MovesZip(p)
    BY <1>5, <2>4, MovingZip DEF IInv, at
  <2>5. CASE \/ Locks(p) \/ PrepareFails(p) \/ EndsUnarchived(p)
             \/ ZipOpens(p) \/ ZipRefused(p) \/ ZipCloses(p) \/ ZipFails(p)
             \/ DiscardsFolder(p) \/ DiscardsZip(p) \/ KeepsSuperseded(p)
    BY <1>5, <2>5, Advancing DEF IInv, advances, at
  <2> QED
    BY <1>5, <2>1, <2>2, <2>3, <2>4, <2>5 DEF Process
<1> QED
  BY <1>1, <1>2, <1>3, <1>4, <1>5

\* Every step keeps two runs out of one folder.
LEMMA KeepsApart ==
  ASSUME IInv, NEW p \in Procs, Process(p) \/ Crash(p)
  PROVE  NoMixture'
<1>0. /\ job[p].name \in Names /\ 0 \in Names
      /\ dir \in [Names -> SUBSET Runs] /\ asideDir \in [Slots -> SUBSET Runs]
  BY DayIsAName DEF IInv, TypeOK, Jobs
<1>1. CASE dir' = dir /\ asideDir' = asideDir
  BY <1>1 DEF IInv, NoMixture
<1>2. CASE PreparesKept(p)
  BY <1>0, <1>2 DEF IInv, NoMixture, PreparesKept
<1>3. CASE MovesFolder(p)
  <2>1. /\ job'[p].slot \in Slots /\ dir' = [dir EXCEPT ![0] = {}]
        /\ asideDir' = [asideDir EXCEPT ![job'[p].slot] = dir[0]]
    BY <1>3, MovingFolder DEF IInv
  <2> QED
    BY <1>0, <2>1 DEF IInv, NoMixture
<1>4. CASE MakesFolder(p)
  <2>1. dir[0] = {}
    BY <1>4 DEF IInv, MoveIsHalfDone, MakesFolder
  <2> QED
    BY <1>0, <1>4, <2>1 DEF IInv, NoMixture, MakesFolder
<1>5. CASE DiscardsFolder(p)
  BY <1>0, <1>5 DEF IInv, NoMixture, DiscardsFolder
<1>6. CASE MovesZip(p) \/ ZipOpens(p) \/ ZipFails(p) \/ DiscardsZip(p)
  BY <1>1, <1>6 DEF MovesZip, ZipOpens, ZipFails, DiscardsZip
<1>7. CASE Quiet(p)
  BY <1>1, <1>7, QuietSteps DEF diskIsLeft
<1> QED
  BY <1>2, <1>3, <1>4, <1>5, <1>6, <1>7 DEF Process, Quiet

\* Every step keeps a folder and its archive together.
LEMMA KeepsPair ==
  ASSUME IInv, NEW p \in Procs, Process(p) \/ Crash(p)
  PROVE  PairIsOneRun'
<1>0. /\ job[p].name \in Names /\ 0 \in Names
      /\ dir \in [Names -> SUBSET Runs] /\ zip \in [Names -> 0..Earlier]
      /\ asideDir \in [Slots -> SUBSET Runs] /\ asideZip \in [Slots -> 0..Earlier]
  BY DayIsAName DEF IInv, TypeOK, Jobs
<1>p. /\ \A n \in Names : dir[n] # {} /\ zip[n] # 0 => zip[n] \in dir[n]
      /\ \A s \in Slots : asideDir[s] # {} /\ asideZip[s] # 0 => asideZip[s] \in asideDir[s]
  BY DEF IInv, PairIsOneRun
<1>1. CASE PreparesKept(p)
  BY <1>0, <1>p, <1>1 DEF PairIsOneRun, PreparesKept, RunNameTaken
<1>2. CASE MovesFolder(p)
  <2>1. /\ job'[p].slot \in Slots /\ asideZip[job'[p].slot] = 0
        /\ dir' = [dir EXCEPT ![0] = {}]
        /\ asideDir' = [asideDir EXCEPT ![job'[p].slot] = dir[0]]
        /\ zip' = zip /\ asideZip' = asideZip
    BY <1>2, MovingFolder DEF IInv, MovesFolder
  <2> QED
    BY <1>0, <1>p, <2>1 DEF PairIsOneRun
<1>3. CASE MovesZip(p)
  <2>1. /\ dir[0] = {} /\ job[p].slot \in Slots /\ dir' = dir /\ asideDir' = asideDir
        /\ asideDir[job[p].slot] # {} /\ zip[0] # 0 => zip[0] \in asideDir[job[p].slot]
    BY <1>3 DEF IInv, DayIsSetAside, MoveIsHalfDone, MovesZip
  <2>2. \/ zip' = [zip EXCEPT ![0] = 0] /\ asideZip' = [asideZip EXCEPT ![job[p].slot] = zip[0]]
        \/ zip' = zip /\ asideZip' = asideZip
    BY <1>3 DEF MovesZip
  <2> QED
    BY <1>0, <1>p, <2>1, <2>2 DEF PairIsOneRun
<1>4. CASE MakesFolder(p)
  <2>1. dir[0] = {} /\ zip[0] = 0
    BY <1>4 DEF IInv, MoveIsHalfDone, MakesFolder
  <2> QED
    BY <1>0, <1>p, <1>4, <2>1 DEF PairIsOneRun, MakesFolder
<1>5. CASE ZipOpens(p)
  <2>1. job[p].run \in dir[job[p].name]
    BY <1>5 DEF IInv, FolderIsOwn, ZipOpens
  <2> QED
    BY <1>0, <1>p, <1>5, <2>1 DEF PairIsOneRun, ZipOpens
<1>6. CASE ZipFails(p)
  BY <1>0, <1>p, <1>6 DEF PairIsOneRun, ZipFails, removesZip
<1>7. CASE DiscardsFolder(p)
  BY <1>0, <1>p, <1>7 DEF PairIsOneRun, DiscardsFolder
<1>8. CASE DiscardsZip(p)
  BY <1>0, <1>p, <1>8 DEF PairIsOneRun, DiscardsZip
<1>9. CASE Quiet(p)
  BY <1>p, <1>9, QuietSteps DEF diskIsLeft, PairIsOneRun
<1> QED
  BY <1>1, <1>2, <1>3, <1>4, <1>5, <1>6, <1>7, <1>8, <1>9 DEF Process, Quiet

---------------------------------------------------------------------------
(* The type invariant *)

\* Every step keeps the jobs typed.
LEMMA KeepsJobs ==
  ASSUME TypeOK, NEW p \in Procs, Process(p) \/ Crash(p)
  PROVE  /\ started' \in 0..MaxRuns /\ job' \in [Procs -> Jobs]
         /\ \A q \in Procs : at(q, "idle")' => job'[q] = Idle
<1>0. /\ started \in 0..MaxRuns /\ job \in [Procs -> Jobs]
      /\ \A q \in Procs : at(q, "idle") => job[q] = Idle
  BY DEF TypeOK
<1>1. CASE \E keep \in BOOLEAN : Starts(p, keep)
  <2>1. /\ job' \in [Procs -> Jobs] /\ \A q \in Procs \ {p} : job'[q] = job[q]
        /\ job'[p].pc = "named" /\ started' \in 1..MaxRuns
    BY <1>1, Starting
  <2>2. started' \in 0..MaxRuns
    BY <2>1, FolderAssumption
  <2> QED
    BY <1>0, <2>1, <2>2 DEF at
<1>2. CASE Locks(p)
  BY <1>0, <1>2, Advancing DEF Locks, advances, at
<1>3. CASE endsRun(p)
  BY <1>0, <1>3 DEF endsRun, at
<1>4. CASE works(p)
  BY <1>0, <1>4 DEF works, goesOn, holds, at
<1> QED
  BY <1>1, <1>2, <1>3, <1>4, Kinds

\* The parts of the type invariant.
DiskTyped ==
  /\ dir \in [Names -> SUBSET Runs]
  /\ zip \in [Names -> 0..Earlier] /\ lock \in [Names -> 0..MaxRuns]
  /\ asideDir \in [Slots -> SUBSET Runs] /\ asideZip \in [Slots -> 0..Earlier]

HistoryTyped ==
  /\ recorded \subseteq Runs /\ archived \subseteq Runs /\ crashed \subseteq Runs
  /\ zipLeft \subseteq Runs /\ lockLeft \subseteq Runs
  /\ replacedBy \in [Runs -> 0..MaxRuns]

\* A process in a run is in one that was started.
LEMMA RunIsStarted ==
  ASSUME IInv, NEW p \in Procs, ~at(p, "idle")
  PROVE  job[p].run \in Runs /\ job[p].run \in 0..MaxRuns /\ job[p].run \in 0..Earlier
<1>1. started \in 0..MaxRuns /\ job[p].run \in 1..started
  BY DEF IInv, TypeOK, RunsAreDistinct
<1> QED
  BY <1>1, FolderAssumption DEF Runs, Earlier

\* Every step keeps the disk typed.
LEMMA KeepsDisk ==
  ASSUME IInv, NEW p \in Procs, Process(p) \/ Crash(p)
  PROVE  DiskTyped'
<1> USE DEF DiskTyped
<1>0. DiskTyped /\ job[p].name \in Names /\ 0 \in Names
  BY DayIsAName DEF IInv, TypeOK, Jobs
<1>r. ~at(p, "idle") =>
        job[p].run \in Runs /\ job[p].run \in 0..MaxRuns /\ job[p].run \in 0..Earlier
  BY RunIsStarted
<1>z. 0 \in 0..MaxRuns /\ 0 \in 0..Earlier
  BY FolderAssumption DEF Earlier
<1>1. CASE PreparesKept(p)
  BY <1>0, <1>r, <1>1 DEF PreparesKept, at
<1>2. CASE MovesFolder(p)
  <2>1. /\ job'[p].slot \in Slots /\ dir' = [dir EXCEPT ![0] = {}]
        /\ asideDir' = [asideDir EXCEPT ![job'[p].slot] = dir[0]]
        /\ zip' = zip /\ lock' = lock /\ asideZip' = asideZip
    BY <1>2, MovingFolder DEF IInv, MovesFolder
  <2> QED
    BY <1>0, <2>1
<1>3. CASE MovesZip(p)
  BY <1>0, <1>z, <1>3 DEF MovesZip
<1>4. CASE MakesFolder(p)
  BY <1>0, <1>r, <1>4 DEF MakesFolder, at
<1>5. CASE ZipOpens(p)
  BY <1>0, <1>r, <1>5 DEF ZipOpens, at
<1>6. CASE ZipFails(p)
  BY <1>0, <1>z, <1>6 DEF ZipFails, removesZip
<1>7. CASE DiscardsFolder(p)
  BY <1>0, <1>7 DEF DiscardsFolder
<1>8. CASE DiscardsZip(p)
  BY <1>0, <1>z, <1>8 DEF DiscardsZip
<1>9. CASE Locks(p)
  BY <1>0, <1>r, <1>9 DEF Locks, at
<1>10. CASE Releases(p)
  BY <1>0, <1>z, <1>10 DEF Releases
<1>11. CASE UNCHANGED disk
  BY <1>0, <1>11 DEF disk
<1> QED
  BY <1>1, <1>2, <1>3, <1>4, <1>5, <1>6, <1>7, <1>8, <1>9, <1>10, <1>11
     DEF Process, Starts, LockRefused, PrepareFails, Settles, EndsUnarchived, ZipRefused, ZipCloses,
         KeepsSuperseded, Crash

\* Every step keeps the history typed.
LEMMA KeepsHistory ==
  ASSUME IInv, NEW p \in Procs, Process(p) \/ Crash(p)
  PROVE  HistoryTyped'
<1> USE DEF HistoryTyped
<1>0. HistoryTyped
  BY DEF IInv, TypeOK
<1>r. ~at(p, "idle") =>
        job[p].run \in Runs /\ job[p].run \in 0..MaxRuns /\ job[p].run \in 0..Earlier
  BY RunIsStarted
<1>1. CASE Settles(p)
  BY <1>0, <1>r, <1>1 DEF Settles, at, left
<1>2. CASE EndsUnarchived(p)
  BY <1>0, <1>r, <1>2 DEF EndsUnarchived, at, left
<1>3. CASE ZipCloses(p)
  BY <1>0, <1>r, <1>3 DEF ZipCloses, at, left
<1>4. CASE DiscardsZip(p)
  BY <1>0, <1>r, <1>4 DEF DiscardsZip, at, left
<1>5. CASE Crash(p)
  BY <1>0, <1>r, <1>5 DEF Crash, left
<1>6. CASE UNCHANGED history
  BY <1>0, <1>6 DEF history, left
<1>7. CASE ZipFails(p)
  BY <1>0, <1>r, <1>7 DEF ZipFails, removesZip, at
<1>8. CASE Releases(p)
  BY <1>0, <1>r, <1>8 DEF Releases, at
<1> QED
  BY <1>1, <1>2, <1>3, <1>4, <1>5, <1>6, <1>7, <1>8
     DEF Process, Starts, Locks, LockRefused, PreparesKept, MovesFolder, MovesZip, MakesFolder,
         PrepareFails, ZipOpens, ZipRefused, DiscardsFolder, KeepsSuperseded

\* Every step keeps the types.
LEMMA KeepsTypes ==
  ASSUME IInv, NEW p \in Procs, Process(p) \/ Crash(p)
  PROVE  TypeOK'
<1>1. TypeOK
  BY DEF IInv
<1> QED
  BY <1>1, KeepsJobs, KeepsDisk, KeepsHistory DEF TypeOK, DiskTyped, HistoryTyped

---------------------------------------------------------------------------
(* The theorems *)

\* An empty output directory has the invariant.
LEMMA InitIInv == Init => IInv
<1> SUFFICES ASSUME Init PROVE IInv
  OBVIOUS
<1>1. Idle \in Jobs /\ 0 \in 0..MaxRuns
  BY FolderAssumption DEF Idle, Jobs, Steps, Names
<1>2. TypeOK
  <2>1. PICK before \in {{}, {Earlier}} :
          /\ dir = [n \in Names |-> IF n = 0 THEN before ELSE {}]
          /\ zip = [n \in Names |-> IF n = 0 /\ before # {} THEN Earlier ELSE 0]
          /\ recorded = before /\ archived = before
    BY DEF Init
  <2>2. Earlier \in Runs /\ Earlier \in 0..Earlier /\ 0 \in 0..Earlier
    BY FolderAssumption DEF Earlier, Runs
  <2>3. before \in SUBSET Runs
    BY <2>2
  <2>4. dir \in [Names -> SUBSET Runs]
    BY <2>1, <2>3
  <2>5. zip \in [Names -> 0..Earlier]
    BY <2>1, <2>2
  <2> QED
    BY <1>1, <2>1, <2>2, <2>3, <2>4, <2>5 DEF Init, TypeOK, at
<1>3. \A p \in Procs : job[p] = Idle /\ job[p].pc = "idle" /\ job[p].moved = {} /\ job[p].name = 0
  BY DEF Init, Idle
<1>4. RunsAreDistinct /\ LockIsHeld /\ DayIsSetAside /\ MoveIsHalfDone /\ FolderIsOwn
  BY <1>3 DEF Init, RunsAreDistinct, LockIsHeld, DayIsSetAside, MoveIsHalfDone, FolderIsOwn,
              holds, at, over
<1>5. NoMixture /\ PairIsOneRun
  BY DEF Init, NoMixture, PairIsOneRun
<1> QED
  BY <1>2, <1>4, <1>5 DEF IInv

\* The operator deletes the lock of a dead run, which no process holds.
LEMMA OperatorIsHarmless ==
  ASSUME IInv, NEW n \in Names, OperatorDeletesLock(n)
  PROVE  IInv'
<1>1. \A p \in Procs : holds(p) => job[p].name # n
  BY DEF IInv, RunsAreDistinct, LockIsHeld, OperatorDeletesLock, holds, at, over
<1>2. LockIsHeld'
  BY <1>1 DEF IInv, TypeOK, Jobs, LockIsHeld, OperatorDeletesLock, holds
<1>3. (lock \in [Names -> 0..MaxRuns])'
  BY FolderAssumption DEF IInv, TypeOK, OperatorDeletesLock
<1>4. UNCHANGED <<started, job, dir, zip, asideDir, asideZip, history>>
  BY DEF OperatorDeletesLock
<1>5. TypeOK'
  BY <1>3, <1>4 DEF IInv, TypeOK, at, history, left
<1>6. /\ RunsAreDistinct' /\ DayIsSetAside' /\ MoveIsHalfDone' /\ FolderIsOwn'
      /\ NoMixture' /\ PairIsOneRun'
  BY <1>4 DEF IInv, RunsAreDistinct, DayIsSetAside, MoveIsHalfDone, FolderIsOwn, NoMixture,
              PairIsOneRun, at, history, left, over
<1> QED
  BY <1>2, <1>5, <1>6 DEF IInv

\* Every step keeps the invariant.
LEMMA NextIInv == IInv /\ [Next]_vars => IInv'
<1> SUFFICES ASSUME IInv, [Next]_vars PROVE IInv'
  OBVIOUS
<1>1. ASSUME NEW p \in Procs, Process(p) \/ Crash(p) PROVE IInv'
  <2>1. TypeOK' /\ RunsAreDistinct' /\ LockIsHeld' /\ DayIsSetAside'
    BY <1>1, KeepsTypes, KeepsRuns, KeepsLocks, KeepsDay DEF IInv
  <2>2. MoveIsHalfDone' /\ FolderIsOwn' /\ NoMixture' /\ PairIsOneRun'
    BY <1>1, KeepsMove, KeepsFolder, KeepsApart, KeepsPair
  <2> QED
    BY <2>1, <2>2 DEF IInv
<1>2. ASSUME NEW n \in Names, OperatorDeletesLock(n) PROVE IInv'
  BY <1>2, OperatorIsHarmless
<1>3. CASE UNCHANGED vars
  BY <1>3 DEF IInv, vars, disk, history, left, TypeOK, RunsAreDistinct, LockIsHeld, DayIsSetAside,
              MoveIsHalfDone, FolderIsOwn, NoMixture, PairIsOneRun, holds, at, over
<1> QED
  BY <1>1, <1>2, <1>3 DEF Next

\* The inductive invariant holds in every reachable state.
THEOREM Invariance == Spec => []IInv
BY InitIInv, NextIInv, PTL DEF Spec

\* The type invariant of the folders, whatever dies and wherever.
THEOREM TypeCorrect == Spec => []TypeOK
<1>1. IInv => TypeOK
  BY DEF IInv
<1> QED
  BY <1>1, Invariance, PTL

\* However many processes race for a name, no folder ever holds two runs.
THEOREM RunsStayApart == Spec => []NoMixture
<1>1. IInv => NoMixture
  BY DEF IInv
<1> QED
  BY <1>1, Invariance, PTL

\* A folder and the archive beside it are of one run, even when a process died
\* between the two renames.
THEOREM PairsHold == Spec => []PairIsOneRun
<1>1. IInv => PairIsOneRun
  BY DEF IInv
<1> QED
  BY <1>1, Invariance, PTL

\* No run finds another's archive under its name when it opens its own.
THEOREM ZipIsFree == Spec => []ZipNameIsFree
<1>1. IInv => ZipNameIsFree
  BY DEF IInv, FolderIsOwn, ZipNameIsFree
<1> QED
  BY <1>1, Invariance, PTL

---------------------------------------------------------------------------
(* What is on the disk survives *)

\* Runs that have not started have left no archive, no lock and no mark.
NumbersAreStarted ==
  /\ \A n \in Names : zip[n] \in (0..started) \cup {Earlier} /\ lock[n] \in 0..started
  /\ archived \subseteq (1..started) \cup {Earlier}

\* The archive of a run that goes on is the one it opened under its own name, and
\* is among the finished ones once it was closed and not before.
Unfinished == {"named", "locked", "movingZip", "making", "collecting", "settled", "zipping"}
ArchiveIsOwn ==
  \A p \in Procs :
    /\ ~at(p, "idle") => \A n \in Names : zip[n] = job[p].run => n = job[p].name
    /\ at(p, "zipping") => zip[job[p].name] = job[p].run
    /\ job[p].pc \in Unfinished => job[p].run \notin archived
    /\ at(p, "archived") \/ at(p, "discarding") => job[p].run \in archived

\* The lock of a run that goes on is the one of its name, and it holds it.
LockIsOwn ==
  \A p \in Procs : ~at(p, "idle") =>
    \A n \in Names : lock[n] = job[p].run => holds(p) /\ n = job[p].name

SInv ==
  /\ NumbersAreStarted /\ ArchiveIsOwn /\ LockIsOwn
  /\ ArchiveSurvives /\ TruncatedIsExplained /\ LockIsReleased

\* A step of one process leaves the jobs of the others.
LEMMA OthersJobs ==
  ASSUME TypeOK, NEW p \in Procs, Process(p) \/ Crash(p), NEW q \in Procs \ {p}
  PROVE  job'[q] = job[q]
<1>1. CASE \E keep \in BOOLEAN : Starts(p, keep)
  BY <1>1, Starting
<1>2. CASE Locks(p)
  BY <1>2, Advancing DEF advances
<1>3. CASE endsRun(p) \/ works(p)
  BY <1>3 DEF endsRun, works, goesOn
<1> QED
  BY <1>1, <1>2, <1>3, Kinds

\* Where a process can only have come from.
LEMMA CameFrom ==
  ASSUME TypeOK, NEW p \in Procs, Process(p) \/ Crash(p)
  PROVE  /\ at(p, "settled")' => Settles(p)
         /\ at(p, "zipping")' => ZipOpens(p)
         /\ at(p, "archived")' => ZipCloses(p)
         /\ at(p, "discarding")' => DiscardsFolder(p)
<1>1. CASE \E keep \in BOOLEAN : Starts(p, keep)
  BY <1>1, Starting DEF at
<1>2. CASE LockRefused(p) \/ Releases(p) \/ Crash(p)
  BY <1>2, Ending DEF endsRun, Idle, at
<1>3. CASE MovesFolder(p)
  BY <1>3, MovingFolder DEF at
<1>4. CASE MovesZip(p)
  BY <1>4, MovingZip DEF at
<1>5. CASE Settles(p)
  BY <1>5, Settling DEF at
<1>6. CASE \/ Locks(p) \/ PreparesKept(p) \/ MakesFolder(p) \/ PrepareFails(p) \/ EndsUnarchived(p)
           \/ ZipOpens(p) \/ ZipRefused(p) \/ ZipCloses(p) \/ ZipFails(p)
           \/ DiscardsFolder(p) \/ DiscardsZip(p) \/ KeepsSuperseded(p)
  BY <1>6, Advancing DEF advances, at
<1> QED
  BY <1>1, <1>2, <1>3, <1>4, <1>5, <1>6 DEF Process

\* A process that is in a run was in it before the step, unless it has just started.
LEMMA SameRun ==
  ASSUME TypeOK, NEW p \in Procs, Process(p) \/ Crash(p), ~at(p, "idle")'
  PROVE  \/ /\ \E keep \in BOOLEAN : Starts(p, keep)
            /\ job'[p].run = started + 1 /\ at(p, "named")'
            /\ UNCHANGED <<disk, history>>
         \/ /\ ~at(p, "idle") /\ job'[p].run = job[p].run /\ job'[p].name = job[p].name
            /\ started' = started
<1>1. CASE \E keep \in BOOLEAN : Starts(p, keep)
  BY <1>1, Starting DEF Starts, at
<1>2. CASE Locks(p)
  BY <1>2, Advancing DEF advances, Locks, at
<1>3. CASE endsRun(p)
  BY <1>3 DEF endsRun, Idle, at
<1>4. CASE works(p)
  BY <1>4 DEF works, goesOn, holds, at
<1> QED
  BY <1>1, <1>2, <1>3, <1>4, Kinds

\* What a step does to the archives in place and to the list of finished ones.
LEMMA ZipSteps ==
  ASSUME TypeOK, NEW p \in Procs, Process(p) \/ Crash(p)
  PROVE  \/ zip' = zip
         \/ MovesZip(p) /\ zip[0] # 0 /\ zip' = [zip EXCEPT ![0] = 0]
         \/ ZipOpens(p) /\ zip' = [zip EXCEPT ![job[p].name] = job[p].run]
         \/ ZipFails(p) /\ zip' = [zip EXCEPT ![job[p].name] = 0]
<1>1. CASE MovesZip(p)
  BY <1>1 DEF MovesZip, zipIsThere
<1>2. CASE ZipOpens(p) \/ ZipFails(p)
  BY <1>2 DEF ZipOpens, ZipFails, removesZip
<1>3. CASE \/ PreparesKept(p) \/ MovesFolder(p) \/ MakesFolder(p)
           \/ DiscardsFolder(p) \/ DiscardsZip(p)
  BY <1>3 DEF PreparesKept, MovesFolder, MakesFolder, DiscardsFolder, DiscardsZip
<1>4. CASE Quiet(p)
  BY <1>4, QuietSteps, SMTT(30) DEF diskIsLeft
<1> QED
  BY <1>1, <1>2, <1>3, <1>4 DEF Process, Quiet

\* Only closing an archive adds one to those that are finished.
LEMMA ArchivedSteps ==
  ASSUME NEW p \in Procs, Process(p) \/ Crash(p)
  PROVE  \/ archived' = archived
         \/ ZipCloses(p) /\ archived' = archived \cup {job[p].run}
BY DEF Process, Crash, Starts, Locks, LockRefused, PreparesKept, MovesFolder, MovesZip, MakesFolder,
       PrepareFails, Settles, EndsUnarchived, ZipOpens, ZipRefused, ZipCloses, ZipFails,
       DiscardsFolder, DiscardsZip, KeepsSuperseded, Releases, history, left

\* A lock file appears under the name of the run that takes it, and goes with its release.
LEMMA LockSteps ==
  ASSUME NEW p \in Procs, Process(p) \/ Crash(p)
  PROVE  \/ lock' = lock
         \/ Locks(p) /\ lock' = [lock EXCEPT ![job[p].name] = job[p].run]
         \/ Releases(p) /\ lock' = [lock EXCEPT ![job[p].name] = 0]
BY DEF Process, Crash, Starts, Locks, LockRefused, PreparesKept, MovesFolder, MovesZip, MakesFolder,
       PrepareFails, Settles, EndsUnarchived, ZipOpens, ZipRefused, ZipCloses, ZipFails,
       DiscardsFolder, DiscardsZip, KeepsSuperseded, Releases, disk

\* Every step numbers what it leaves with a run that has started.
LEMMA KeepsNumbers ==
  ASSUME IInv, NumbersAreStarted, NEW p \in Procs, Process(p) \/ Crash(p)
  PROVE  NumbersAreStarted'
<1>1. /\ TypeOK /\ started \in Nat /\ MaxRuns \in Nat
      /\ zip \in [Names -> 0..Earlier] /\ lock \in [Names -> 0..MaxRuns]
      /\ started' = started \/ (started' = started + 1 /\ UNCHANGED <<zip, lock, archived>>)
  <2>1. TypeOK /\ started \in Nat /\ MaxRuns \in Nat
    BY FolderAssumption DEF IInv, TypeOK
  <2>2. started' = started \/ (started' = started + 1 /\ UNCHANGED <<zip, lock, archived>>)
    <3>1. CASE \E keep \in BOOLEAN : Starts(p, keep)
      BY <3>1 DEF Starts, disk, history, left
    <3>2. CASE Locks(p) \/ works(p) \/ endsRun(p)
      BY <3>2 DEF Locks, works, endsRun
    <3> QED
      BY <2>1, <3>1, <3>2, Kinds
  <2> QED
    BY <2>1, <2>2 DEF TypeOK
<1>2. ~at(p, "idle") => job[p].run \in 1..started
  BY DEF IInv, RunsAreDistinct
<1>3. \A n \in Names : zip'[n] \in (0..started) \cup {Earlier}
  <2>1. ZipOpens(p) => ~at(p, "idle")
    BY DEF ZipOpens, at
  <2> QED
    BY <1>1, <1>2, <2>1, ZipSteps DEF NumbersAreStarted
<1>4. \A n \in Names : lock'[n] \in 0..started
  <2>1. Locks(p) => ~at(p, "idle")
    BY DEF Locks, at
  <2> QED
    BY <1>1, <1>2, <2>1, LockSteps DEF NumbersAreStarted
<1>5. archived' \subseteq (1..started) \cup {Earlier}
  <2>1. ZipCloses(p) => ~at(p, "idle")
    BY DEF ZipCloses, at
  <2> QED
    BY <1>2, <2>1, ArchivedSteps DEF NumbersAreStarted
<1>6. 0..started \subseteq 0..started' /\ 1..started \subseteq 1..started'
  BY <1>1
<1> QED
  BY <1>3, <1>4, <1>5, <1>6 DEF NumbersAreStarted

\* Every step leaves each run the archive it opened, under its own name.
LEMMA KeepsArchiveOwn ==
  ASSUME IInv, NumbersAreStarted, ArchiveIsOwn, NEW p \in Procs, Process(p) \/ Crash(p)
  PROVE  ArchiveIsOwn'
<1>0. /\ TypeOK /\ started \in Nat /\ zip \in [Names -> 0..Earlier] /\ started < Earlier
      /\ \A q \in Procs : job[q].name \in Names
  BY FolderAssumption DEF IInv, TypeOK, Jobs, Earlier
<1>1. SUFFICES ASSUME NEW q \in Procs, ~at(q, "idle")'
      PROVE  /\ \A n \in Names : zip'[n] = job'[q].run => n = job'[q].name
             /\ at(q, "zipping")' => zip'[job'[q].name] = job'[q].run
             /\ job'[q].pc \in Unfinished => job'[q].run \notin archived'
             /\ at(q, "archived")' \/ at(q, "discarding")' => job'[q].run \in archived'
  BY DEF ArchiveIsOwn, at, Unfinished
<1>2. CASE q # p
  <2>1. job'[q] = job[q] /\ ~at(q, "idle")
    BY <1>0, <1>1, <1>2, OthersJobs DEF at
  <2>2. ~at(p, "idle") => job[p].run # job[q].run
    BY <1>2, <2>1 DEF IInv, RunsAreDistinct
  <2>3. job[q].run \in 1..started
    BY <2>1 DEF IInv, RunsAreDistinct
  <2>4. \A n \in Names : zip'[n] = job[q].run => zip[n] = job[q].run
    <3>1. ZipOpens(p) => ~at(p, "idle")
      BY DEF ZipOpens, at
    <3> QED
      BY <1>0, <2>2, <2>3, <3>1, ZipSteps
  <2>5. at(q, "zipping") => zip'[job[q].name] = zip[job[q].name]
    <3>1. holds(q) \/ ~at(q, "zipping")
      BY DEF holds, at
    <3> QED
      BY <1>2, <3>1, OthersDisk DEF IInv
  <2>6. job[q].run \in archived' <=> job[q].run \in archived
    <3>1. ZipCloses(p) => ~at(p, "idle")
      BY DEF ZipCloses, at
    <3> QED
      BY <2>2, <3>1, ArchivedSteps
  <2> QED
    BY <2>1, <2>4, <2>5, <2>6 DEF ArchiveIsOwn, at
<1>3. CASE q = p /\ (\E keep \in BOOLEAN : Starts(p, keep)) /\ job'[p].run = started + 1
           /\ at(p, "named")' /\ UNCHANGED <<disk, history>>
  <2>1. \A n \in Names : zip'[n] # started + 1 \/ started + 1 = Earlier
    BY <1>0, <1>3 DEF NumbersAreStarted, disk
  <2>2. started + 1 # Earlier
    BY <1>3, FolderAssumption DEF Starts, Earlier, IInv, TypeOK
  <2>3. started + 1 \notin archived'
    BY <1>0, <1>3, <2>2 DEF NumbersAreStarted, history, left
  <2> QED
    BY <1>3, <2>1, <2>2, <2>3 DEF at
<1>4. CASE q = p /\ ~at(p, "idle") /\ job'[p].run = job[p].run /\ job'[p].name = job[p].name
  <2>1. \A n \in Names : zip'[n] = job[p].run => n = job[p].name
    <3>1. job[p].run # 0
      BY <1>0, <1>4 DEF IInv, RunsAreDistinct
    <3> QED
      BY <1>0, <1>4, <3>1, ZipSteps DEF ArchiveIsOwn
  <2>2. at(p, "zipping")' => zip'[job[p].name] = job[p].run
    BY <1>0, CameFrom DEF ZipOpens
  <2>3. job'[p].pc \in Unfinished => job[p].run \notin archived'
    <3>1. job'[p].pc \in Unfinished => job[p].pc \in Unfinished /\ ~ZipCloses(p)
      <4>1. CASE LockRefused(p) \/ Releases(p) \/ Crash(p)
        BY <1>0, <1>1, <1>4, <4>1, Ending DEF endsRun, Idle, at
      <4>2. CASE \/ ZipRefused(p) \/ ZipCloses(p) \/ ZipFails(p) \/ EndsUnarchived(p)
                 \/ DiscardsFolder(p) \/ DiscardsZip(p) \/ KeepsSuperseded(p) \/ PrepareFails(p)
        BY <1>0, <4>2, Advancing DEF advances, Unfinished
      <4>3. CASE \/ Locks(p) \/ PreparesKept(p) \/ MovesFolder(p) \/ MovesZip(p) \/ MakesFolder(p)
                 \/ Settles(p) \/ ZipOpens(p)
        <5>1. job[p].pc \in Unfinished
          BY <4>3 DEF Locks, PreparesKept, MovesFolder, MovesZip, MakesFolder, Settles, ZipOpens,
                      at, Unfinished
        <5>2. ~ZipCloses(p)
          BY <4>3 DEF Locks, PreparesKept, MovesFolder, MovesZip, MakesFolder, Settles, ZipOpens,
                      ZipCloses, at
        <5> QED
          BY <5>1, <5>2
      <4>4. CASE \E keep \in BOOLEAN : Starts(p, keep)
        BY <1>4, <4>4 DEF Starts
      <4> QED
        BY <4>1, <4>2, <4>3, <4>4 DEF Process
    <3> QED
      BY <3>1, ArchivedSteps DEF ArchiveIsOwn
  <2>4. at(p, "archived")' \/ at(p, "discarding")' => job[p].run \in archived'
    <3>1. at(p, "archived")' => job[p].run \in archived'
      BY <1>0, CameFrom DEF ZipCloses
    <3>2. at(p, "discarding")' => job[p].run \in archived'
      <4>1. DiscardsFolder(p) => at(p, "archived")
        BY DEF DiscardsFolder
      <4> QED
        BY <1>0, <4>1, CameFrom, ArchivedSteps DEF ArchiveIsOwn
    <3> QED
      BY <3>1, <3>2
  <2> QED
    BY <1>4, <2>1, <2>2, <2>3, <2>4
<1> QED
  BY <1>0, <1>1, <1>2, <1>3, <1>4, SameRun

\* Every step leaves a lock to the process that took it.
LEMMA KeepsLockOwn ==
  ASSUME IInv, NumbersAreStarted, LockIsOwn, NEW p \in Procs, Process(p) \/ Crash(p)
  PROVE  LockIsOwn'
<1>0. /\ TypeOK /\ started \in Nat /\ lock \in [Names -> 0..MaxRuns]
      /\ \A q \in Procs : job[q].name \in Names
  BY FolderAssumption DEF IInv, TypeOK, Jobs
<1>1. SUFFICES ASSUME NEW q \in Procs, ~at(q, "idle")', NEW n \in Names, lock'[n] = job'[q].run
      PROVE  holds(q)' /\ n = job'[q].name
  BY DEF LockIsOwn, at
<1>2. CASE q # p
  <2>1. job'[q] = job[q] /\ ~at(q, "idle")
    BY <1>0, <1>1, <1>2, OthersJobs DEF at
  <2>2. ~at(p, "idle") => job[p].run # job[q].run
    BY <1>2, <2>1 DEF IInv, RunsAreDistinct
  <2>3. job[q].run # 0
    BY <1>0, <2>1 DEF IInv, RunsAreDistinct
  <2>4. lock[n] = job[q].run
    <3>1. Locks(p) => ~at(p, "idle")
      BY DEF Locks, at
    <3> QED
      BY <1>0, <1>1, <2>1, <2>2, <2>3, <3>1, LockSteps
  <2> QED
    BY <2>1, <2>4 DEF LockIsOwn, holds
<1>3. CASE q = p /\ job'[p].run = started + 1 /\ UNCHANGED <<disk, history>>
  BY <1>0, <1>1, <1>3 DEF NumbersAreStarted, disk
<1>4. CASE q = p /\ ~at(p, "idle") /\ job'[p].run = job[p].run /\ job'[p].name = job[p].name
  <2>1. CASE Locks(p)
    <3>1. holds(p)'
      BY <1>0, <2>1, Advancing DEF advances, holds
    <3>2. n = job[p].name
      BY <1>0, <1>1, <1>4, <2>1 DEF Locks, LockIsOwn, at
    <3> QED
      BY <1>4, <3>1, <3>2
  <2>2. CASE works(p)
    BY <1>1, <1>4, <2>2 DEF works, LockIsOwn
  <2>3. CASE endsRun(p)
    BY <1>1, <1>4, <2>3 DEF endsRun, Idle, at
  <2>4. CASE \E keep \in BOOLEAN : Starts(p, keep)
    BY <1>4, <2>4 DEF Starts
  <2> QED
    BY <1>0, <1>4, <2>1, <2>2, <2>3, <2>4, Kinds
<1> QED
  BY <1>0, <1>1, <1>2, <1>3, <1>4, SameRun

\* The archives set aside: one more when an archive is moved, to a place that was
\* free, and one less when a run deletes what it set aside.
LEMMA AsideZipSteps ==
  ASSUME IInv, NEW p \in Procs, Process(p) \/ Crash(p)
  PROVE  \/ UNCHANGED <<asideZip, replacedBy>>
         \/ /\ MovesZip(p) /\ UNCHANGED replacedBy
            /\ job[p].slot \in Slots /\ asideZip[job[p].slot] = 0
            /\ asideZip' = [asideZip EXCEPT ![job[p].slot] = zip[0]]
         \/ /\ DiscardsZip(p)
            /\ asideZip' = [asideZip EXCEPT ![job[p].slot] = 0]
            /\ replacedBy' = [replacedBy EXCEPT ![asideZip[job[p].slot]] = job[p].run]
<1>1. CASE MovesZip(p)
  <2>1. job[p].slot \in Slots /\ asideZip[job[p].slot] = 0
    BY <1>1 DEF IInv, DayIsSetAside, MoveIsHalfDone, MovesZip
  <2> QED
    BY <1>1, <2>1 DEF MovesZip, history, left
<1>2. CASE DiscardsZip(p)
  BY <1>2 DEF DiscardsZip
<1>3. CASE ~MovesZip(p) /\ ~DiscardsZip(p)
  BY <1>3 DEF Process, Crash, Starts, Locks, LockRefused, PreparesKept, MovesFolder, MakesFolder,
              PrepareFails, Settles, EndsUnarchived, ZipOpens, ZipRefused, ZipCloses, ZipFails,
              DiscardsFolder, KeepsSuperseded, Releases, disk, history, left
<1> QED
  BY <1>1, <1>2, <1>3

\* No step loses a finished archive.
LEMMA KeepsArchives ==
  ASSUME IInv, SInv, NEW p \in Procs, Process(p) \/ Crash(p)
  PROVE  ArchiveSurvives'
<1>0. /\ TypeOK /\ 0 \in Names /\ job[p].name \in Names
      /\ zip \in [Names -> 0..Earlier] /\ asideZip \in [Slots -> 0..Earlier]
      /\ archived \subseteq Runs /\ 0 \notin Runs /\ replacedBy \in [Runs -> 0..MaxRuns]
  <2>1. TypeOK /\ 0 \in Names
    BY DayIsAName DEF IInv
  <2>2. job[p] \in Jobs
    BY <2>1 DEF TypeOK
  <2>3. job[p].name \in Names
    BY <2>2 DEF Jobs
  <2>4. 0 \notin Runs
    BY DEF Runs
  <2>5. /\ zip \in [Names -> 0..Earlier] /\ asideZip \in [Slots -> 0..Earlier]
        /\ archived \subseteq Runs /\ replacedBy \in [Runs -> 0..MaxRuns]
    BY <2>1 DEF TypeOK
  <2> QED
    BY <2>1, <2>3, <2>4, <2>5
<1>1. SUFFICES ASSUME NEW r \in archived', ~onDisk(r)'
      PROVE  replacedBy'[r] \in archived'
  BY DEF ArchiveSurvives, onDisk
<1>2. archived \subseteq archived'
  BY ArchivedSteps
<1>3. CASE r \notin archived
  <2>1. ZipCloses(p) /\ r = job[p].run /\ zip' = zip
    BY <1>1, <1>3, ArchivedSteps DEF ZipCloses, disk
  <2>2. zip[job[p].name] = r
    BY <2>1 DEF SInv, ArchiveIsOwn, ZipCloses
  <2> QED
    BY <1>0, <1>1, <2>1, <2>2 DEF onDisk
<1>4. CASE r \in archived /\ ~onDisk(r)
  <2>1. replacedBy[r] \in archived
    BY <1>4 DEF SInv, ArchiveSurvives
  <2>2. replacedBy'[r] = replacedBy[r] \/ (DiscardsZip(p) /\ replacedBy'[r] = job[p].run)
    BY <1>0, <1>4, AsideZipSteps
  <2>3. DiscardsZip(p) => job[p].run \in archived
    BY DEF SInv, ArchiveIsOwn, DiscardsZip
  <2> QED
    BY <1>2, <2>1, <2>2, <2>3
<1>5. CASE r \in archived /\ onDisk(r)
  <2>0. r # 0
    BY <1>0, <1>5
  <2>1. CASE \E n \in Names : zip[n] = r
    <3>1. PICK n \in Names : zip[n] = r
      BY <2>1
    <3>2. zip'[n] # r
      BY <1>1, <3>1 DEF onDisk
    <3>3. CASE MovesZip(p) /\ zip' = [zip EXCEPT ![0] = 0] /\ zip[0] # 0
      <4>1. n = 0
        BY <1>0, <3>1, <3>2, <3>3
      <4>2. asideZip' = [asideZip EXCEPT ![job[p].slot] = zip[0]] /\ job[p].slot \in Slots
        BY <3>3 DEF MovesZip, zipIsThere, IInv, DayIsSetAside
      <4> QED
        BY <1>0, <1>1, <3>1, <4>1, <4>2 DEF onDisk
    <3>4. CASE ZipOpens(p) /\ zip' = [zip EXCEPT ![job[p].name] = job[p].run]
      BY <1>0, <2>0, <3>1, <3>2, <3>4 DEF ZipOpens
    <3>5. CASE ZipFails(p) /\ zip' = [zip EXCEPT ![job[p].name] = 0]
      <4>1. zip[job[p].name] = job[p].run /\ job[p].run \notin archived
        BY <3>5 DEF SInv, ArchiveIsOwn, ZipFails, at, Unfinished
      <4> QED
        BY <1>0, <1>5, <3>1, <3>2, <3>5, <4>1
    <3> QED
      BY <1>0, <3>1, <3>2, <3>3, <3>4, <3>5, ZipSteps
  <2>2. CASE \E s \in Slots : asideZip[s] = r
    <3>1. PICK s \in Slots : asideZip[s] = r
      BY <2>2
    <3>2. asideZip'[s] # r
      BY <1>1, <3>1 DEF onDisk
    <3>3. DiscardsZip(p) /\ s = job[p].slot
          /\ replacedBy' = [replacedBy EXCEPT ![asideZip[job[p].slot]] = job[p].run]
      BY <1>0, <2>0, <3>1, <3>2, AsideZipSteps
    <3>4. replacedBy'[r] = job[p].run
      BY <1>0, <1>5, <3>1, <3>3
    <3>5. job[p].run \in archived
      BY <3>3 DEF SInv, ArchiveIsOwn, DiscardsZip
    <3> QED
      BY <1>2, <3>4, <3>5
  <2> QED
    BY <1>5, <2>1, <2>2 DEF onDisk
<1> QED
  BY <1>3, <1>4, <1>5

\* What was killed or left behind stays so.
LEMMA HistoryGrows ==
  ASSUME NEW p \in Procs, Process(p) \/ Crash(p)
  PROVE  /\ crashed \subseteq crashed' /\ zipLeft \subseteq zipLeft' /\ lockLeft \subseteq lockLeft'
         /\ Crash(p) => job[p].run \in crashed'
<1>1. CASE Crash(p)
  BY <1>1 DEF Crash, left
<1>2. CASE ~Crash(p)
  BY <1>2 DEF Process, Starts, Locks, LockRefused, PreparesKept, MovesFolder, MovesZip, MakesFolder,
              PrepareFails, Settles, EndsUnarchived, ZipOpens, ZipRefused, ZipCloses, ZipFails,
              removesZip, DiscardsFolder, DiscardsZip, KeepsSuperseded, Releases, history, left
<1> QED
  BY <1>1, <1>2

\* An archive that is not finished is still being written, or its writer was killed,
\* or it could not be removed.
LEMMA KeepsTruncated ==
  ASSUME IInv, SInv, NEW p \in Procs, Process(p) \/ Crash(p)
  PROVE  TruncatedIsExplained'
<1>0. /\ TypeOK /\ 0 \in Names /\ job[p].name \in Names /\ zip \in [Names -> 0..Earlier]
      /\ job \in [Procs -> Jobs]
  BY DayIsAName DEF IInv, TypeOK, Jobs
<1>1. SUFFICES ASSUME NEW n \in Names, zip'[n] # 0, zip'[n] \notin archived'
      PROVE  \/ zip'[n] \in crashed' \cup zipLeft'
             \/ \E q \in Procs : at(q, "zipping")' /\ job'[q].run = zip'[n]
  BY DEF TruncatedIsExplained, at
<1>2. CASE ZipOpens(p) /\ n = job[p].name
  <2>1. advances(p, "zipping") /\ zip'[n] = job[p].run
    BY <1>0, <1>2, Advancing DEF ZipOpens
  <2> QED
    BY <2>1 DEF advances, at
<1>3. CASE ~(ZipOpens(p) /\ n = job[p].name)
  <2>1. zip'[n] = zip[n]
    BY <1>0, <1>1, <1>3, ZipSteps
  <2>2. zip[n] \notin archived
    BY <1>1, <2>1, ArchivedSteps
  <2>3. zip[n] \in crashed \cup zipLeft \/ \E q \in Procs : at(q, "zipping") /\ job[q].run = zip[n]
    BY <1>1, <2>1, <2>2 DEF SInv, TruncatedIsExplained
  <2>4. crashed \subseteq crashed' /\ zipLeft \subseteq zipLeft'
    BY HistoryGrows
  <2>5. CASE \E q \in Procs : at(q, "zipping") /\ job[q].run = zip[n]
    <3>1. PICK q \in Procs : at(q, "zipping") /\ job[q].run = zip[n]
      BY <2>5
    <3>2. CASE q # p
      BY <1>0, <2>1, <3>1, <3>2, OthersJobs DEF at
    <3>3. CASE q = p
      <4>1. n = job[p].name
        BY <3>1, <3>3 DEF SInv, ArchiveIsOwn, at
      <4>2. CASE ZipCloses(p)
        BY <1>1, <2>1, <3>1, <3>3, <4>2 DEF ZipCloses
      <4>3. CASE ZipFails(p)
        <5>1. CASE zip' = [zip EXCEPT ![job[p].name] = 0]
          BY <1>0, <1>1, <4>1, <5>1
        <5>2. CASE zipLeft' = zipLeft \cup {job[p].run}
          BY <2>1, <3>1, <3>3, <5>2
        <5> QED
          BY <4>3, <5>1, <5>2 DEF ZipFails, removesZip
      <4>4. CASE Crash(p)
        BY <2>1, <3>1, <3>3, <4>4, SMTT(30) DEF Crash
      <4>5. ZipCloses(p) \/ ZipFails(p) \/ Crash(p)
        BY <3>1, <3>3 DEF at, Process, Starts, Locks, LockRefused, PreparesKept, MovesFolder,
                          MovesZip, MakesFolder, PrepareFails, Settles, EndsUnarchived, ZipOpens,
                          ZipRefused, DiscardsFolder, DiscardsZip, KeepsSuperseded, Releases
      <4> QED
        BY <4>2, <4>3, <4>4, <4>5
    <3> QED
      BY <3>2, <3>3
  <2> QED
    BY <2>1, <2>3, <2>4, <2>5
<1> QED
  BY <1>2, <1>3

\* A lock is of a run that goes on, of one that was killed, or of one that could not
\* remove it.
LEMMA KeepsReleased ==
  ASSUME IInv, SInv, NEW p \in Procs, Process(p) \/ Crash(p)
  PROVE  LockIsReleased'
<1>0. /\ TypeOK /\ lock \in [Names -> 0..MaxRuns] /\ job[p].name \in Names
      /\ started \in Nat
  BY FolderAssumption DEF IInv, TypeOK, Jobs
<1>1. SUFFICES ASSUME NEW n \in Names, lock'[n] # 0
      PROVE  lock'[n] \in crashed' \cup lockLeft' \/ \E q \in Procs : job'[q].run = lock'[n]
  BY DEF LockIsReleased
<1>2. CASE Locks(p) /\ n = job[p].name
  <2>1. advances(p, "locked") /\ lock'[n] = job[p].run
    BY <1>0, <1>2, Advancing DEF Locks
  <2> QED
    BY <2>1 DEF advances
<1>3. CASE ~(Locks(p) /\ n = job[p].name)
  <2>1. lock'[n] = lock[n]
    BY <1>0, <1>1, <1>3, LockSteps
  <2>2. /\ crashed \subseteq crashed' /\ lockLeft \subseteq lockLeft'
        /\ Crash(p) => job[p].run \in crashed'
    BY HistoryGrows
  <2>3. CASE lock[n] \in crashed \cup lockLeft
    BY <2>1, <2>2, <2>3
  <2>4. CASE \E q \in Procs : job[q].run = lock[n]
    <3>1. PICK q \in Procs : job[q].run = lock[n]
      BY <2>4
    <3>2. CASE q # p
      BY <1>0, <2>1, <3>1, <3>2, OthersJobs
    <3>3. CASE q = p
      <4>0. ~at(p, "idle")
        BY <1>1, <2>1, <3>1, <3>3 DEF IInv, TypeOK, Idle
      <4>1. CASE Crash(p)
        BY <2>1, <2>2, <3>1, <3>3, <4>1
      <4>2. CASE LockRefused(p)
        BY <3>1, <3>3, <4>0, <4>2 DEF LockRefused, SInv, LockIsOwn, holds, at
      <4>3. CASE Releases(p)
        <5>1. n = job[p].name
          BY <3>1, <3>3, <4>0 DEF SInv, LockIsOwn
        <5>2. CASE lock' = [lock EXCEPT ![job[p].name] = 0]
          BY <1>0, <1>1, <5>1, <5>2
        <5>3. CASE lockLeft' = lockLeft \cup {job[p].run}
          BY <2>1, <3>1, <3>3, <5>3
        <5> QED
          BY <4>3, <5>2, <5>3 DEF Releases
      <4>4. CASE Locks(p)
        BY <1>0, <2>1, <3>1, <3>3, <4>4, Advancing DEF advances
      <4>5. CASE works(p)
        BY <2>1, <3>1, <3>3, <4>5 DEF works, goesOn
      <4>6. CASE \E keep \in BOOLEAN : Starts(p, keep)
        BY <4>0, <4>6 DEF Starts
      <4> QED
        BY <1>0, <4>1, <4>2, <4>3, <4>4, <4>5, <4>6, Kinds
    <3> QED
      BY <3>2, <3>3
  <2> QED
    BY <1>1, <2>1, <2>3, <2>4 DEF SInv, LockIsReleased
<1> QED
  BY <1>2, <1>3

\* An empty results folder is sound.
LEMMA InitSInv == Init => SInv
<1> SUFFICES ASSUME Init PROVE SInv
  OBVIOUS
<1>1. PICK before \in {{}, {Earlier}} :
        /\ zip = [n \in Names |-> IF n = 0 /\ before # {} THEN Earlier ELSE 0]
        /\ recorded = before /\ archived = before
  BY DEF Init
<1>2. 0 \in Names /\ (\A n \in Names : lock[n] = 0) /\ started = 0
      /\ \A p \in Procs : job[p] = Idle
  BY DayIsAName DEF Init
<1>3. ArchiveSurvives
  BY <1>1, <1>2 DEF ArchiveSurvives, onDisk
<1>4. TruncatedIsExplained
  BY <1>1 DEF TruncatedIsExplained
<1> QED
  BY <1>1, <1>2, <1>3, <1>4
     DEF SInv, NumbersAreStarted, ArchiveIsOwn, LockIsOwn, LockIsReleased, Idle, at, Unfinished

\* Deleting the lock of a dead run touches no archive.
LEMMA OperatorKeepsArchives ==
  ASSUME IInv, SInv, NEW n \in Names, OperatorDeletesLock(n)
  PROVE  SInv'
<1>1. /\ UNCHANGED <<started, job, dir, zip, asideDir, asideZip, history>>
      /\ \A m \in Names : lock'[m] = lock[m] \/ lock'[m] = 0
  BY DEF OperatorDeletesLock, IInv, TypeOK
<1>2. started \in Nat /\ 0 \notin 1..started
  BY FolderAssumption DEF IInv, TypeOK
<1>3. NumbersAreStarted'
  BY <1>1, <1>2 DEF SInv, NumbersAreStarted, history, left
<1>4. LockIsOwn'
  BY <1>1, <1>2 DEF SInv, LockIsOwn, IInv, RunsAreDistinct, holds, at, history, left
<1>5. LockIsReleased'
  BY <1>1 DEF SInv, LockIsReleased, history, left
<1> QED
  BY <1>1, <1>3, <1>4, <1>5
     DEF SInv, ArchiveIsOwn, ArchiveSurvives, onDisk, TruncatedIsExplained, at, history, left

\* Every step of the system keeps the disk sound.
LEMMA NextSInv == IInv /\ SInv /\ [Next]_vars => SInv'
<1> SUFFICES ASSUME IInv, SInv, [Next]_vars PROVE SInv'
  OBVIOUS
<1>1. ASSUME NEW p \in Procs, Process(p) \/ Crash(p) PROVE SInv'
  BY <1>1, KeepsNumbers, KeepsArchiveOwn, KeepsLockOwn, KeepsArchives, KeepsTruncated,
     KeepsReleased DEF SInv
<1>2. ASSUME NEW n \in Names, OperatorDeletesLock(n) PROVE SInv'
  BY <1>2, OperatorKeepsArchives
<1>3. CASE UNCHANGED vars
  BY <1>3 DEF SInv, vars, disk, history, left, NumbersAreStarted, ArchiveIsOwn, LockIsOwn,
              ArchiveSurvives, onDisk, TruncatedIsExplained, LockIsReleased, holds, at
<1> QED
  BY <1>1, <1>2, <1>3 DEF Next

\* A finished archive is never lost but to a run that finished its own, and a half
\* written one or a lock is left behind by a death alone.
THEOREM DiskStaysSound == Spec => []DiskIsSound
<1>1. IInv /\ SInv => DiskIsSound
  BY DEF IInv, SInv, DiskIsSound
<1> QED
  BY <1>1, InitSInv, NextSInv, Invariance, PTL DEF Spec

---------------------------------------------------------------------------
(* What a dead run left is kept *)

\* A process discards only a folder whose runs wrote their manifests: it decided
\* so when it had read one, in the folder or in the archive beside it.
DiscardsRecorded ==
  \A p \in Procs :
    /\ job[p].moved # {} => job[p].slot \in Slots
    /\ job[p].discards => job[p].pc \in {"settled", "zipping", "archived", "discarding", "releasing"}
    /\ job[p].discards /\ "dir" \in job[p].moved /\ job[p].pc \in {"settled", "zipping", "archived"}
         => asideDir[job[p].slot] \subseteq recorded

\* What the steps do to the plans of a job.
LEMMA Plans ==
  ASSUME TypeOK, NEW p \in Procs, Process(p) \/ Crash(p)
  PROVE  \/ job'[p].moved = {} /\ job'[p].discards = FALSE
         \/ /\ MovesFolder(p) /\ job'[p].slot \in Slots /\ job'[p].discards = job[p].discards
            /\ job'[p].pc = "movingZip"
         \/ /\ MovesZip(p) /\ job'[p].slot = job[p].slot /\ job'[p].discards = job[p].discards
            /\ job'[p].pc = "making"
         \/ /\ Settles(p) /\ job'[p].slot = job[p].slot /\ job'[p].moved = job[p].moved
            /\ job'[p].pc = "settled"
            /\ job'[p].discards => mayDiscard(p)
         \/ \E step \in Steps : advances(p, step)
<1>1. CASE \E keep \in BOOLEAN : Starts(p, keep)
  <2>1. PICK keep \in BOOLEAN, n \in Names :
          job' = [job EXCEPT ![p] = [Idle EXCEPT !.pc = "named", !.run = started + 1,
                                                 !.keep = keep, !.name = n]]
    BY <1>1 DEF Starts
  <2>2. job'[p] = [Idle EXCEPT !.pc = "named", !.run = started + 1, !.keep = keep, !.name = n]
    BY <2>1 DEF TypeOK
  <2> QED
    BY <2>2 DEF Idle
<1>2. CASE LockRefused(p) \/ Releases(p) \/ Crash(p)
  BY <1>2, Ending DEF endsRun, Idle
<1>3. CASE MovesFolder(p)
  <2> DEFINE gone == IF dir[0] = {} THEN {} ELSE {"dir"}
  <2>1. PICK s \in Slots :
          job' = [job EXCEPT ![p] = [job[p] EXCEPT !.pc = "movingZip", !.slot = s, !.moved = gone]]
    BY <1>3 DEF MovesFolder, TypeOK
  <2>2. job'[p] = [job[p] EXCEPT !.pc = "movingZip", !.slot = s, !.moved = gone]
    BY <2>1 DEF TypeOK
  <2>3. job'[p].discards = job[p].discards
    BY <2>2 DEF TypeOK, Jobs
  <2> QED
    BY <1>3, <2>3, MovingFolder
<1>4. CASE MovesZip(p) /\ zipIsThere
  <2>1. job' = [job EXCEPT
                 ![p] = [job[p] EXCEPT !.pc = "making", !.moved = job[p].moved \cup {"zip"}]]
    BY <1>4 DEF MovesZip, TypeOK
  <2>2. job'[p] = [job[p] EXCEPT !.pc = "making", !.moved = job[p].moved \cup {"zip"}]
    BY <2>1 DEF TypeOK
  <2>3. job'[p].discards = job[p].discards
    BY <2>2 DEF TypeOK, Jobs
  <2> QED
    BY <1>4, <2>3, MovingZip
<1>5. CASE MovesZip(p) /\ ~zipIsThere
  BY <1>5, Goes DEF MovesZip, Steps
<1>6. CASE Settles(p)
  <2>1. PICK d \in {FALSE, mayDiscard(p)} :
          job' = [job EXCEPT ![p] = [job[p] EXCEPT !.pc = "settled", !.discards = d]]
    BY <1>6 DEF Settles, TypeOK
  <2>2. job'[p] = [job[p] EXCEPT !.pc = "settled", !.discards = d]
    BY <2>1 DEF TypeOK
  <2>3. job'[p].discards = d
    BY <2>2 DEF TypeOK, Jobs
  <2> QED
    BY <1>6, <2>1, <2>3, Settling
<1>7. CASE \/ Locks(p) \/ PreparesKept(p) \/ MakesFolder(p) \/ PrepareFails(p) \/ EndsUnarchived(p)
           \/ ZipOpens(p) \/ ZipRefused(p) \/ ZipCloses(p) \/ ZipFails(p)
           \/ DiscardsFolder(p) \/ DiscardsZip(p) \/ KeepsSuperseded(p)
  BY <1>7, Advancing DEF Steps
<1> QED
  BY <1>1, <1>2, <1>3, <1>4, <1>5, <1>6, <1>7 DEF Process

\* A manifest that was written stays written.
LEMMA RecordedGrows ==
  ASSUME NEW p \in Procs, Process(p) \/ Crash(p)
  PROVE  recorded \subseteq recorded'
BY DEF Process, Crash, Starts, Locks, LockRefused, PreparesKept, MovesFolder, MovesZip, MakesFolder,
       PrepareFails, Settles, EndsUnarchived, ZipOpens, ZipRefused, ZipCloses, ZipFails,
       DiscardsFolder, DiscardsZip, KeepsSuperseded, Releases, history, left

\* The manifest read in the archive set aside is the one of the folder set aside
\* with it: the pair is of one run.
LEMMA ScopeIsOfTheFolder ==
  ASSUME IInv, NEW p \in Procs, mayDiscard(p), "dir" \in job[p].moved, job[p].slot \in Slots
  PROVE  asideDir[job[p].slot] \subseteq recorded
<1> DEFINE s == job[p].slot
<1>1. CASE "dir" \in job[p].moved /\ asideDir[s] \subseteq recorded
  BY <1>1
<1>2. CASE "zip" \in job[p].moved /\ asideZip[s] \in recorded \cap archived
  <2>1. asideZip[s] # 0
    BY <1>2 DEF IInv, TypeOK, Runs
  <2>2. asideDir[s] # {} => asideZip[s] \in asideDir[s]
    BY <2>1 DEF IInv, PairIsOneRun
  <2>3. \A r \in asideDir[s] : r = asideZip[s]
    BY <2>2 DEF IInv, NoMixture
  <2> QED
    BY <1>2, <2>3
<1> QED
  BY <1>1, <1>2 DEF mayDiscard, scopeIsRead

\* Every step of a process keeps DiscardsRecorded.
LEMMA KeepsDiscards ==
  ASSUME IInv, DiscardsRecorded, NEW p \in Procs, Process(p) \/ Crash(p)
  PROVE  DiscardsRecorded'
<1> DEFINE Ready == {"settled", "zipping", "archived"}
           Late == Ready \cup {"discarding", "releasing"}
<1>0. TypeOK /\ recorded \subseteq recorded'
  BY RecordedGrows DEF IInv
<1>1. SUFFICES ASSUME NEW q \in Procs
      PROVE  /\ job'[q].moved # {} => job'[q].slot \in Slots
             /\ job'[q].discards => job'[q].pc \in Late
             /\ job'[q].discards /\ "dir" \in job'[q].moved /\ job'[q].pc \in Ready
                  => asideDir'[job'[q].slot] \subseteq recorded'
  BY DEF DiscardsRecorded
<1>2. CASE q # p
  <2>1. job'[q] = job[q]
    BY <1>0, <1>2, OthersJobs
  <2>2. CASE job[q].pc \in Ready /\ "dir" \in job[q].moved
    <3>1. holds(q) /\ job[q].name = 0
      BY <2>2 DEF holds, IInv, DayIsSetAside
    <3>2. asideDir' = asideDir
      BY <1>2, <3>1, OthersDisk DEF IInv
    <3> QED
      BY <1>0, <2>1, <3>2 DEF DiscardsRecorded
  <2> QED
    BY <2>1, <2>2 DEF DiscardsRecorded
<1>3. CASE q = p /\ job'[p].moved = {} /\ job'[p].discards = FALSE
  BY <1>3
<1>4. CASE q = p /\ MovesFolder(p) /\ job'[p].slot \in Slots /\ job'[p].discards = job[p].discards
           /\ job'[p].pc = "movingZip"
  BY <1>4 DEF DiscardsRecorded, MovesFolder, at
<1>5. CASE q = p /\ MovesZip(p) /\ job'[p].slot = job[p].slot /\ job'[p].discards = job[p].discards
           /\ job'[p].pc = "making"
  BY <1>5 DEF DiscardsRecorded, MovesZip, at, IInv, DayIsSetAside
<1>6. CASE q = p /\ Settles(p) /\ job'[p].slot = job[p].slot /\ job'[p].moved = job[p].moved
           /\ job'[p].pc = "settled" /\ (job'[p].discards => mayDiscard(p))
  <2>1. asideDir' = asideDir
    BY <1>6 DEF Settles, disk
  <2>2. mayDiscard(p) /\ "dir" \in job[p].moved => asideDir[job[p].slot] \subseteq recorded
    BY ScopeIsOfTheFolder DEF DiscardsRecorded
  <2> QED
    BY <1>0, <1>6, <2>1, <2>2 DEF DiscardsRecorded
<1>7. CASE q = p /\ \E step \in Steps : advances(p, step)
  <2>1. PICK step \in Steps : advances(p, step)
    BY <1>7
  <2>2. /\ job'[p].pc = step /\ job'[p].slot = job[p].slot /\ job'[p].moved = job[p].moved
        /\ job'[p].discards = job[p].discards
    BY <2>1 DEF advances
  <2>3. job[p].pc \in Late => job'[p].pc \in Late \cup {"idle"}
    <3>1. job[p].pc \in Late =>
            \/ ZipOpens(p) \/ ZipRefused(p) \/ ZipCloses(p) \/ ZipFails(p)
            \/ DiscardsFolder(p) \/ DiscardsZip(p) \/ KeepsSuperseded(p)
            \/ Releases(p) \/ Crash(p)
      BY DEF at, Process, Starts, Locks, LockRefused, PreparesKept, MovesFolder, MovesZip,
             MakesFolder, PrepareFails, Settles, EndsUnarchived
    <3>2. Releases(p) \/ Crash(p) => job'[p].pc = "idle"
      BY <1>0, Ending DEF endsRun, Idle
    <3>3. ZipOpens(p) \/ ZipRefused(p) \/ ZipCloses(p) \/ ZipFails(p) => job'[p].pc \in Late
      BY <1>0, Advancing DEF advances
    <3>4. DiscardsFolder(p) \/ DiscardsZip(p) \/ KeepsSuperseded(p) => job'[p].pc \in Late
      BY <1>0, Advancing DEF advances
    <3> HIDE DEF Late
    <3> QED
      BY <3>1, <3>2, <3>3, <3>4
  <2>4. job'[p].pc = "idle" => job'[p].discards = FALSE
    BY <1>0, KeepsJobs DEF at, Idle
  <2>5. job'[p].pc \in Ready \ {"settled"} => job[p].pc \in Ready /\ asideDir' = asideDir
    BY <1>0, CameFrom DEF at, ZipOpens, ZipCloses, disk
  <2>6. job'[p].pc # "settled" \/ Settles(p)
    BY <1>0, CameFrom DEF at
  <2>7. CASE Settles(p)
    <3>1. ~job[p].discards
      BY <2>7 DEF DiscardsRecorded, Settles, at
    <3> QED
      BY <1>1, <1>7, <2>2, <3>1 DEF DiscardsRecorded
  <2>8. CASE ~Settles(p)
    BY <1>0, <1>7, <2>2, <2>3, <2>4, <2>5, <2>6, <2>8 DEF DiscardsRecorded
  <2> QED
    BY <2>7, <2>8
<1> QED
  BY <1>0, <1>2, <1>3, <1>4, <1>5, <1>6, <1>7, Plans

\* Every step of the system keeps DiscardsRecorded.
LEMMA NextDiscards == IInv /\ DiscardsRecorded /\ [Next]_vars => DiscardsRecorded'
<1> SUFFICES ASSUME IInv, DiscardsRecorded, [Next]_vars PROVE DiscardsRecorded'
  OBVIOUS
<1>1. ASSUME NEW p \in Procs, Process(p) \/ Crash(p) PROVE DiscardsRecorded'
  BY <1>1, KeepsDiscards
<1>2. ASSUME NEW n \in Names, OperatorDeletesLock(n) PROVE DiscardsRecorded'
  BY <1>2 DEF OperatorDeletesLock, history, left, DiscardsRecorded
<1>3. CASE UNCHANGED vars
  BY <1>3 DEF vars, disk, history, left, DiscardsRecorded
<1> QED
  BY <1>1, <1>2, <1>3 DEF Next

\* The folders a run may be found in.
foundRun(r) == (\E n \in Names : r \in dir[n]) \/ (\E s \in Slots : r \in asideDir[s])

\* A run whose manifest was not written is not deleted: it is moved at most.
LEMMA RunIsKept ==
  ASSUME IInv, DiscardsRecorded, NEW p \in Procs, Process(p) \/ Crash(p),
         NEW r, r \notin recorded, foundRun(r)
  PROVE  foundRun(r)'
<1>0. /\ TypeOK /\ 0 \in Names /\ job[p].name \in Names
      /\ dir \in [Names -> SUBSET Runs] /\ asideDir \in [Slots -> SUBSET Runs]
  BY DayIsAName DEF IInv, TypeOK, Jobs
<1> USE DEF foundRun
<1>1. CASE PreparesKept(p)
  BY <1>0, <1>1 DEF PreparesKept, RunNameTaken
<1>2. CASE MovesFolder(p)
  <2>1. /\ job'[p].slot \in Slots /\ asideDir[job'[p].slot] = {}
        /\ dir' = [dir EXCEPT ![0] = {}]
        /\ asideDir' = [asideDir EXCEPT ![job'[p].slot] = dir[0]]
    BY <1>0, <1>2, MovingFolder
  <2> QED
    BY <1>0, <2>1
<1>3. CASE MakesFolder(p)
  BY <1>0, <1>3 DEF MakesFolder
<1>4. CASE DiscardsFolder(p)
  <2>1. dir' = dir
    BY <1>4 DEF DiscardsFolder
  <2>3. "dir" \in job[p].moved =>
          asideDir' = asideDir \/ asideDir' = [asideDir EXCEPT ![job[p].slot] = {}]
    BY <1>4 DEF DiscardsFolder
  <2>4. "dir" \notin job[p].moved => asideDir' = asideDir
    BY <1>4 DEF DiscardsFolder
  <2>2. "dir" \in job[p].moved => asideDir[job[p].slot] \subseteq recorded
    BY <1>4 DEF DiscardsFolder, DiscardsRecorded, at
  <2> QED
    BY <1>0, <2>1, <2>2, <2>3, <2>4
<1>5. CASE MovesZip(p) \/ ZipOpens(p) \/ ZipFails(p) \/ DiscardsZip(p)
  BY <1>5 DEF MovesZip, ZipOpens, ZipFails, DiscardsZip
<1>6. CASE Quiet(p)
  BY <1>6, QuietSteps DEF diskIsLeft
<1> QED
  BY <1>1, <1>2, <1>3, <1>4, <1>5, <1>6 DEF Process, Quiet

\* Whatever reruns follow a run that died, what it left stays to be read.
THEOREM EvidenceStays == Spec => EvidenceIsKept
<1> DEFINE Kept == \A r \in crashed \ recorded :
              LET found == (\E n \in Names : r \in dir[n]) \/ (\E s \in Slots : r \in asideDir[s])
              IN  found => found'
<1>1. Init => DiscardsRecorded
  BY DEF Init, DiscardsRecorded, Idle
<1>2. IInv /\ DiscardsRecorded /\ [Next]_vars => [Kept]_vars
  <2> SUFFICES ASSUME IInv, DiscardsRecorded, Next PROVE Kept
    OBVIOUS
  <2>1. ASSUME NEW p \in Procs, Process(p) \/ Crash(p) PROVE Kept
    BY <2>1, RunIsKept DEF foundRun
  <2>2. ASSUME NEW n \in Names, OperatorDeletesLock(n) PROVE Kept
    BY <2>2 DEF OperatorDeletesLock
  <2> QED
    BY <2>1, <2>2 DEF Next
<1> QED
  BY <1>1, <1>2, NextDiscards, Invariance, PTL DEF Spec, EvidenceIsKept

---------------------------------------------------------------------------
(* Refinement: the archives of a directory keep ArchiveContract *)

Shown == [r \in Runs |-> archiveOf(r)]

\* A process that has closed its archive has it under its name until it releases.
ArchiveInPlace ==
  \A p \in Procs :
    at(p, "archived") \/ at(p, "discarding") => zip[job[p].name] = job[p].run

\* Nobody else takes it from there, and the process itself deletes what is aside.
LEMMA KeepsInPlace ==
  ASSUME IInv, SInv, ArchiveInPlace, NEW p \in Procs, Process(p) \/ Crash(p)
  PROVE  ArchiveInPlace'
<1> SUFFICES ASSUME NEW q \in Procs, at(q, "archived")' \/ at(q, "discarding")'
             PROVE  zip'[job'[q].name] = job'[q].run
  BY DEF ArchiveInPlace, at
<1>1. CASE q # p
  <2>1. job'[q] = job[q]
    BY <1>1, OthersJobs DEF IInv
  <2>2. at(q, "archived") \/ at(q, "discarding")
    BY <2>1 DEF at
  <2>3. zip'[job[q].name] = zip[job[q].name]
    BY <1>1, <2>2, OthersDisk DEF IInv, holds, at
  <2> QED
    BY <2>1, <2>2, <2>3 DEF ArchiveInPlace
<1>2. CASE q = p
  <2>1. CASE ZipCloses(p)
    <3>1. at(p, "zipping") /\ zip' = zip
      BY <2>1 DEF ZipCloses, disk
    <3>2. zip[job[p].name] = job[p].run
      BY <3>1 DEF SInv, ArchiveIsOwn
    <3>3. job'[p].name = job[p].name /\ job'[p].run = job[p].run
      BY <2>1, Working DEF IInv, works, goesOn
    <3> QED
      BY <1>2, <3>1, <3>2, <3>3
  <2>2. CASE DiscardsFolder(p)
    <3>1. at(p, "archived") /\ zip' = zip
      BY <2>2 DEF DiscardsFolder
    <3>2. job'[p].name = job[p].name /\ job'[p].run = job[p].run
      BY <2>2, Working DEF IInv, works, goesOn
    <3> QED
      BY <1>2, <3>1, <3>2 DEF ArchiveInPlace
  <2> QED
    BY <1>2, <2>1, <2>2, CameFrom DEF IInv
<1> QED
  BY <1>1, <1>2

\* And it is there in every behaviour.
LEMMA InPlace == Spec => []ArchiveInPlace
<1>1. Init => ArchiveInPlace
  BY DEF Init, ArchiveInPlace, Idle, at
<1>2. IInv /\ SInv /\ ArchiveInPlace /\ [Next]_vars => ArchiveInPlace'
  <2> SUFFICES ASSUME IInv, SInv, ArchiveInPlace, [Next]_vars PROVE ArchiveInPlace'
    OBVIOUS
  <2>1. CASE UNCHANGED <<job, zip>>
    BY <2>1 DEF ArchiveInPlace, at
  <2>2. CASE \E p \in Procs : Process(p) \/ Crash(p)
    BY <2>2, KeepsInPlace
  <2> QED
    BY <2>1, <2>2 DEF Next, OperatorDeletesLock, vars, disk
<1> QED
  BY <1>1, <1>2, Invariance, InitSInv, NextSInv, PTL DEF Spec

\* Which archives a step may bring to the disk or take from it: the one its run
\* writes, and the one its process set aside.
LEMMA OnDiskSteps ==
  ASSUME IInv, SInv, NEW p \in Procs, Process(p) \/ Crash(p), NEW r \in Runs, onDisk(r)' # onDisk(r)
  PROVE  \/ (ZipOpens(p) \/ ZipFails(p)) /\ r = job[p].run
         \/ DiscardsZip(p) /\ job[p].slot \in Slots /\ r = asideZip[job[p].slot] /\ onDisk(r)
<1>0. /\ TypeOK /\ 0 \in Names /\ job[p].name \in Names /\ r # 0
      /\ zip \in [Names -> 0..Earlier] /\ asideZip \in [Slots -> 0..Earlier]
  <2>1. TypeOK /\ 0 \in Names /\ r # 0
    BY DayIsAName DEF IInv, Runs
  <2> QED
    BY <2>1 DEF TypeOK, Jobs
<1>1. CASE MovesZip(p)
  <2>1. job[p].slot \in Slots /\ asideZip[job[p].slot] = 0
    BY <1>1 DEF IInv, DayIsSetAside, MoveIsHalfDone, MovesZip
  <2>2. \/ UNCHANGED <<zip, asideZip>>
        \/ /\ zip' = [zip EXCEPT ![0] = 0]
           /\ asideZip' = [asideZip EXCEPT ![job[p].slot] = zip[0]]
    BY <1>1 DEF MovesZip
  <2>3. CASE UNCHANGED <<zip, asideZip>>
    BY <2>3 DEF onDisk
  <2>4. CASE /\ zip' = [zip EXCEPT ![0] = 0]
             /\ asideZip' = [asideZip EXCEPT ![job[p].slot] = zip[0]]
    <3>1. /\ \A n \in Names : zip'[n] = r => zip[n] = r
          /\ \A n \in Names : zip[n] = r => zip'[n] = r \/ asideZip'[job[p].slot] = r
          /\ \A s \in Slots : asideZip[s] = r => asideZip'[s] = r
          /\ \A s \in Slots : asideZip'[s] = r => asideZip[s] = r \/ zip[0] = r
      BY <1>0, <2>1, <2>4
    <3> QED
      BY <1>0, <2>1, <3>1 DEF onDisk
  <2> QED
    BY <2>2, <2>3, <2>4
<1>2. CASE ZipOpens(p)
  <2>1. asideZip' = asideZip /\ zip[job[p].name] = 0 /\ zip' = [zip EXCEPT ![job[p].name] = job[p].run]
    BY <1>2 DEF ZipOpens
  <2> QED
    BY <1>0, <1>2, <2>1 DEF onDisk
<1>3. CASE ZipFails(p)
  <2>0. asideZip' = asideZip /\ (zip' = [zip EXCEPT ![job[p].name] = 0] \/ zip' = zip)
    BY <1>3 DEF ZipFails, removesZip
  <2>1. asideZip' = asideZip /\ zip' = [zip EXCEPT ![job[p].name] = 0]
    BY <1>0, <2>0 DEF onDisk
  <2>2. PICK n \in Names : zip[n] = r /\ zip'[n] # r
    BY <1>0, <2>1 DEF onDisk
  <2>3. n = job[p].name /\ zip[job[p].name] = job[p].run
    BY <1>0, <1>3, <2>1, <2>2 DEF SInv, ArchiveIsOwn, ZipFails
  <2> QED
    BY <1>3, <2>2, <2>3
<1>4. CASE DiscardsZip(p)
  <2>1. zip' = zip
    BY <1>4 DEF DiscardsZip
  <2>2. asideZip' = asideZip \/ asideZip' = [asideZip EXCEPT ![job[p].slot] = 0]
    BY <1>4 DEF DiscardsZip
  <2>3. PICK s \in Slots : asideZip[s] # asideZip'[s] /\ (asideZip[s] = r \/ asideZip'[s] = r)
    BY <2>1 DEF onDisk
  <2>4. s = job[p].slot /\ asideZip'[s] = 0 /\ asideZip[s] = r
    BY <1>0, <2>2, <2>3
  <2> QED
    BY <1>4, <2>4 DEF onDisk
<1>5. CASE ~MovesZip(p) /\ ~ZipOpens(p) /\ ~ZipFails(p) /\ ~DiscardsZip(p)
  <2>1. zip' = zip
    BY <1>0, <1>5, ZipSteps
  <2>2. asideZip' = asideZip
    BY <1>5, AsideZipSteps
  <2> QED
    BY <2>1, <2>2 DEF onDisk
<1> QED
  BY <1>1, <1>2, <1>3, <1>4, <1>5

\* When one archive alone changes, all that is shown changes in its place.
LEMMA OneChanges ==
  ASSUME NEW r \in Runs, \A s \in Runs \ {r} : archiveOf(s)' = archiveOf(s)
  PROVE  Shown' = [Shown EXCEPT ![r] = archiveOf(r)']
BY DEF Shown

\* A step of a process is a step of the contract, or shows nothing.
LEMMA StepKeepsContract ==
  ASSUME IInv, SInv, ArchiveInPlace, NEW p \in Procs, Process(p) \/ Crash(p)
  PROVE  Archive!Changes \/ UNCHANGED Shown
<1>a. PICK run, old : run = job[p].run /\ old = asideZip[job[p].slot]
  OBVIOUS
<1>0. TypeOK /\ 0 \notin Runs /\ archived \subseteq Runs /\ (~at(p, "idle") => run \in Runs)
  <2>1. TypeOK /\ archived \subseteq Runs /\ started \in 0..MaxRuns /\ 0 \notin Runs
    BY DEF IInv, TypeOK, Runs
  <2>2. ~at(p, "idle") => run \in 1..started
    BY <1>a DEF IInv, RunsAreDistinct
  <2> QED
    BY <2>1, <2>2, FolderAssumption DEF Runs, Earlier
<1>1. CASE ZipOpens(p)
  <2>1. /\ run \in Runs /\ run \notin archived /\ archived' = archived
    BY <1>a, <1>0, <1>1 DEF ZipOpens, SInv, ArchiveIsOwn, Unfinished, at, history, left
  <2>2. \A s \in Runs \ {run} : archiveOf(s)' = archiveOf(s)
    BY <1>a, <1>1, <2>1, OnDiskSteps DEF archiveOf, ZipOpens, DiscardsZip, at
  <2>3. archiveOf(run) \in {"none", "part"} /\ archiveOf(run)' \in {"none", "part"}
    BY <2>1 DEF archiveOf
  <2>4. onDisk(run)'
    BY <1>a, <1>0, <1>1 DEF ZipOpens, onDisk, TypeOK, Jobs
  <2>5. archiveOf(run)' = "part"
    BY <2>1, <2>4 DEF archiveOf
  <2> QED
    BY <2>1, <2>2, <2>3, <2>5, OneChanges DEF Archive!Changes, Archive!Opens, Shown
<1>2. CASE ZipFails(p)
  <2>1. /\ run \in Runs /\ run \notin archived /\ archived' = archived
        /\ zip[job[p].name] = run /\ job[p].name \in Names
    BY <1>a, <1>0, <1>2 DEF ZipFails, SInv, ArchiveIsOwn, Unfinished, at, history, left, TypeOK, Jobs
  <2>2. \A s \in Runs \ {run} : archiveOf(s)' = archiveOf(s)
    BY <1>a, <1>2, <2>1, OnDiskSteps DEF archiveOf, ZipFails, DiscardsZip, at
  <2>3. archiveOf(run) = "part" /\ archiveOf(run)' \in {"none", "part"}
    BY <2>1 DEF archiveOf, onDisk
  <2> QED
    BY <2>1, <2>2, <2>3, OneChanges DEF Archive!Changes, Archive!Removes, Shown
<1>3. CASE ZipCloses(p)
  <2>1. /\ run \in Runs /\ run \notin archived /\ archived' = archived \cup {run}
        /\ zip[job[p].name] = run /\ job[p].name \in Names /\ zip' = zip /\ asideZip' = asideZip
    BY <1>a, <1>0, <1>3 DEF ZipCloses, SInv, ArchiveIsOwn, Unfinished, at, disk, TypeOK, Jobs
  <2>2. \A s \in Runs : onDisk(s)' = onDisk(s)
    BY <2>1 DEF onDisk
  <2>3. \A s \in Runs \ {run} : archiveOf(s)' = archiveOf(s)
    BY <2>1, <2>2 DEF archiveOf
  <2>4. archiveOf(run) = "part" /\ archiveOf(run)' = "whole"
    BY <2>1 DEF archiveOf, onDisk
  <2> QED
    BY <2>1, <2>3, <2>4, OneChanges DEF Archive!Changes, Archive!Closes, Shown
<1>4. CASE DiscardsZip(p)
  <2>1. /\ run \in Runs /\ run \in archived /\ archived' = archived
        /\ zip[job[p].name] = run /\ job[p].name \in Names /\ zip' = zip
    BY <1>a, <1>0, <1>4 DEF DiscardsZip, SInv, ArchiveIsOwn, ArchiveInPlace, at, TypeOK, Jobs
  <2>2. archiveOf(run) = "whole" /\ archiveOf(run)' = "whole"
    BY <2>1 DEF archiveOf, onDisk
  <2>3. \A s \in Runs : s # old => archiveOf(s)' = archiveOf(s)
    BY <1>a, <1>4, <2>1, OnDiskSteps DEF archiveOf, ZipOpens, ZipFails, DiscardsZip, at
  <2>4. CASE \A s \in Runs : archiveOf(s)' = archiveOf(s)
    BY <2>4 DEF Shown
  <2>5. CASE \E s \in Runs : archiveOf(s)' # archiveOf(s)
    <3>1. PICK s \in Runs : archiveOf(s)' # archiveOf(s)
      BY <2>5
    <3>2. s = old /\ s # run /\ \A t \in Runs \ {s} : archiveOf(t)' = archiveOf(t)
      BY <2>2, <2>3, <3>1
    <3>3. onDisk(s)' # onDisk(s)
      BY <2>1, <3>1 DEF archiveOf
    <3>4. onDisk(s) /\ ~onDisk(s)'
      <4>1. onDisk(s)
        BY <1>4, <3>3, OnDiskSteps DEF ZipOpens, ZipFails, DiscardsZip, at
      <4>2. onDisk(s) \in BOOLEAN /\ onDisk(s)' \in BOOLEAN
        BY DEF onDisk
      <4> QED
        BY <3>3, <4>1, <4>2
    <3>5. CASE s \in archived
      <4>1. archiveOf(s) = "whole" /\ archiveOf(s)' = "given up"
        BY <2>1, <3>4, <3>5 DEF archiveOf
      <4> QED
        BY <2>1, <2>2, <3>2, <4>1, OneChanges DEF Archive!Changes, Archive!GivesUp, Shown
    <3>6. CASE s \notin archived
      <4>1. archiveOf(s) = "part" /\ archiveOf(s)' = "none"
        BY <2>1, <3>4, <3>6 DEF archiveOf
      <4> QED
        BY <3>2, <4>1, OneChanges DEF Archive!Changes, Archive!Removes, Shown
    <3> QED
      BY <3>5, <3>6
  <2> QED
    BY <2>4, <2>5
<1>5. CASE ~ZipOpens(p) /\ ~ZipFails(p) /\ ~ZipCloses(p) /\ ~DiscardsZip(p)
  <2>1. archived' = archived
    BY <1>5, ArchivedSteps
  <2>2. \A s \in Runs : archiveOf(s)' = archiveOf(s)
    BY <1>5, <2>1, OnDiskSteps DEF archiveOf
  <2> QED
    BY <2>2 DEF Shown
<1> QED
  BY <1>1, <1>2, <1>3, <1>4, <1>5

\* Whatever processes race and die, the archives of a directory keep their contract:
\* no step loses a closed archive, opens one twice or gives one up but to another that
\* is closed.
THEOREM ArchivesKeepContract == Spec => KeepsArchiveContract
<1>1. Init => Archive!Init
  <2> SUFFICES ASSUME Init PROVE Archive!Init
    OBVIOUS
  <2>1. PICK before \in {{}, {Earlier}} :
          /\ zip = [n \in Names |-> IF n = 0 /\ before # {} THEN Earlier ELSE 0]
          /\ archived = before
    BY DEF Init
  <2>2. 0 \in Names /\ \A s \in Slots : asideZip[s] = 0
    BY DayIsAName DEF Init
  <2>3. \A r \in Runs : archiveOf(r) \in {"none", "whole"}
    BY <2>1, <2>2 DEF archiveOf, onDisk, Runs
  <2> QED
    BY <2>3 DEF Archive!Init
<1>2. IInv /\ SInv /\ ArchiveInPlace /\ [Next]_vars => [Archive!Next]_Shown
  <2> SUFFICES ASSUME IInv, SInv, ArchiveInPlace, [Next]_vars, Shown' # Shown
               PROVE  Archive!Next
    OBVIOUS
  <2>1. CASE UNCHANGED <<zip, asideZip, archived>>
    BY <2>1 DEF Shown, archiveOf, onDisk
  <2>2. CASE \E p \in Procs : Process(p) \/ Crash(p)
    BY <2>2, StepKeepsContract DEF Archive!Next, Shown
  <2> QED
    BY <2>1, <2>2 DEF Next, OperatorDeletesLock, vars, disk, history, left
<1> QED
  BY <1>1, <1>2, Invariance, InitSInv, NextSInv, InPlace, PTL
     DEF Spec, KeepsArchiveContract, Archive!Spec, Shown

\* What the contract is for: a directory that ever held a whole archive holds one,
\* for the contract alone says so.
THEOREM OneArchiveRemains == Spec => []Archive!OneRemains
<1>1. Archive!Init => Archive!OneRemains
  BY DEF Archive!Init, Archive!OneRemains
<1>2. Archive!OneRemains /\ [Archive!Next]_Shown => Archive!OneRemains'
  <2> SUFFICES ASSUME Archive!OneRemains, [Archive!Next]_Shown PROVE Archive!OneRemains'
    OBVIOUS
  <2>1. CASE UNCHANGED Shown
    BY <2>1 DEF Archive!OneRemains, Shown
  <2>2. CASE Archive!Changes
    BY <2>2 DEF Archive!OneRemains, Archive!Changes, Archive!Opens, Archive!Closes, Archive!Removes,
       Archive!GivesUp
  <2> QED
    BY <2>1, <2>2 DEF Archive!Next
<1> QED
  BY <1>1, <1>2, ArchivesKeepContract, PTL DEF KeepsArchiveContract, Archive!Spec, Shown

=============================================================================
