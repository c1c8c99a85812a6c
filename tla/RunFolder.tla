------------------------------ MODULE RunFolder ------------------------------
(***************************************************************************)
(* The run folders under one output directory: several processes collect   *)
(* the same server on the same day, with or without --keep, and any of     *)
(* them may be killed between two operations on the disk.                  *)
(*                                                                         *)
(* A name is the place of one run: a folder, the archive beside it and the *)
(* lock beside both.  Name 0 is the day's; the others are the ones --keep  *)
(* tries in order.  All runs fall in the same second, which is the worst   *)
(* case for the names the code makes of the time.  A file operation is one *)
(* step; a scan of names, which only reads, belongs to the step it serves. *)
(***************************************************************************)
EXTENDS Naturals, FiniteSets

CONSTANTS
  Procs,     \* the processes
  MaxRuns,   \* bound: how many runs are started
  MaxLeft    \* bound: how many removals the disk refuses

ASSUME FolderAssumption == IsFiniteSet(Procs) /\ MaxRuns \in Nat \ {0} /\ MaxLeft \in Nat

\* The run of the day that was there before, if there was one, is the last number.
Earlier == MaxRuns + 1
Runs    == 1..Earlier
Names   == 0..MaxRuns
Slots   == 1..MaxRuns  \* the .superseded names of the day's name, in order

VARIABLES
  started,   \* the runs started so far
  job,       \* what each process is doing
  \* the disk
  dir,       \* the runs that wrote into the folder of a name, {} when it is absent
  zip,       \* the run an archive is of, 0 when it is absent
  lock,      \* the run that holds the lock file, 0 when it is absent
  asideDir, asideZip,  \* the same under a .superseded name
  \* history
  recorded,  \* the runs whose folder holds their manifest
  archived,  \* the runs whose archive was closed
  crashed,   \* the runs that were killed
  zipLeft,   \* the runs whose failed archive could not be removed
  lockLeft,  \* the runs whose lock file could not be removed
  replacedBy \* the run that deleted another's archive

disk    == <<dir, zip, lock, asideDir, asideZip>>
left    == <<zipLeft, lockLeft>>
history == <<recorded, archived, crashed, left, replacedBy>>
vars    == <<started, job, disk, history>>

Steps == {"idle", "named", "locked", "movingZip", "making", "collecting", "settled",
          "zipping", "archived", "discarding", "releasing"}
Idle == [pc |-> "idle", run |-> 0, keep |-> FALSE, name |-> 0, slot |-> 0,
         moved |-> {}, discards |-> FALSE]

Init ==
  /\ started = 0 /\ job = [p \in Procs |-> Idle]
  /\ \E before \in {{}, {Earlier}} :
       /\ dir = [n \in Names |-> IF n = 0 THEN before ELSE {}]
       /\ zip = [n \in Names |-> IF n = 0 /\ before # {} THEN Earlier ELSE 0]
       /\ recorded = before /\ archived = before
  /\ lock = [n \in Names |-> 0]
  /\ asideDir = [s \in Slots |-> {}] /\ asideZip = [s \in Slots |-> 0]
  /\ crashed = {} /\ zipLeft = {} /\ lockLeft = {} /\ replacedBy = [r \in Runs |-> 0]

at(p, step) == job[p].pc = step
goes(p, step) == job' = [job EXCEPT ![p].pc = step]

---------------------------------------------------------------------------
(* Before the run: its name and its lock *)

RunNameTaken_folderOnly(n) == dir[n] # {}
RunNameTaken(n) == dir[n] # {} \/ zip[n] # 0

\* RunFolderFor: the day's name, or with --keep the first that is free.
RunFolderFor(keep, n) ==
  IF keep THEN ~RunNameTaken(n) /\ \A m \in Names : m < n => RunNameTaken(m)
          ELSE n = 0

\* The name is chosen, before the lock is taken on it.
Starts(p, keep) ==
  /\ at(p, "idle") /\ started < MaxRuns
  /\ started' = started + 1
  /\ \E n \in Names :
       /\ RunFolderFor(keep, n)
       /\ job' = [job EXCEPT ![p] = [Idle EXCEPT !.pc = "named", !.run = started + 1,
                                                 !.keep = keep, !.name = n]]
  /\ UNCHANGED <<disk, history>>

\* lockRun: O_EXCL makes the check and the claim one operation.
lockIsFree_anyway(n) == TRUE
lockIsFree(n) == lock[n] = 0
Locks(p) ==
  /\ at(p, "named") /\ lockIsFree(job[p].name)
  /\ goes(p, "locked")
  /\ lock' = [lock EXCEPT ![job[p].name] = job[p].run]
  /\ UNCHANGED <<started, dir, zip, asideDir, asideZip, history>>

\* The name is held, or cannot be claimed.  Nothing is to be released.
ends_keepsItsPlans(p) == goes(p, "idle")
ends(p) == job' = [job EXCEPT ![p] = Idle]
LockRefused(p) ==
  /\ at(p, "named")
  /\ ends(p)
  /\ UNCHANGED <<started, disk, history>>

---------------------------------------------------------------------------
(* prepareRunFolder *)

refuse_keepsTheLock(p) == ends(p)
refuse(p) == goes(p, "releasing")

PreparesKept(p) ==
  /\ at(p, "locked") /\ job[p].keep
  /\ IF RunNameTaken(job[p].name)
       THEN refuse(p) /\ UNCHANGED dir
       ELSE goes(p, "collecting") /\ dir' = [dir EXCEPT ![job[p].name] = {job[p].run}]
  /\ UNCHANGED <<started, zip, lock, asideDir, asideZip, history>>

supersededNameTaken_folderOnly(s) == asideDir[s] # {}
supersededNameTaken(s) == asideDir[s] # {} \/ asideZip[s] # 0

\* The first .superseded name that neither a folder nor an archive has taken.
dest(s) == ~supersededNameTaken(s) /\ \A t \in Slots : t < s => supersededNameTaken(t)

\* The folder is renamed first, if there is one.
MovesFolder(p) ==
  /\ at(p, "locked") /\ ~job[p].keep
  /\ \E s \in Slots :
       /\ dest(s)
       /\ job' = [job EXCEPT ![p].pc = "movingZip", ![p].slot = s,
                              ![p].moved = IF dir[0] = {} THEN {} ELSE {"dir"}]
       /\ dir' = [dir EXCEPT ![0] = {}]
       /\ asideDir' = [asideDir EXCEPT ![s] = dir[0]]
  /\ UNCHANGED <<started, zip, lock, asideZip, history>>

\* Then the archive; a rename over another archive would replace it.
zipIsThere_notLooked == FALSE
zipIsThere == zip[0] # 0
MovesZip(p) ==
  /\ at(p, "movingZip")
  /\ IF zipIsThere
       THEN /\ job' = [job EXCEPT ![p].pc = "making", ![p].moved = @ \cup {"zip"}]
            /\ zip' = [zip EXCEPT ![0] = 0]
            /\ asideZip' = [asideZip EXCEPT ![job[p].slot] = zip[0]]
       ELSE goes(p, "making") /\ UNCHANGED <<zip, asideZip>>
  /\ UNCHANGED <<started, dir, lock, asideDir, history>>

\* MkdirAll succeeds on a folder that is there.
MakesFolder(p) ==
  /\ at(p, "making")
  /\ goes(p, "collecting")
  /\ dir' = [dir EXCEPT ![0] = @ \cup {job[p].run}]
  /\ UNCHANGED <<started, zip, lock, asideDir, asideZip, history>>

\* Any of them can fail, a file being open elsewhere: what was moved stays where it
\* was moved to.
PrepareFails(p) ==
  /\ job[p].pc \in {"locked", "movingZip", "making"}
  /\ refuse(p)
  /\ UNCHANGED <<started, disk, history>>

---------------------------------------------------------------------------
(* The end of the run *)

\* supersededScope: the manifest in the folder set aside or, failing that, in the
\* archive.
scopeIsRead_always(p) == TRUE
scopeIsRead(p) ==
  \/ "dir" \in job[p].moved /\ asideDir[job[p].slot] \subseteq recorded
  \/ "zip" \in job[p].moved /\ asideZip[job[p].slot] \in recorded \cap archived

\* previousRunLost is "" only of a scope that was read, and of no run at all.
mayDiscard(p) == job[p].moved = {} \/ scopeIsRead(p)

\* The loop is over: the exit code is settled, the previous run compared, and the
\* manifest written, in the folder or in a temporary directory.
Settles(p) ==
  /\ at(p, "collecting")
  /\ \E d \in {FALSE, mayDiscard(p)} :
       job' = [job EXCEPT ![p].pc = "settled", ![p].discards = d]
  /\ recorded' \in {recorded, recorded \cup {job[p].run}}
  /\ UNCHANGED <<started, disk, archived, crashed, left, replacedBy>>

\* A session lost for good ends the run with a manifest and no archive; so does a
\* manifest that can be written nowhere.
EndsUnarchived(p) ==
  /\ at(p, "collecting")
  /\ goes(p, "releasing")
  /\ recorded' \in {recorded, recorded \cup {job[p].run}}
  /\ UNCHANGED <<started, disk, archived, crashed, left, replacedBy>>

\* Zip opens its file with O_EXCL: it refuses a name that is taken, and may fail to
\* create one that is not.
ZipOpens(p) ==
  /\ at(p, "settled") /\ zip[job[p].name] = 0
  /\ goes(p, "zipping")
  /\ zip' = [zip EXCEPT ![job[p].name] = job[p].run]
  /\ UNCHANGED <<started, dir, lock, asideDir, asideZip, history>>
ZipRefused(p) ==
  /\ at(p, "settled")
  /\ goes(p, "releasing")
  /\ UNCHANGED <<started, disk, history>>

ZipCloses(p) ==
  /\ at(p, "zipping")
  /\ goes(p, "archived")
  /\ archived' = archived \cup {job[p].run}
  /\ UNCHANGED <<started, disk, recorded, crashed, left, replacedBy>>

\* The disk refuses to remove a file.
refuses == Cardinality(zipLeft) + Cardinality(lockLeft) < MaxLeft

\* A failed archive is removed, or the disk refuses, and no one is told.
removesZip_not(p) == UNCHANGED <<zip, zipLeft>>
removesZip(p) ==
  \/ zip' = [zip EXCEPT ![job[p].name] = 0] /\ UNCHANGED zipLeft
  \/ refuses /\ UNCHANGED zip /\ zipLeft' = zipLeft \cup {job[p].run}
\* Mutant: the run goes on as if it had its archive.
ZipFails_unnoticed(p) ==
  /\ at(p, "zipping")
  /\ goes(p, "archived")
  /\ removesZip(p)
  /\ UNCHANGED <<started, dir, lock, asideDir, asideZip, recorded, archived, crashed, lockLeft,
                 replacedBy>>
ZipFails(p) ==
  /\ at(p, "zipping")
  /\ goes(p, "releasing")
  /\ removesZip(p)
  /\ UNCHANGED <<started, dir, lock, asideDir, asideZip, recorded, archived, crashed, lockLeft,
                 replacedBy>>

\* discardSuperseded, best effort: the folder, then the archive.
DiscardsFolder(p) ==
  /\ at(p, "archived") /\ job[p].discards
  /\ goes(p, "discarding")
  /\ asideDir' \in IF "dir" \in job[p].moved
                     THEN {asideDir, [asideDir EXCEPT ![job[p].slot] = {}]} ELSE {asideDir}
  /\ UNCHANGED <<started, dir, zip, lock, asideZip, history>>
DiscardsZip(p) ==
  /\ at(p, "discarding")
  /\ goes(p, "releasing")
  /\ \/ UNCHANGED <<asideZip, replacedBy>>
     \/ /\ "zip" \in job[p].moved
        /\ asideZip' = [asideZip EXCEPT ![job[p].slot] = 0]
        /\ replacedBy' = [replacedBy EXCEPT ![asideZip[job[p].slot]] = job[p].run]
  /\ UNCHANGED <<started, dir, zip, lock, asideDir, recorded, archived, crashed, left>>

KeepsSuperseded(p) ==
  /\ at(p, "archived") /\ ~job[p].discards
  /\ goes(p, "releasing")
  /\ UNCHANGED <<started, disk, history>>

\* The deferred release removes the lock file, or the disk refuses, and the process
\* ends.
Releases(p) ==
  /\ at(p, "releasing")
  /\ ends(p)
  /\ \/ lock' = [lock EXCEPT ![job[p].name] = 0] /\ UNCHANGED lockLeft
     \/ refuses /\ UNCHANGED lock /\ lockLeft' = lockLeft \cup {job[p].run}
  /\ UNCHANGED <<started, dir, zip, asideDir, asideZip, recorded, archived, crashed, zipLeft,
                 replacedBy>>

---------------------------------------------------------------------------
(* The environment *)

\* The process is killed: no deferred call runs.
Crash(p) ==
  /\ ~at(p, "idle")
  /\ ends(p)
  /\ crashed' = crashed \cup {job[p].run}
  /\ UNCHANGED <<started, disk, recorded, archived, left, replacedBy>>

\* The operator does what lockRun's message says: no collection is running, so
\* the lock is the one of a run that died or could not remove it, and is deleted.
OperatorDeletesLock(n) ==
  /\ lock[n] \in crashed \cup lockLeft
  /\ lock' = [lock EXCEPT ![n] = 0]
  /\ UNCHANGED <<started, job, dir, zip, asideDir, asideZip, history>>

---------------------------------------------------------------------------
Process(p) ==
  \/ \E keep \in BOOLEAN : Starts(p, keep)
  \/ Locks(p) \/ LockRefused(p)
  \/ PreparesKept(p) \/ MovesFolder(p) \/ MovesZip(p) \/ MakesFolder(p) \/ PrepareFails(p)
  \/ Settles(p) \/ EndsUnarchived(p)
  \/ ZipOpens(p) \/ ZipRefused(p) \/ ZipCloses(p) \/ ZipFails(p)
  \/ DiscardsFolder(p) \/ DiscardsZip(p) \/ KeepsSuperseded(p) \/ Releases(p)

Next == (\E p \in Procs : Process(p) \/ Crash(p)) \/ \E n \in Names : OperatorDeletesLock(n)

Spec == Init /\ [][Next]_vars

---------------------------------------------------------------------------
(* Properties *)

Jobs == [pc : Steps, run : 0..MaxRuns, keep : BOOLEAN, name : Names, slot : 0..MaxRuns,
         moved : SUBSET {"dir", "zip"}, discards : BOOLEAN]

\* The type invariant: the jobs, the disk and the history.  A process keeps nothing
\* of a run that ended.
TypeOK ==
  /\ started \in 0..MaxRuns /\ job \in [Procs -> Jobs]
  /\ \A p \in Procs : at(p, "idle") => job[p] = Idle
  /\ dir \in [Names -> SUBSET Runs] /\ zip \in [Names -> 0..Earlier]
  /\ lock \in [Names -> 0..MaxRuns]
  /\ asideDir \in [Slots -> SUBSET Runs] /\ asideZip \in [Slots -> 0..Earlier]
  /\ recorded \subseteq Runs /\ archived \subseteq Runs /\ crashed \subseteq Runs
  /\ zipLeft \subseteq Runs /\ lockLeft \subseteq Runs
  /\ replacedBy \in [Runs -> 0..MaxRuns]

\* Two runs are never merged into one folder, however they race for its name and
\* whoever died in it before (prepareRunFolder's refusal, lockRun).
NoMixture ==
  /\ \A n \in Names : \A r, s \in dir[n] : r = s
  /\ \A t \in Slots : \A r, s \in asideDir[t] : r = s

\* A folder and the archive beside it are of one run, in place and set aside: the
\* archive goes with the folder (prepareRunFolder).
PairIsOneRun ==
  /\ \A n \in Names : dir[n] # {} /\ zip[n] # 0 => zip[n] \in dir[n]
  /\ \A s \in Slots : asideDir[s] # {} /\ asideZip[s] # 0 => asideZip[s] \in asideDir[s]

\* "Nothing legitimate is there by now" (archive.go): when Zip opens its file, no
\* run has an archive under its name.
ZipNameIsFree == \A p \in Procs : at(p, "settled") => zip[job[p].name] = 0

onDisk(r) == (\E n \in Names : zip[n] = r) \/ (\E s \in Slots : asideZip[s] = r)

\* An archive that was finished stays on the disk, under its name or aside, until
\* a run that set it aside itself has finished its own and covers it.
ArchiveSurvives ==
  \A r \in archived : onDisk(r) \/ replacedBy[r] \in archived

\* An unfinished archive is one that is being written, one that was when its
\* process was killed, or one the disk refused to remove.
TruncatedIsExplained ==
  \A n \in Names :
    zip[n] # 0 /\ zip[n] \notin archived =>
      zip[n] \in crashed \cup zipLeft \/ \E p \in Procs : at(p, "zipping") /\ job[p].run = zip[n]

\* A lock outlives its run only when the run was killed or the disk refused to
\* remove it.
LockIsReleased ==
  \A n \in Names :
    lock[n] # 0 => lock[n] \in crashed \cup lockLeft \/ \E p \in Procs : job[p].run = lock[n]

\* No step loses an archive, and no other failure leaves half of one or a lock
\* behind: only a death does, or a removal that fails itself.
DiskIsSound ==
  /\ TypeOK
  /\ ArchiveSurvives
  /\ TruncatedIsExplained
  /\ LockIsReleased

\* What a run that died left is the evidence of it, and no later run deletes it:
\* a folder without a manifest cannot be compared.
EvidenceIsKept ==
  [][\A r \in crashed \ recorded :
       LET found == (\E n \in Names : r \in dir[n]) \/ (\E s \in Slots : r \in asideDir[s])
       IN  found => found']_vars

\* What an output directory shows of the archive of each run.
archiveOf(r) ==
  IF r \in archived THEN IF onDisk(r) THEN "whole" ELSE "given up"
                    ELSE IF onDisk(r) THEN "part" ELSE "none"

Archive == INSTANCE ArchiveContract WITH archive <- [r \in Runs |-> archiveOf(r)]

\* The archives keep their contract: whatever processes race and die in the
\* directory, each step opens, closes or removes the archive of one run, gives one
\* up for another that is whole, or leaves them all as they are; so a directory that
\* ever had a whole archive has one (Zip, prepareRunFolder and discardSuperseded).
KeepsArchiveContract == Archive!Spec

=============================================================================
