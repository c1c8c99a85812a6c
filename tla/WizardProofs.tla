----------------------------- MODULE WizardProofs -----------------------------
(* Proofs about Wizard, for any number of addresses, jobs, panics and other     *)
(* processes: no exit cuts a collection, one job at most is alive behind a      *)
(* screen, a crash is never reported as zero, and zero after a collection means *)
(* an archive or the operator's own stop. And, until an answer of an abandoned  *)
(* attempt is taken for another's, the run is the one that was asked for.       *)
EXTENDS Wizard, FiniteSetTheorems, WellFoundedInduction, TLAPS

-----------------------------------------------------------------------------
(* The inductive invariant *)

\* The steps from the keystroke that starts the collection on.
Late == {"collecting", "done", "quit"}

\* A state that has not started its collection keeps no earlier run.
StateOK(st) == st \in StateType /\ (st.keep => st.step \in Late)

\* What the code of one job says of it: an error is never zero, only a collection has a
\* verdict to tell, and the archive is of a folder that has a name.
Sound(r) ==
  /\ r \in JobStates
  /\ r.pc = "over" <=> r.kind = "none"
  /\ r.ev.is \in {"finished", "collectDone"} => r.kind = "collect" /\ r.pc = "sending"
  /\ r.pc = "looking" => r.ev.is = "verified"
  /\ r.kind # "collect" => ~r.ask.keep
  /\ r.err => r.code # 0
  /\ r.ev.is = "collectDone" /\ r.ev.err => r.ev.code # 0
  /\ r.pc = "archiving" \/ r.ev.is = "finished" => r.err \/ r.took # NoOne

Collects(r) == r.kind = "collect"

\* A run that got to its end without an error.
Wrote(r) ==
  \/ Collects(r) /\ r.pc = "leaving" /\ ~r.err
  \/ r.ev.is = "collectDone" /\ ~r.ev.err

\* A run that its context has stopped.
WasStopped(r) ==
  \/ Collects(r) /\ r.dead
  \/ r.ev.is = "collectDone" /\ r.ev.stopped

\* One job at most collects, and the screen of the collection stands for it.
Alone(jobs) == \A i, j \in Jobs : Collects(jobs[i]) /\ Collects(jobs[j]) => i = j

\* The jobs behind the step [step], the one that may be alive being [c].
Behind(jobs, c, step) ==
  \A j \in Jobs : jobs[j].pc # "over" /\ ~jobs[j].dead =>
                    j = c /\ Waits(step) /\ jobs[j].kind = kindOf(step)

Mine == \E n \in Names : disk[n] = "mine"

Typed ==
  /\ StateOK(s) /\ code \in 0..2 /\ returned \in BOOLEAN
  /\ job \in [Jobs -> JobStates] /\ \A j \in Jobs : Sound(job[j])
  /\ last \in 0..MaxJobs /\ current \in 0..last
  /\ ticking \in BOOLEAN /\ panics \in Nat /\ died \in Nat
  /\ crashed \in BOOLEAN /\ stale \in BOOLEAN /\ stopped \in BOOLEAN
  /\ named \in Names \cup {NoOne} /\ replaced \subseteq Names

\* Until the run takes its name, the disk holds the earlier runs and those of others,
\* which are few: a free name is left.
OnlyOthers == \A n \in Names : disk[n] # "free" => n \in Earlier \cup others

DiskKnown ==
  /\ disk \in [Names -> Archives \cup {"free", "folder"}]
  /\ others \subseteq Names /\ IsFiniteSet(others) /\ Cardinality(others) <= MaxOthers
  /\ s.step \notin Late \/ (\E j \in Jobs : At(j, "collect", "started")) => OnlyOthers

Screen ==
  /\ returned <=> s.step = "quit"
  /\ ticking <=> Waits(s.step)
  /\ Behind(job, current, s.step)
  /\ Alone(job)
  /\ \A j \in Jobs : Collects(job[j]) => s.step = "collecting"

Answers ==
  /\ crashed => code # 0
  /\ \A j \in Jobs : Wrote(job[j]) => Mine
  /\ \A j \in Jobs : WasStopped(job[j]) => stopped \/ crashed
  /\ ZeroMeansArchived

IInv == Typed /\ DiskKnown /\ Screen /\ Answers

-----------------------------------------------------------------------------
(* Names *)

Below == {r \in Nat \X Nat : r[1] < r[2]}

\* There is no way down from a number for ever.
LEMMA NoWayDown == IsWellFoundedOn(Below, Nat)
BY NatLessThanWellFounded DEF OpToRel, Below

\* A set of numbers that is not empty has a smallest one.
LEMMA Smallest ==
  ASSUME NEW S \in SUBSET Nat, S # {}
  PROVE  Min(S) \in S /\ \A y \in S : Min(S) <= y
<1>1. PICK x \in S : \A y \in S : <<y, x>> \notin Below
  BY NoWayDown, WFMin
<1>2. \A y \in S : ~(y < x)
  BY <1>1 DEF Below
<1>3. \A y \in S : x <= y
  BY <1>2
<1> QED
  BY <1>3 DEF Min

\* The suffixes are numbers, from one on.
LEMMA SuffixesAre ==
  /\ IsFiniteSet(Earlier) /\ Cardinality(Earlier) \in Nat
  /\ 1 \in Suffixes /\ Suffixes \subseteq Nat
  /\ IsFiniteSet(Suffixes) /\ Cardinality(Suffixes) = Cardinality(Earlier) + MaxOthers + 1
<1>1. IsFiniteSet(Earlier) /\ Cardinality(Earlier) \in Nat /\ MaxOthers \in Nat
  BY WizardAssumption, FS_CardinalityType
<1> DEFINE c == Cardinality(Earlier)
<1>2. 1 \in Int /\ c + MaxOthers + 1 \in Int /\ ~(1 > c + MaxOthers + 1)
      /\ (c + MaxOthers + 1) - 1 + 1 = c + MaxOthers + 1
  BY <1>1
<1>3. IsFiniteSet(1..(c + MaxOthers + 1))
      /\ Cardinality(1..(c + MaxOthers + 1)) =
           IF 1 > c + MaxOthers + 1 THEN 0 ELSE (c + MaxOthers + 1) - 1 + 1
  BY <1>2, FS_Interval
<1>4. 1 \in Suffixes /\ Suffixes \subseteq Nat
  BY <1>1 DEF Suffixes
<1> QED
  BY <1>1, <1>2, <1>3, <1>4 DEF Suffixes

\* A name can always be found that neither an earlier run nor another process holds.
LEMMA FreeName ==
  ASSUME NEW inst \in Instances, NEW p \in Plans, NEW keep, OnlyOthers,
         others \subseteq Names, IsFiniteSet(others), Cardinality(others) <= MaxOthers
  PROVE  /\ RunFolderFor(inst, p, keep) \in Names
         /\ ~keep => RunFolderFor(inst, p, keep) = <<inst, p, 1>>
         /\ keep => \E m \in Suffixes :
              /\ RunFolderFor(inst, p, keep) = <<inst, p, m>>
              /\ disk[<<inst, p, m>>] = "free"
              /\ \A k \in Suffixes : k < m => disk[<<inst, p, k>>] # "free"
<1> DEFINE free == {n \in Suffixes : disk[<<inst, p, n>>] = "free"}
           held == Earlier \cup others
<1>1. \A n \in Suffixes : <<inst, p, n>> \in Names
  BY DEF Names
<1>2. IsFiniteSet(held) /\ Cardinality(held) < Cardinality(Suffixes)
  <2>1. Cardinality(others) \in Nat /\ MaxOthers \in Nat
    BY FS_CardinalityType, WizardAssumption
  <2>2. /\ IsFiniteSet(Earlier \cap others) /\ Cardinality(Earlier \cap others) \in Nat
    BY SuffixesAre, FS_Intersection, FS_CardinalityType
  <2>3. /\ IsFiniteSet(held)
        /\ Cardinality(held) =
             Cardinality(Earlier) + Cardinality(others) - Cardinality(Earlier \cap others)
    BY SuffixesAre, FS_Union
  <2> QED
    BY <2>1, <2>2, <2>3, SuffixesAre
<1>3. free # {}
  <2> SUFFICES ASSUME \A n \in Suffixes : <<inst, p, n>> \in held PROVE FALSE
    BY <1>1 DEF OnlyOthers
  <2> DEFINE f == [n \in Suffixes |-> <<inst, p, n>>]
  <2>1. f \in [Suffixes -> held]
    OBVIOUS
  <2>2. \E x, y \in Suffixes : x # y /\ f[x] = f[y]
    <3> HIDE DEF f, held
    <3> QED
      BY <1>2, <2>1, SuffixesAre, FS_PigeonHole
  <2> QED
    BY <2>2
<1>4. Min(free) \in free /\ \A y \in free : Min(free) <= y
  <2>1. free \in SUBSET Nat
    BY SuffixesAre
  <2> HIDE DEF free
  <2> QED
    BY <1>3, <2>1, Smallest
<1>5. RunFolderFor(inst, p, keep) = <<inst, p, IF keep THEN Min(free) ELSE 1>>
  BY DEF RunFolderFor
<1>6. \A n \in Suffixes : disk[<<inst, p, n>>] = "free" <=> n \in free
  OBVIOUS
<1>7. free \subseteq Suffixes
  OBVIOUS
<1> HIDE DEF free
<1> DEFINE m == Min(free)
<1>8. m \in Suffixes /\ disk[<<inst, p, m>>] = "free"
  BY <1>4, <1>6, <1>7
<1>9. \A k \in Suffixes : k < m => disk[<<inst, p, k>>] # "free"
  <2>1. m \in Nat /\ Suffixes \subseteq Nat
    BY <1>8, SuffixesAre
  <2>2. \A y \in free : m <= y
    BY <1>4
  <2> HIDE DEF m
  <2> SUFFICES ASSUME NEW k \in Suffixes, k < m, disk[<<inst, p, k>>] = "free" PROVE FALSE
    OBVIOUS
  <2>3. m <= k
    BY <1>6, <2>2
  <2> QED
    BY <2>1, <2>3
<1> HIDE DEF m
<1> QED
  BY <1>1, <1>5, <1>8, <1>9, SuffixesAre DEF m

\* What the banner warns of is a name, when nothing is to be kept.
LEMMA CollisionIs ==
  ASSUME NEW v \in Looked, NEW p \in Plans, NEW keep, ~keep
  PROVE  collisionFor(v, p, keep) \in Names \cup {NoOne}
<1>1. CASE v.probed
  <2>1. v.of \in Instances
    BY <1>1 DEF Looked
  <2>2. RunFolderFor(v.of, p, keep) \in Names
    BY <2>1, SuffixesAre DEF RunFolderFor, Names
  <2> QED
    BY <2>2 DEF collisionFor
<1>2. CASE ~v.probed
  BY <1>2 DEF collisionFor
<1> QED
  BY <1>1, <1>2

-----------------------------------------------------------------------------
(* The screens *)

\* What any keystroke leads to.
Pressed(st, next) ==
  /\ StateOK(next)
  /\ next.step # "done"
  /\ st.step = "collecting" => next.step = "collecting"
  /\ st.step = "done" => next.step = "quit"
  /\ next.step = "collecting" /\ st.step # "collecting" =>
       st.step = "options" /\ next.verify.probed
  /\ next.stopping /\ ~st.stopping => st.step = "collecting"

\* Moving to another screen changes nothing else.
LEMMA Moves ==
  ASSUME NEW st \in StateType, NEW step \in Steps
  PROVE  LET next == [st EXCEPT !.step = step] IN
         /\ next \in StateType /\ next.step = step /\ next.keep = st.keep
         /\ next.stopping = st.stopping /\ next.verify = st.verify
BY DEF StateType

\* The keys of the connection screen.
LEMMA ConnectionKeys ==
  ASSUME NEW st, StateOK(st), st.step = "connection", NEW next \in keyConnection(st)
  PROVE  Pressed(st, next)
<1>1. st \in StateType /\ ~st.keep
  BY DEF StateOK, Late
<1>2. CASE next = [st EXCEPT !.step = "quit"]
  BY <1>1, <1>2, Moves DEF Pressed, StateOK, Late, Steps
<1>3. CASE \E a \in Addresses \cup {st.server} : next = [st EXCEPT !.step = "connecting", !.server = a]
  <2>1. PICK a \in Addresses \cup {st.server} : next = [st EXCEPT !.step = "connecting", !.server = a]
    BY <1>3
  <2>2. a \in Addresses \cup {NoOne}
    BY <1>1 DEF StateType
  <2>3. next \in StateType /\ next.step = "connecting" /\ next.keep = st.keep
        /\ next.stopping = st.stopping
    BY <1>1, <2>1, <2>2 DEF StateType, Steps
  <2> QED
    BY <1>1, <2>3 DEF Pressed, StateOK, Late
<1> QED
  BY <1>2, <1>3 DEF keyConnection

\* The keys of the verification screen.
LEMMA VerificationKeys ==
  ASSUME NEW st, StateOK(st), st.step = "verification", NEW next \in keyVerification(st)
  PROVE  Pressed(st, next)
<1>1. st \in StateType /\ ~st.keep
  BY DEF StateOK, Late
<1>2. PICK step \in {"verifying", "connection", "quit", "options"} : next = [st EXCEPT !.step = step]
  BY DEF keyVerification
<1>3. step \in Steps /\ step # "collecting" /\ step # "done"
  BY <1>2 DEF Steps
<1> QED
  BY <1>1, <1>2, <1>3, Moves DEF Pressed, StateOK

\* Another profile changes the banner, and keeps nothing.
LEMMA ProfileKeys ==
  ASSUME NEW st, StateOK(st), st.step = "options", NEW next \in withProfile(st)
  PROVE  Pressed(st, next)
<1>1. st \in StateType /\ ~st.keep /\ st.verify \in Looked
  BY DEF StateOK, Late, StateType
<1>2. PICK p \in Plans :
        next = [st EXCEPT !.profile = p, !.collision = collisionFor(st.verify, p, st.keep),
                          !.keep = @ /\ st.collision = collisionFor(st.verify, p, st.keep)]
  BY DEF withProfile
<1> DEFINE c == collisionFor(st.verify, p, st.keep)
<1>3. c \in Names \cup {NoOne}
  BY <1>1, CollisionIs
<1>4. (st.keep /\ st.collision = c) = FALSE
  BY <1>1
<1>5. next = [st EXCEPT !.profile = p, !.collision = c, !.keep = FALSE]
  BY <1>2, <1>4
<1> HIDE DEF c
<1>6. next \in StateType /\ next.step = st.step /\ ~next.keep /\ next.stopping = st.stopping
  BY <1>1, <1>3, <1>5 DEF StateType
<1> QED
  BY <1>6 DEF Pressed, StateOK

\* The collection is started from a server that was probed.
LEMMA StartKeys ==
  ASSUME NEW st, StateOK(st), st.step = "options", NEW next \in start(st)
  PROVE  Pressed(st, next)
<1>1. st \in StateType /\ st.verify.probed
  BY DEF StateOK, start, canStart
<1>2. \/ next = [st EXCEPT !.step = "collecting"]
      \/ \E k \in BOOLEAN : next = [st EXCEPT !.step = "collecting", !.collision = NoOne, !.keep = k]
  BY DEF start
<1>3. CASE next = [st EXCEPT !.step = "collecting"]
  BY <1>1, <1>3, Moves DEF Pressed, StateOK, Late, Steps
<1>4. CASE \E k \in BOOLEAN : next = [st EXCEPT !.step = "collecting", !.collision = NoOne, !.keep = k]
  <2>1. PICK k \in BOOLEAN : next = [st EXCEPT !.step = "collecting", !.collision = NoOne, !.keep = k]
    BY <1>4
  <2>2. next \in StateType /\ next.step = "collecting" /\ next.stopping = st.stopping
        /\ next.verify = st.verify
    BY <1>1, <2>1 DEF StateType, Steps
  <2> QED
    BY <1>1, <2>2 DEF Pressed, StateOK, Late
<1> QED
  BY <1>2, <1>3, <1>4

\* Every keystroke, from every screen.
LEMMA KeyIs ==
  ASSUME NEW st, StateOK(st), NEW next \in Key(st)
  PROVE  Pressed(st, next) /\ st.step # "quit"
<1>1. st \in StateType /\ st.step \in Steps /\ (st.keep => st.step \in Late)
  BY DEF StateOK, StateType
<1>2. CASE st.step = "connection"
  BY <1>2, ConnectionKeys DEF Key
<1>3. CASE st.step = "verification"
  BY <1>3, VerificationKeys DEF Key
<1>4. CASE st.step = "options"
  <2>1. next \in keyOptions(st)
    BY <1>4 DEF Key
  <2>2. CASE \E step \in {"verification", "quit"} : next = [st EXCEPT !.step = step]
    <3>1. PICK step \in {"verification", "quit"} : next = [st EXCEPT !.step = step]
      BY <2>2
    <3>2. step \in Steps /\ step # "collecting" /\ step # "done" /\ ~st.keep
      BY <1>1, <1>4 DEF Steps, Late
    <3> QED
      BY <1>1, <1>4, <3>1, <3>2, Moves DEF Pressed, StateOK
  <2> QED
    BY <1>4, <2>1, <2>2, ProfileKeys, StartKeys DEF keyOptions
<1>5. CASE st.step \in {"connecting", "verifying"}
  <2>1. next = [st EXCEPT !.step = "connection"]
    BY <1>5 DEF Key
  <2> QED
    BY <1>1, <1>5, <2>1, Moves DEF Pressed, StateOK, Late, Steps
<1>6. CASE st.step = "collecting"
  <2>1. next = [st EXCEPT !.stopping = TRUE]
    BY <1>6 DEF Key
  <2>2. next \in StateType /\ next.step = st.step
    BY <1>1, <2>1 DEF StateType
  <2> QED
    BY <1>6, <2>2 DEF Pressed, StateOK, Late
<1>7. CASE st.step = "done"
  <2>1. next = [st EXCEPT !.step = "quit"]
    BY <1>7 DEF Key
  <2> QED
    BY <1>1, <1>7, <2>1, Moves DEF Pressed, StateOK, Late, Steps
<1>8. CASE st.step = "quit"
  BY <1>8 DEF Key
<1> QED
  BY <1>1, <1>2, <1>3, <1>4, <1>5, <1>6, <1>7, <1>8 DEF Steps

-----------------------------------------------------------------------------
(* The events *)

\* What an event leads to.
Heard(st, e, next) ==
  /\ StateOK(next)
  /\ next.step # "quit"
  /\ st.step = "collecting" /\ e.is # "collectDone" => next.step = "collecting"
  /\ e.is = "collectDone" => next.step = "done"
  /\ st.step = "done" => next.step = "done"
  /\ next.step = "collecting" => st.step = "collecting"
  /\ next.step = "done" => st.step = "done" \/ e.is = "collectDone"
  /\ next.stopping /\ ~st.stopping => e.is = "panic"

\* What each event carries.
LEMMA EventFields ==
  ASSUME NEW e \in EventsSent
  PROVE  /\ e.is \in {"none", "connected", "connectFailed", "panic", "verified", "finished",
                      "collectDone"}
         /\ e.is = "verified" => e.result \in Looked /\ e.collision \in Names \cup {NoOne}
         /\ e.is = "finished" => e.verdict \in Said
         /\ e.is = "collectDone" => /\ e.code \in 0..2 /\ e.err \in BOOLEAN /\ e.stopped \in BOOLEAN
                                    /\ e.zip \in Names \cup {NoOne}
                                    /\ e.previous \in Names \cup {NoOne}
BY DEF EventsSent

\* An event changes the screen as its handler says, and only while the loop runs.
LEMMA ApplyIs ==
  ASSUME NEW st, StateOK(st), st.step # "quit", NEW e \in EventsSent
  PROVE  Heard(st, e, Apply(e, st))
<1> DEFINE next == Apply(e, st)
<1> SUFFICES Heard(st, e, next)
  OBVIOUS
<1>1. st \in StateType /\ st.step \in Steps /\ (st.keep => st.step \in Late)
  BY DEF StateOK, StateType
<1>2. CASE next = st /\ e.is # "collectDone"
  BY <1>1, <1>2 DEF Heard, StateOK
<1>3. CASE /\ \E step \in {"verifying", "connection"} : next = [st EXCEPT !.step = step]
           /\ e.is # "collectDone" /\ st.step \notin Late
  <2>1. PICK step \in {"verifying", "connection"} : next = [st EXCEPT !.step = step]
    BY <1>3
  <2>2. step \in Steps /\ step \notin Late
    BY <2>1 DEF Steps, Late
  <2>3. next \in StateType /\ next.step = step /\ next.keep = st.keep /\ next.stopping = st.stopping
    BY <1>1, <2>1, <2>2, Moves
  <2> HIDE DEF next
  <2> QED
    BY <1>1, <1>3, <2>1, <2>2, <2>3 DEF Heard, StateOK, Late
<1>4. CASE e.is \in {"connected", "connectFailed"}
  <2>1. next = st \/ (next \in {[st EXCEPT !.step = "verifying"], [st EXCEPT !.step = "connection"]}
                      /\ st.step = "connecting")
    BY <1>4 DEF Apply, connectFailed
  <2> HIDE DEF next
  <2> QED
    BY <1>2, <1>3, <1>4, <2>1 DEF Late
<1>5. CASE e.is = "verified"
  <2>1. CASE st.step # "verifying"
    BY <1>2, <1>5, <2>1 DEF Apply
  <2>2. CASE st.step = "verifying" /\ ~e.reachable
    <3>1. next = [st EXCEPT !.step = "connection"]
      BY <1>5, <2>2 DEF Apply, connectFailed
    <3> HIDE DEF next
    <3> QED
      BY <1>3, <1>5, <2>2, <3>1 DEF Late
  <2>3. CASE st.step = "verifying" /\ e.reachable
    <3>1. next = [st EXCEPT !.verify = e.result, !.collision = e.collision, !.step = "verification"]
      BY <1>5, <2>3 DEF Apply
    <3>2. e.result \in Looked /\ e.collision \in Names \cup {NoOne}
      BY <1>5, EventFields
    <3> HIDE DEF next
    <3>3. next \in StateType /\ next.step = "verification" /\ next.keep = st.keep
          /\ next.stopping = st.stopping
      BY <1>1, <3>1, <3>2 DEF StateType, Steps
    <3> QED
      BY <1>1, <1>5, <2>3, <3>3 DEF Heard, StateOK, Late
  <2> QED
    BY <2>1, <2>2, <2>3
<1>6. CASE e.is = "finished"
  <2>1. next = [st EXCEPT !.verdict = e.verdict] /\ e.verdict \in Said
    BY <1>6, EventFields DEF Apply
  <2> HIDE DEF next
  <2>2. next \in StateType /\ next.step = st.step /\ next.keep = st.keep /\ next.stopping = st.stopping
    BY <1>1, <2>1 DEF StateType
  <2> QED
    BY <1>1, <1>6, <2>2 DEF Heard, StateOK
<1>7. CASE e.is = "collectDone"
  <2> DEFINE b == st.errors \/ e.err
  <2>1. next = [st EXCEPT !.step = "done", !.stopping = FALSE, !.zip = e.zip,
                          !.previous = e.previous, !.errors = b]
    BY <1>7 DEF Apply
  <2>2. e.zip \in Names \cup {NoOne} /\ e.previous \in Names \cup {NoOne} /\ b \in BOOLEAN
    BY <1>7, EventFields
  <2> HIDE DEF next, b
  <2>3. next \in StateType /\ next.step = "done" /\ ~next.stopping
    BY <1>1, <2>1, <2>2 DEF StateType, Steps
  <2> QED
    BY <1>7, <2>3 DEF Heard, StateOK, Late
<1>8. CASE e.is = "panic"
  <2>1. CASE st.step = "collecting"
    <3>1. next = [st EXCEPT !.stopping = TRUE, !.errors = TRUE]
      BY <1>8, <2>1 DEF Apply
    <3> HIDE DEF next
    <3>2. next \in StateType /\ next.step = st.step
      BY <1>1, <3>1 DEF StateType
    <3> QED
      BY <1>8, <2>1, <3>2 DEF Heard, StateOK, Late
  <2>2. CASE st.step = "done"
    <3>1. next = [st EXCEPT !.step = "done", !.stopping = FALSE, !.errors = TRUE]
      BY <1>8, <2>2 DEF Apply
    <3> HIDE DEF next
    <3>2. next \in StateType /\ next.step = "done"
      BY <1>1, <3>1 DEF StateType, Steps
    <3> QED
      BY <1>8, <2>2, <3>2 DEF Heard, StateOK, Late
  <2>3. CASE st.step \notin Late
    <3>1. next = [st EXCEPT !.step = "connection"]
      BY <1>8, <2>3 DEF Apply, Late
    <3> HIDE DEF next
    <3> QED
      BY <1>3, <1>8, <2>3, <3>1
  <2> QED
    BY <2>1, <2>2, <2>3 DEF Late
<1>9. CASE e.is = "none"
  BY <1>2, <1>9 DEF Apply
<1> QED
  BY <1>4, <1>5, <1>6, <1>7, <1>8, <1>9, EventFields

\* What the loop remembers: the first code that is not zero, and a panic has one.
LEMMA RememberedIs ==
  ASSUME Typed, NEW e \in EventsSent, e.is = "collectDone" /\ e.err => e.code # 0
  PROVE  /\ remembered(e, s) \in 0..2
         /\ remembered(e, s) = 0 => code = 0 /\ e.is # "panic"
         /\ remembered(e, s) = 0 /\ e.is = "collectDone" => ~e.err \/ e.stopped
<1>1. code \in 0..2
  BY DEF Typed
<1>2. CASE e.is = "panic"
  BY <1>1, <1>2 DEF remembered, exitStatus
<1>3. CASE e.is = "collectDone"
  <2>1. exitStatus(e, s) \in {0, e.code}
    BY <1>3 DEF exitStatus
  <2>2. exitStatus(e, s) = 0 => ~e.err \/ e.stopped
    BY <1>3 DEF exitStatus
  <2>3. e.code \in 0..2
    BY <1>3, EventFields
  <2> QED
    BY <1>1, <1>3, <2>1, <2>2, <2>3 DEF remembered
<1>4. CASE e.is \notin {"panic", "collectDone"}
  BY <1>1, <1>4 DEF remembered, exitStatus
<1> QED
  BY <1>2, <1>3, <1>4

-----------------------------------------------------------------------------
(* The jobs *)

\* The record [b] of a job after one of its own steps from [a].
Follows(a, b) ==
  /\ Sound(b)
  /\ Collects(b) => Collects(a)
  /\ b.pc # "over" => a.pc # "over" /\ b.kind = a.kind /\ b.dead = a.dead
  /\ b.pc = "started" => a.pc = "started"
  /\ WasStopped(b) => WasStopped(a)

\* No job there is.
LEMMA IdleIs ==
  /\ Sound(Idle) /\ ~Collects(Idle) /\ ~Wrote(Idle) /\ ~WasStopped(Idle) /\ Idle.pc = "over"
  /\ NoEvent \in EventsSent
<1>1. NoAsk \in Asks /\ ~NoAsk.keep
  BY DEF NoAsk, Asks, Plans
<1>2. NoEvent \in EventsSent /\ NoEvent.is = "none"
  BY DEF NoEvent, EventsSent
<1> QED
  BY <1>1, <1>2 DEF Idle, Sound, JobStates, Collects, Wrote, WasStopped

\* A job that ends says nothing more.
LEMMA Ends ==
  ASSUME NEW a
  PROVE  Follows(a, Idle) /\ ~Wrote(Idle)
BY IdleIs DEF Follows

\* Being cancelled changes nothing else.
LEMMA Cancelled ==
  ASSUME NEW a, Sound(a)
  PROVE  LET b == [a EXCEPT !.dead = TRUE] IN
         /\ Sound(b) /\ b.dead /\ b.pc = a.pc /\ b.kind = a.kind
         /\ Wrote(b) <=> Wrote(a)
         /\ WasStopped(b) => WasStopped(a) \/ Collects(a)
<1> DEFINE b == [a EXCEPT !.dead = TRUE]
<1>1. a \in JobStates
  BY DEF Sound
<1>2. b \in JobStates /\ b.dead = TRUE /\ b.pc = a.pc /\ b.kind = a.kind /\ b.ev = a.ev /\ b.err = a.err
      /\ b.code = a.code /\ b.took = a.took /\ b.ask = a.ask
  BY <1>1 DEF JobStates
<1> HIDE DEF b
<1>3. Sound(b) /\ (Wrote(b) <=> Wrote(a)) /\ (WasStopped(b) => WasStopped(a) \/ Collects(a))
  BY <1>2 DEF Sound, Wrote, WasStopped, Collects
<1> QED
  BY <1>2, <1>3 DEF b

\* A job starts from what was asked, alive.
LEMMA Starts ==
  ASSUME NEW st, Waits(st.step), asked(st) \in Asks, kindOf(st.step) # "collect" => ~asked(st).keep
  PROVE  LET b == startWork(st) IN
         /\ Sound(b) /\ b.pc = "started" /\ ~b.dead /\ b.kind = kindOf(st.step)
         /\ ~Wrote(b) /\ ~WasStopped(b)
<1> DEFINE b == startWork(st)   k == kindOf(st.step)   q == asked(st)
<1>1. k \in {"connect", "verify", "collect"}
  BY DEF kindOf
<1>2. b = [kind |-> k, pc |-> "started", dead |-> FALSE, ask |-> q, ev |-> NoEvent,
           took |-> NoOne, err |-> FALSE, code |-> 0]
  <2>1. b = [Idle EXCEPT !.kind = k, !.pc = "started", !.ask = q]
    BY DEF startWork
  <2> HIDE DEF b, k, q
  <2> QED
    BY <2>1 DEF Idle
<1>3. NoEvent \in EventsSent /\ NoEvent.is = "none"
  BY IdleIs DEF NoEvent
<1>4. q \in Asks /\ (k # "collect" => ~q.keep)
  OBVIOUS
<1> HIDE DEF b, k, q
<1>5. b \in JobStates
  BY <1>1, <1>2, <1>3, <1>4 DEF JobStates
<1>6. Sound(b) /\ ~Wrote(b) /\ ~WasStopped(b)
  BY <1>1, <1>2, <1>3, <1>4, <1>5 DEF Sound, Wrote, WasStopped, Collects
<1> QED
  BY <1>2, <1>6 DEF b, k

\* A job that holds another event, and goes on from elsewhere.
Holding(a, pc, e) == [a EXCEPT !.pc = pc, !.ev = e]

\* It is the same job.
LEMMA Holds ==
  ASSUME NEW a, Sound(a), NEW e \in EventsSent,
         NEW pc \in {"saving", "looking", "collecting", "archiving", "leaving", "sending"}
  PROVE  /\ Holding(a, pc, e) \in JobStates
         /\ Holding(a, pc, e).pc = pc /\ Holding(a, pc, e).ev = e
         /\ Holding(a, pc, e).kind = a.kind /\ Holding(a, pc, e).dead = a.dead
         /\ Holding(a, pc, e).ask = a.ask /\ Holding(a, pc, e).took = a.took
         /\ Holding(a, pc, e).err = a.err /\ Holding(a, pc, e).code = a.code
BY DEF Holding, Sound, JobStates

\* A job says an event that carries no verdict of a collection.
LEMMA Says ==
  ASSUME NEW a, Sound(a), a.pc # "over", NEW e \in EventsSent, e.is \notin {"finished", "collectDone"},
         NEW pc \in {"saving", "looking", "sending"}, pc = "looking" => e.is = "verified"
  PROVE  Follows(a, Holding(a, pc, e)) /\ ~Wrote(Holding(a, pc, e))
<1> DEFINE b == Holding(a, pc, e)
<1>1. /\ b \in JobStates /\ b.pc = pc /\ b.ev = e /\ b.kind = a.kind /\ b.dead = a.dead
      /\ b.ask = a.ask /\ b.took = a.took /\ b.err = a.err /\ b.code = a.code
  BY Holds
<1> HIDE DEF b
<1>2. Follows(a, b) /\ ~Wrote(b)
  BY <1>1 DEF Follows, Sound, Collects, WasStopped, Wrote
<1> QED
  BY <1>2 DEF b

\* What the loop leaves of a job whose event it takes.
LEMMA AfterIs ==
  ASSUME job \in [Jobs -> JobStates], NEW j \in Jobs, Sound(job[j]), job[j].pc = "sending"
  PROVE  \E b : /\ After(j) = [job EXCEPT ![j] = b]
                /\ Follows(job[j], b) /\ ~Wrote(b)
                /\ job[j].ev.is = "collectDone" => ~Collects(b)
<1> DEFINE a == job[j]
           crash == [is |-> "collectDone", code |-> 2, err |-> TRUE, stopped |-> FALSE,
                     zip |-> NoOne, previous |-> NoOne]
<1>1. CASE a.ev.is = "finished"
  <2> DEFINE b == Holding(a, "archiving", NoEvent)
  <2>1. After(j) = [job EXCEPT ![j] = b]
    BY <1>1 DEF After, Holding
  <2>2. /\ b \in JobStates /\ b.pc = "archiving" /\ b.ev = NoEvent /\ b.kind = a.kind
        /\ b.dead = a.dead /\ b.ask = a.ask /\ b.took = a.took /\ b.err = a.err /\ b.code = a.code
    BY Holds, IdleIs
  <2>3. NoEvent.is = "none"
    BY DEF NoEvent
  <2> HIDE DEF b
  <2>4. Follows(a, b) /\ ~Wrote(b)
    BY <1>1, <2>2, <2>3 DEF Follows, Sound, Collects, WasStopped, Wrote
  <2> QED
    BY <1>1, <2>1, <2>4
<1>2. CASE a.ev.is = "panic" /\ a.kind = "collect"
  <2> DEFINE b == Holding(a, "sending", crash)
  <2>1. After(j) = [job EXCEPT ![j] = b]
    <3>1. After(j) = [job EXCEPT ![j].ev = crash]
      BY <1>2 DEF After
    <3>2. [a EXCEPT !.ev = crash] = b
      BY DEF Holding, JobStates
    <3> QED
      BY <3>1, <3>2
  <2>2. crash \in EventsSent
    BY DEF EventsSent
  <2>3. crash.is = "collectDone" /\ crash.code = 2 /\ crash.err = TRUE /\ crash.stopped = FALSE
    OBVIOUS
  <2> HIDE DEF crash
  <2>4. /\ b \in JobStates /\ b.pc = "sending" /\ b.ev = crash /\ b.kind = a.kind
        /\ b.dead = a.dead /\ b.ask = a.ask /\ b.took = a.took /\ b.err = a.err /\ b.code = a.code
    BY <2>2, Holds
  <2> HIDE DEF b
  <2>5. Follows(a, b) /\ ~Wrote(b)
    BY <1>2, <2>3, <2>4 DEF Follows, Sound, Collects, WasStopped, Wrote
  <2> QED
    BY <1>2, <2>1, <2>5
<1>3. CASE a.ev.is # "finished" /\ ~(a.ev.is = "panic" /\ a.kind = "collect")
  <2>1. After(j) = [job EXCEPT ![j] = Idle]
    BY <1>3 DEF After
  <2> QED
    BY <2>1, Ends, IdleIs
<1> QED
  BY <1>1, <1>2, <1>3

-----------------------------------------------------------------------------
(* A turn of the loop *)

\* What a job is asked to do can be done: its folder has a name.
LEMMA AskedIs ==
  ASSUME DiskKnown, NEW next, StateOK(next), Waits(next.step),
         next.step = "collecting" => s.step = "options" /\ next.verify.probed
  PROVE  asked(next) \in Asks /\ (kindOf(next.step) # "collect" => ~asked(next).keep)
<1> DEFINE f == IF next.step = "collecting" THEN runFolderFor(next) ELSE NoOne
<1>1. next \in StateType /\ next.verify \in Looked /\ next.profile \in Plans /\ next.keep \in BOOLEAN
      /\ next.server \in Addresses \cup {NoOne}
  BY DEF StateOK, StateType
<1>2. f \in Names \cup {NoOne}
  <2>1. CASE next.step = "collecting"
    <3>1. next.verify.of \in Instances
      BY <1>1, <2>1 DEF Looked
    <3>2. OnlyOthers /\ others \subseteq Names /\ IsFiniteSet(others) /\ Cardinality(others) <= MaxOthers
      BY <2>1 DEF DiskKnown, Late
    <3> QED
      BY <1>1, <2>1, <3>1, <3>2, FreeName DEF runFolderFor
  <2> QED
    BY <2>1
<1>3. asked(next) = [addr |-> next.server, profile |-> next.profile, keep |-> next.keep, folder |-> f]
  BY DEF asked
<1> HIDE DEF f
<1>4. asked(next) \in Asks /\ asked(next).keep = next.keep
  BY <1>1, <1>2, <1>3 DEF Asks
<1>5. kindOf(next.step) # "collect" => next.step \notin Late
  BY DEF kindOf, Waits, Late
<1> QED
  BY <1>4, <1>5 DEF StateOK

\* A job that the loop has just started.
Fresh(b, step) ==
  /\ Sound(b) /\ b.pc = "started" /\ ~b.dead /\ b.kind = kindOf(step)
  /\ ~Wrote(b) /\ ~WasStopped(b)

\* What becomes of a job [a] in a turn.
Becomes(a, b, isNew, next) ==
  \/ b = a
  \/ stopsWork(s, next) /\ b = [a EXCEPT !.dead = TRUE]
  \/ isNew /\ Enters(s, next) /\ Fresh(b, next.step) /\ b = startWork(next)

\* Cancelling the current job leaves none alive, and the others as they are.
LEMMA StopWorkIs ==
  ASSUME NEW jobs \in [Jobs -> JobStates], \A j \in Jobs : Sound(jobs[j]),
         current = 0 \/ current \in Jobs, 0 \notin Jobs, Behind(jobs, current, s.step)
  PROVE  LET left == stopWork(jobs) IN
         /\ left \in [Jobs -> JobStates]
         /\ \A j \in Jobs : /\ Sound(left[j])
                            /\ left[j] = jobs[j] \/ left[j] = [jobs[j] EXCEPT !.dead = TRUE]
                            /\ left[j].pc # "over" => left[j].dead
<1>1. CASE current = 0
  BY <1>1 DEF stopWork, Behind
<1>2. CASE current \in Jobs
  <2> DEFINE b == [jobs[current] EXCEPT !.dead = TRUE]
  <2>1. stopWork(jobs) = [jobs EXCEPT ![current] = b]
    BY <1>2 DEF stopWork
  <2>2. Sound(b) /\ b.dead /\ b \in JobStates
    BY <1>2, Cancelled DEF Sound
  <2>3. \A j \in Jobs : j # current /\ jobs[j].pc # "over" => jobs[j].dead
    BY DEF Behind
  <2>4. b = [jobs[current] EXCEPT !.dead = TRUE]
    OBVIOUS
  <2> HIDE DEF b
  <2> QED
    BY <1>2, <2>1, <2>2, <2>3, <2>4
<1> QED
  BY <1>1, <1>2

\* A turn keeps the jobs of one screen behind it.
LEMMA TurnIs ==
  ASSUME Typed, DiskKnown, ticking <=> Waits(s.step),
         NEW jobs \in [Jobs -> JobStates], \A j \in Jobs : Sound(jobs[j]),
         Behind(jobs, current, s.step),
         NEW next, NEW status, StateOK(next), Turn(next, status, jobs),
         next.step = "collecting" /\ s.step # "collecting" =>
           s.step = "options" /\ next.verify.probed
  PROVE  /\ job' \in [Jobs -> JobStates] /\ \A j \in Jobs : Sound(job'[j])
         /\ last' \in 0..MaxJobs /\ current' \in 0..last' /\ ticking' \in BOOLEAN
         /\ ticking' <=> Waits(next.step)
         /\ Behind(job', current', next.step)
         /\ \A j \in Jobs : Becomes(jobs[j], job'[j], j = last', next)
         /\ next.step # s.step =>
              \A j \in Jobs : \/ job'[j].pc = "over" \/ job'[j].dead
                              \/ Enters(s, next) /\ job'[j] = startWork(next)
<1> DEFINE left == IF stopsWork(s, next) THEN stopWork(jobs) ELSE jobs
<1>1. MaxJobs \in Nat /\ last \in 0..MaxJobs /\ current \in 0..last
      /\ (current = 0 \/ current \in Jobs) /\ 0 \notin Jobs /\ ticking \in BOOLEAN
  BY WizardAssumption DEF Typed, Jobs
<1>2. /\ left \in [Jobs -> JobStates]
      /\ \A j \in Jobs : /\ Sound(left[j])
                         /\ \/ left[j] = jobs[j]
                            \/ stopsWork(s, next) /\ left[j] = [jobs[j] EXCEPT !.dead = TRUE]
      /\ stopsWork(s, next) => \A j \in Jobs : left[j].pc # "over" => left[j].dead
      /\ ~stopsWork(s, next) => left = jobs
  <2>1. CASE stopsWork(s, next)
    BY <1>1, <2>1, StopWorkIs
  <2>2. CASE ~stopsWork(s, next)
    BY <2>2
  <2> QED
    BY <2>1, <2>2
<1>3. next.step # s.step => \A j \in Jobs : left[j].pc # "over" => left[j].dead
  <2>1. CASE Waits(s.step)
    BY <1>2, <2>1 DEF stopsWork, Leaves
  <2>2. CASE ~Waits(s.step)
    <3>1. \A j \in Jobs : jobs[j].pc # "over" => jobs[j].dead
      BY <2>2 DEF Behind
    <3> HIDE DEF left
    <3> QED
      BY <1>2, <3>1
  <2> QED
    BY <2>1, <2>2
<1>4. CASE Enters(s, next)
  <2> DEFINE b == startWork(next)
  <2>1. /\ job' = [left EXCEPT ![last + 1] = b]
        /\ last' = last + 1 /\ current' = last + 1 /\ ticking' = TRUE
        /\ last < MaxJobs
    BY <1>4 DEF Turn, stateChanged
  <2>2. next.step # s.step /\ Waits(next.step)
    BY <1>4 DEF Enters
  <2>3. asked(next) \in Asks /\ (kindOf(next.step) # "collect" => ~asked(next).keep)
    BY <2>2, AskedIs
  <2>4. Fresh(b, next.step) /\ b \in JobStates
    BY <2>2, <2>3, Starts DEF Fresh, Sound
  <2>5. last + 1 \in Jobs /\ last' \in 0..MaxJobs /\ current' \in 0..last'
    BY <1>1, <2>1 DEF Jobs
  <2>10. b = startWork(next)
    OBVIOUS
  <2> HIDE DEF left, b
  <2>6. job' \in [Jobs -> JobStates] /\ job'[last + 1] = b
        /\ \A j \in Jobs : j # last + 1 => job'[j] = left[j]
    BY <1>2, <2>1, <2>4, <2>5
  <2>7. \A j \in Jobs : Sound(job'[j])
    BY <1>2, <2>4, <2>6 DEF Fresh
  <2>8. Behind(job', current', next.step)
    BY <1>3, <2>1, <2>2, <2>4, <2>6 DEF Behind, Fresh
  <2>9. \A j \in Jobs : Becomes(jobs[j], job'[j], j = last', next)
    BY <1>2, <1>4, <2>1, <2>4, <2>6, <2>10 DEF Becomes
  <2>11. \A j \in Jobs : job'[j].pc = "over" \/ job'[j].dead \/ job'[j] = startWork(next)
    BY <1>3, <2>2, <2>6, <2>10
  <2> QED
    BY <1>4, <2>1, <2>2, <2>5, <2>6, <2>7, <2>8, <2>9, <2>11
<1>5. CASE ~Enters(s, next)
  <2>1. /\ job' = left /\ last' = last
        /\ current' = (IF stopsWork(s, next) THEN 0 ELSE current)
        /\ ticking' = (ticking /\ ~Leaves(s, next))
    BY <1>5 DEF Turn, stateChanged
  <2>2. current' \in 0..last' /\ last' \in 0..MaxJobs
    BY <1>1, <2>1
  <2>3. ticking' \in BOOLEAN
    BY <2>1
  <2>4. ticking' <=> Waits(next.step)
    <3>1. CASE next.step = s.step
      BY <2>1, <3>1 DEF Leaves
    <3>2. CASE next.step # s.step
      BY <1>5, <2>1, <3>2 DEF Leaves, Enters
    <3> QED
      BY <3>1, <3>2
  <2> HIDE DEF left
  <2>5. Behind(job', current', next.step)
    <3>1. CASE next.step # s.step
      BY <1>3, <2>1, <3>1 DEF Behind
    <3>2. CASE next.step = s.step /\ stopsWork(s, next)
      BY <1>2, <2>1, <3>2 DEF Behind
    <3>3. CASE next.step = s.step /\ ~stopsWork(s, next)
      BY <1>2, <2>1, <3>3
    <3> QED
      BY <3>1, <3>2, <3>3
  <2>6. \A j \in Jobs : Becomes(jobs[j], job'[j], j = last', next)
    BY <1>2, <2>1 DEF Becomes
  <2>7. job' \in [Jobs -> JobStates] /\ \A j \in Jobs : Sound(job'[j])
    BY <1>2, <2>1
  <2>8. next.step # s.step => \A j \in Jobs : job'[j].pc = "over" \/ job'[j].dead
    BY <1>3, <2>1
  <2> QED
    BY <2>2, <2>3, <2>4, <2>5, <2>6, <2>7, <2>8
<1> QED
  BY <1>4, <1>5

-----------------------------------------------------------------------------
(* The loop keeps the invariant *)

\* What the loop may turn to: it starts a collection from the options only, leaves one
\* only when it is over, and owns up to what went wrong.
Allowed(jobs, next, status) ==
  /\ StateOK(next)
  /\ next.step = "collecting" /\ s.step # "collecting" => s.step = "options" /\ next.verify.probed
  /\ s.step \in Late => next.step \in Late
  /\ next.step # "collecting" => \A j \in Jobs : ~Collects(jobs[j])
  /\ status \in 0..2 /\ (crashed' => status # 0)
  /\ crashed' \in BOOLEAN /\ stopped' \in BOOLEAN /\ (stopped \/ crashed => stopped' \/ crashed')
  /\ next.stopping /\ ~s.stopping => stopped' \/ crashed'
  /\ next.step = "done" /\ status = 0 /\ ~crashed' => stopped' \/ Mine

\* Where a job that collects, or has collected, comes from.
LEMMA Descends ==
  ASSUME NEW a, Sound(a), NEW b, NEW isNew, NEW next, Becomes(a, b, isNew, next)
  PROVE  /\ Collects(b) => Collects(a) \/ (isNew /\ Enters(s, next) /\ next.step = "collecting")
         /\ Wrote(b) => Wrote(a)
         /\ WasStopped(b) => WasStopped(a) \/ (Collects(a) /\ stopsWork(s, next))
         /\ b.pc = "started" => a.pc = "started" \/ (Enters(s, next) /\ Fresh(b, next.step))
         /\ a.kind # b.kind => isNew /\ Enters(s, next) /\ Fresh(b, next.step)
<1>1. CASE b = a
  BY <1>1
<1>2. CASE stopsWork(s, next) /\ b = [a EXCEPT !.dead = TRUE]
  BY <1>2, Cancelled DEF Collects
<1>3. CASE isNew /\ Enters(s, next) /\ Fresh(b, next.step)
  <2>1. Collects(b) => next.step = "collecting"
    BY <1>3 DEF Fresh, Collects, Enters, Waits, kindOf
  <2> QED
    BY <1>3, <2>1 DEF Fresh
<1> QED
  BY <1>1, <1>2, <1>3 DEF Becomes

\* A turn to what is allowed keeps the invariant.
LEMMA TurnKeeps ==
  ASSUME IInv, NEW jobs \in [Jobs -> JobStates],
         \A j \in Jobs : Follows(job[j], jobs[j]) /\ (Wrote(jobs[j]) => Wrote(job[j])),
         NEW next, NEW status, Allowed(jobs, next, status), Turn(next, status, jobs),
         UNCHANGED worldVars, panics' \in Nat, died' \in Nat, stale' \in BOOLEAN,
         named' \in Names \cup {NoOne}
  PROVE  IInv'
<1>1. Typed /\ DiskKnown /\ Screen /\ Answers
  BY DEF IInv
<1>2. \A j \in Jobs : Sound(jobs[j])
  BY DEF Follows
<1>3. Behind(jobs, current, s.step)
  <2>1. Behind(job, current, s.step)
    BY <1>1 DEF Screen
  <2> QED
    BY <2>1 DEF Behind, Follows
<1>4. /\ StateOK(next) /\ (ticking <=> Waits(s.step))
      /\ next.step = "collecting" /\ s.step # "collecting" => s.step = "options" /\ next.verify.probed
  BY <1>1 DEF Screen, Allowed
<1>5. /\ job' \in [Jobs -> JobStates] /\ \A j \in Jobs : Sound(job'[j])
      /\ last' \in 0..MaxJobs /\ current' \in 0..last' /\ ticking' \in BOOLEAN
      /\ ticking' <=> Waits(next.step)
      /\ Behind(job', current', next.step)
      /\ \A j \in Jobs : Becomes(jobs[j], job'[j], j = last', next)
  BY <1>1, <1>2, <1>3, <1>4, TurnIs
<1>6. s' = next /\ code' = status /\ returned' = (next.step = "quit")
  BY DEF Turn
<1>7. disk' = disk /\ replaced' = replaced /\ others' = others /\ (Mine' <=> Mine)
      /\ (OnlyOthers' <=> OnlyOthers)
  BY DEF worldVars, Mine, OnlyOthers
<1>8. \A j \in Jobs :
        /\ Collects(job'[j]) => \/ Collects(jobs[j])
                                \/ j = last' /\ Enters(s, next) /\ next.step = "collecting"
        /\ Wrote(job'[j]) => Wrote(job[j])
        /\ WasStopped(job'[j]) => WasStopped(job[j]) \/ (Collects(jobs[j]) /\ stopsWork(s, next))
        /\ job'[j].pc = "started" /\ Collects(job'[j]) =>
             (Collects(job[j]) /\ job[j].pc = "started") \/ (Enters(s, next) /\ next.step = "collecting")
  <2> SUFFICES ASSUME NEW j \in Jobs
               PROVE  /\ Collects(job'[j]) => \/ Collects(jobs[j])
                                              \/ j = last' /\ Enters(s, next) /\ next.step = "collecting"
                      /\ Wrote(job'[j]) => Wrote(job[j])
                      /\ WasStopped(job'[j]) =>
                           WasStopped(job[j]) \/ (Collects(jobs[j]) /\ stopsWork(s, next))
                      /\ job'[j].pc = "started" /\ Collects(job'[j]) =>
                           \/ Collects(job[j]) /\ job[j].pc = "started"
                           \/ Enters(s, next) /\ next.step = "collecting"
    OBVIOUS
  <2> DEFINE a == jobs[j]   b == job'[j]
  <2>1. Sound(a) /\ Becomes(a, b, j = last', next) /\ Follows(job[j], a) /\ (Wrote(a) => Wrote(job[j]))
    BY <1>2, <1>5
  <2> HIDE DEF a, b
  <2>2. /\ Collects(b) => Collects(a) \/ (j = last' /\ Enters(s, next) /\ next.step = "collecting")
        /\ Wrote(b) => Wrote(a)
        /\ WasStopped(b) => WasStopped(a) \/ (Collects(a) /\ stopsWork(s, next))
        /\ b.pc = "started" => a.pc = "started" \/ (Enters(s, next) /\ Fresh(b, next.step))
    BY <2>1, Descends
  <2>3. Fresh(b, next.step) /\ Collects(b) /\ Enters(s, next) => next.step = "collecting"
    BY DEF Fresh, Collects, Enters, Waits, kindOf
  <2>4. (Collects(a) => Collects(job[j])) /\ (WasStopped(a) => WasStopped(job[j]))
        /\ (a.pc = "started" => job[j].pc = "started")
    BY <2>1 DEF Follows
  <2> QED
    BY <2>1, <2>2, <2>3, <2>4 DEF a, b
<1>9. \A j \in Jobs : Collects(jobs[j]) => Collects(job[j]) /\ s.step = "collecting"
                                            /\ next.step = "collecting"
  BY <1>1 DEF Follows, Screen, Allowed
<1>10. Typed'
  <2>1. replaced \subseteq Names
    BY <1>1 DEF Typed
  <2> QED
    BY <1>4, <1>5, <1>6, <1>7, <2>1 DEF Typed, Allowed
<1>11. DiskKnown'
  <2>1. s'.step \notin Late => s.step \notin Late
    BY <1>6 DEF Allowed
  <2>2. (\E j \in Jobs : At(j, "collect", "started")') =>
          s.step \notin Late \/ \E j \in Jobs : At(j, "collect", "started")
    <3> SUFFICES ASSUME NEW j \in Jobs, job'[j].kind = "collect", job'[j].pc = "started"
                 PROVE  s.step \notin Late \/ \E i \in Jobs : At(i, "collect", "started")
      BY DEF At
    <3>1. \/ Collects(job[j]) /\ job[j].pc = "started"
          \/ Enters(s, next) /\ next.step = "collecting"
      BY <1>8 DEF Collects
    <3>2. Enters(s, next) /\ next.step = "collecting" => s.step = "options"
      BY <1>4 DEF Enters
    <3> QED
      BY <3>1, <3>2 DEF Collects, At, Late
  <2>3. s.step \notin Late \/ (\E j \in Jobs : At(j, "collect", "started")) => OnlyOthers
    BY <1>1 DEF DiskKnown
  <2>4. s'.step \notin Late \/ (\E j \in Jobs : At(j, "collect", "started"))' => OnlyOthers'
    BY <1>7, <2>1, <2>2, <2>3
  <2>5. /\ disk' \in [Names -> Archives \cup {"free", "folder"}]
        /\ others' \subseteq Names /\ IsFiniteSet(others') /\ Cardinality(others') <= MaxOthers
    BY <1>1, <1>7 DEF DiskKnown
  <2> QED
    BY <2>4, <2>5 DEF DiskKnown
<1>12. Screen'
  <2>1. Alone(job')
    <3> SUFFICES ASSUME NEW i \in Jobs, NEW j \in Jobs, Collects(job'[i]), Collects(job'[j])
                 PROVE  i = j
      BY DEF Alone
    <3>1. CASE Enters(s, next) /\ next.step = "collecting"
      BY <1>8, <1>9, <3>1 DEF Enters
    <3>2. CASE ~(Enters(s, next) /\ next.step = "collecting")
      <4>1. Collects(job[i]) /\ Collects(job[j])
        BY <1>8, <1>9, <3>2
      <4> QED
        BY <1>1, <4>1 DEF Screen, Alone
    <3> QED
      BY <3>1, <3>2
  <2>2. \A j \in Jobs : Collects(job'[j]) => next.step = "collecting"
    BY <1>8, <1>9
  <2> QED
    BY <1>5, <1>6, <2>1, <2>2 DEF Screen
<1>13. Answers'
  <2>1. crashed' => code' # 0
    BY <1>6 DEF Allowed
  <2>2. \A j \in Jobs : Wrote(job'[j]) => Mine'
    BY <1>1, <1>7, <1>8 DEF Answers
  <2>3. \A j \in Jobs : WasStopped(job'[j]) => stopped' \/ crashed'
    <3> SUFFICES ASSUME NEW j \in Jobs, WasStopped(job'[j]) PROVE stopped' \/ crashed'
      OBVIOUS
    <3>1. CASE WasStopped(job[j])
      BY <1>1, <3>1 DEF Answers, Allowed
    <3>2. CASE Collects(jobs[j]) /\ stopsWork(s, next)
      <4>1. next.stopping /\ ~s.stopping
        BY <1>9, <3>2 DEF stopsWork, Leaves
      <4> QED
        BY <4>1 DEF Allowed
    <3> QED
      BY <1>8, <3>1, <3>2
  <2>4. ZeroMeansArchived'
    BY <1>6, <1>7 DEF ZeroMeansArchived, Allowed, Mine
  <2> QED
    BY <2>1, <2>2, <2>3, <2>4 DEF Answers
<1> QED
  BY <1>10, <1>11, <1>12, <1>13 DEF IInv

\* A keystroke is allowed to change the screen as it does.
LEMMA PressAllowed ==
  ASSUME IInv, NEW next \in Key(s), stopped' = (stopped \/ next.stopping), crashed' = crashed
  PROVE  Allowed(job, next, code)
<1>1. Typed /\ Screen /\ Answers
  BY DEF IInv
<1>2. Pressed(s, next)
  BY <1>1, KeyIs DEF Typed
<1>3. next.stopping \in BOOLEAN /\ stopped \in BOOLEAN /\ crashed \in BOOLEAN
  BY <1>1, <1>2 DEF Typed, Pressed, StateOK, StateType
<1>4. stopped' \in BOOLEAN /\ (stopped => stopped') /\ (next.stopping => stopped')
  BY <1>3
<1>5. s.step \in Late => next.step \in Late
  BY <1>1, <1>2, KeyIs DEF Typed, Pressed, Late
<1>6. next.step # "collecting" => \A j \in Jobs : ~Collects(job[j])
  BY <1>1, <1>2 DEF Screen, Pressed
<1>7. code \in 0..2 /\ (crashed => code # 0)
  BY <1>1 DEF Answers, Typed
<1> QED
  BY <1>2, <1>3, <1>4, <1>5, <1>6, <1>7 DEF Allowed, Pressed

\* A keystroke keeps the invariant.
LEMMA PressKeyKeeps == IInv /\ PressKey => IInv'
<1> SUFFICES ASSUME IInv, PressKey PROVE IInv'
  OBVIOUS
<1>1. PICK next \in Key(s) :
        /\ Turn(next, code, job)
        /\ stopped' = (stopped \/ next.stopping)
        /\ named' = IF next.step = "collecting" /\ s.step = "options" THEN s.collision ELSE named
  BY DEF PressKey
<1>2. UNCHANGED <<panics, worldVars, died, crashed, stale>>
  BY DEF PressKey
<1>3. Typed
  BY DEF IInv
<1>4. s.collision \in Names \cup {NoOne} /\ named \in Names \cup {NoOne} /\ job \in [Jobs -> JobStates]
  BY <1>3 DEF Typed, StateOK, StateType
<1>5. \A j \in Jobs : Follows(job[j], job[j]) /\ (Wrote(job[j]) => Wrote(job[j]))
  BY <1>3 DEF Typed, Follows
<1>6. Allowed(job, next, code)
  BY <1>1, <1>2, PressAllowed
<1>7. /\ named' \in Names \cup {NoOne} /\ panics' \in Nat /\ died' \in Nat /\ stale' \in BOOLEAN
      /\ UNCHANGED worldVars
  BY <1>1, <1>2, <1>3, <1>4 DEF Typed
<1> QED
  BY <1>1, <1>4, <1>5, <1>6, <1>7, TurnKeeps

\* An event is allowed to change the screen as it does.
LEMMA EventAllowed ==
  ASSUME IInv, ~returned, NEW e \in EventsSent, NEW jobs,
         \A j \in Jobs : Follows(job[j], jobs[j]),
         e.is = "collectDone" => /\ e.err => e.code # 0
                                 /\ ~e.err => Mine
                                 /\ e.stopped => stopped \/ crashed
                                 /\ \A j \in Jobs : ~Collects(jobs[j]),
         crashed' = (crashed \/ e.is = "panic"), stopped' = stopped
  PROVE  Allowed(jobs, Apply(e, s), remembered(e, s))
<1> DEFINE next == Apply(e, s)   status == remembered(e, s)
<1> SUFFICES Allowed(jobs, next, status)
  OBVIOUS
<1>1. Typed /\ Screen /\ Answers
  BY DEF IInv
<1>2. Heard(s, e, next)
  BY <1>1, ApplyIs DEF Typed, Screen
<1>3. /\ status \in 0..2
      /\ status = 0 => code = 0 /\ e.is # "panic"
      /\ status = 0 /\ e.is = "collectDone" => ~e.err \/ e.stopped
  BY <1>1, RememberedIs
<1> HIDE DEF next, status
<1>4. crashed' \in BOOLEAN /\ stopped' \in BOOLEAN /\ (stopped \/ crashed => stopped' \/ crashed')
      /\ (e.is = "panic" => crashed') /\ (crashed' => crashed \/ e.is = "panic")
  BY <1>1 DEF Typed
<1>5. crashed' => status # 0
  BY <1>1, <1>3, <1>4 DEF Answers
<1>6. s.step \in Late => next.step \in Late
  BY <1>1, <1>2 DEF Heard, Late, Screen
<1>7. next.step # "collecting" => \A j \in Jobs : ~Collects(jobs[j])
  <2> SUFFICES ASSUME NEW j \in Jobs, Collects(jobs[j]), e.is # "collectDone"
               PROVE  next.step = "collecting"
    OBVIOUS
  <2>1. s.step = "collecting"
    BY <1>1 DEF Follows, Screen
  <2> QED
    BY <1>2, <2>1 DEF Heard
<1>8. next.step = "done" /\ status = 0 /\ ~crashed' => stopped' \/ Mine
  <2> SUFFICES ASSUME next.step = "done", status = 0, ~crashed' PROVE stopped' \/ Mine
    OBVIOUS
  <2>1. code = 0 /\ ~crashed
    BY <1>3, <1>4
  <2>2. CASE s.step = "done"
    BY <1>1, <2>1, <2>2 DEF Answers, ZeroMeansArchived, Mine
  <2>3. CASE e.is = "collectDone"
    BY <1>3, <2>1, <2>3
  <2> QED
    BY <1>2, <2>2, <2>3 DEF Heard
<1> QED
  BY <1>2, <1>3, <1>4, <1>5, <1>6, <1>7, <1>8 DEF Allowed, Heard

\* The event of a job is allowed to change the screen as it does.
LEMMA DeliverIs ==
  ASSUME IInv, NEW j \in Jobs, Deliver(j)
  PROVE  /\ After(j) \in [Jobs -> JobStates]
         /\ \A i \in Jobs : /\ Follows(job[i], After(j)[i])
                            /\ Wrote(After(j)[i]) => Wrote(job[i])
                            /\ i # j => After(j)[i] = job[i]
         /\ job[j].ev \in EventsSent /\ Sound(job[j]) /\ job[j].pc = "sending"
         /\ Allowed(After(j), Apply(job[j].ev, s), remembered(job[j].ev, s))
<1> DEFINE e == job[j].ev
<1>1. /\ job[j].pc = "sending" /\ Turn(Apply(e, s), remembered(e, s), After(j))
      /\ crashed' = (crashed \/ e.is = "panic")
      /\ stale' = (stale \/ (Apply(e, s) # s /\ job[j].dead
                             /\ e.is \in {"connected", "connectFailed", "verified"}))
      /\ UNCHANGED <<panics, worldVars, died, stopped, named>>
  BY DEF Deliver
<1>2. Typed /\ Screen /\ Answers
  BY DEF IInv
<1>3. /\ job \in [Jobs -> JobStates] /\ job[j] \in JobStates /\ Sound(job[j]) /\ e \in EventsSent
      /\ \A i \in Jobs : Sound(job[i])
  BY <1>2 DEF Typed, JobStates
<1>4. PICK b : /\ After(j) = [job EXCEPT ![j] = b]
               /\ Follows(job[j], b) /\ ~Wrote(b)
               /\ e.is = "collectDone" => ~Collects(b)
  BY <1>1, <1>3, AfterIs
<1> DEFINE jobs == After(j)
<1>5. /\ jobs \in [Jobs -> JobStates]
      /\ \A i \in Jobs : Follows(job[i], jobs[i]) /\ (Wrote(jobs[i]) => Wrote(job[i]))
  <2>1. b \in JobStates
    BY <1>4 DEF Follows, Sound
  <2>2. \A i \in Jobs : Follows(job[i], job[i])
    BY <1>3 DEF Follows
  <2> QED
    BY <1>3, <1>4, <2>1, <2>2
<1>6. e.is = "collectDone" => /\ e.err => e.code # 0
                              /\ ~e.err => Mine
                              /\ e.stopped => stopped \/ crashed
                              /\ \A i \in Jobs : ~Collects(jobs[i])
  <2> SUFFICES ASSUME e.is = "collectDone"
               PROVE  /\ e.err => e.code # 0
                      /\ ~e.err => Mine
                      /\ e.stopped => stopped \/ crashed
                      /\ \A i \in Jobs : ~Collects(jobs[i])
    OBVIOUS
  <2>1. Collects(job[j]) /\ (e.err => e.code # 0)
    BY <1>3 DEF Sound, Collects
  <2>2. \A i \in Jobs : i # j => ~Collects(job[i])
    BY <1>2, <2>1 DEF Screen, Alone
  <2>3. \A i \in Jobs : ~Collects(jobs[i])
    BY <1>3, <1>4, <2>2
  <2>4. ~e.err => Mine
    BY <1>2 DEF Answers, Wrote
  <2>5. e.stopped => stopped \/ crashed
    BY <1>2 DEF Answers, WasStopped
  <2> QED
    BY <2>1, <2>3, <2>4, <2>5
<1>7. ~returned
  BY <1>1 DEF Turn
<1>8. stopped' = stopped
  BY <1>1
<1>9. Allowed(jobs, Apply(e, s), remembered(e, s))
  <2> HIDE DEF e, jobs
  <2> QED
    BY <1>1, <1>3, <1>5, <1>6, <1>7, <1>8, EventAllowed
<1>10. \A i \in Jobs : i # j => jobs[i] = job[i]
  BY <1>3, <1>4
<1> QED
  BY <1>1, <1>3, <1>5, <1>9, <1>10

\* The event of a job keeps the invariant.
LEMMA DeliverKeeps ==
  ASSUME IInv, NEW j \in Jobs, Deliver(j)
  PROVE  IInv'
<1> DEFINE e == job[j].ev   next == Apply(e, s)   status == remembered(e, s)   jobs == After(j)
<1>1. /\ Turn(next, status, jobs)
      /\ stale' = (stale \/ (next # s /\ job[j].dead
                             /\ e.is \in {"connected", "connectFailed", "verified"}))
      /\ UNCHANGED <<panics, worldVars, died, stopped, named>>
  BY DEF Deliver
<1>2. /\ jobs \in [Jobs -> JobStates] /\ Allowed(jobs, next, status)
      /\ \A i \in Jobs : Follows(job[i], jobs[i]) /\ (Wrote(jobs[i]) => Wrote(job[i]))
  BY DeliverIs
<1>3. panics' \in Nat /\ died' \in Nat /\ stale' \in BOOLEAN /\ UNCHANGED worldVars
      /\ named' \in Names \cup {NoOne}
  BY <1>1 DEF IInv, Typed
<1> HIDE DEF next, status, jobs
<1> QED
  BY <1>1, <1>2, <1>3, TurnKeeps

\* The panic of another goroutine is allowed to change the screen as it does.
LEMMA PanicIs ==
  ASSUME IInv, DeliverPanic, NEW e, e = [is |-> "panic"]
  PROVE  /\ e \in EventsSent /\ e.is = "panic"
         /\ job \in [Jobs -> JobStates]
         /\ \A i \in Jobs : Follows(job[i], job[i])
         /\ Turn(Apply(e, s), remembered(e, s), job)
         /\ Allowed(job, Apply(e, s), remembered(e, s))
<1>1. /\ Turn(Apply(e, s), remembered(e, s), job) /\ crashed' = TRUE /\ stopped' = stopped
  BY DEF DeliverPanic
<1>2. Typed
  BY DEF IInv
<1>3. e \in EventsSent /\ e.is = "panic"
  BY DEF EventsSent
<1>4. job \in [Jobs -> JobStates] /\ \A i \in Jobs : Follows(job[i], job[i])
  BY <1>2 DEF Follows, Typed
<1>5. ~returned
  BY <1>1 DEF Turn
<1>6. crashed' = (crashed \/ e.is = "panic")
  BY <1>1, <1>3
<1>7. Allowed(job, Apply(e, s), remembered(e, s))
  BY <1>1, <1>3, <1>4, <1>5, <1>6, EventAllowed
<1> QED
  BY <1>1, <1>3, <1>4, <1>7

\* The panic of another goroutine keeps the invariant.
LEMMA DeliverPanicKeeps == IInv /\ DeliverPanic => IInv'
<1> SUFFICES ASSUME IInv, DeliverPanic PROVE IInv'
  OBVIOUS
<1> DEFINE e == [is |-> "panic"]
<1>1. /\ panics > 0 /\ panics' = panics - 1
      /\ UNCHANGED <<worldVars, died, stale, stopped, named>>
  BY DEF DeliverPanic
<1>2. panics' \in Nat /\ died' \in Nat /\ stale' \in BOOLEAN /\ UNCHANGED worldVars
      /\ named' \in Names \cup {NoOne}
  BY <1>1 DEF IInv, Typed
<1>3. /\ job \in [Jobs -> JobStates] /\ \A i \in Jobs : Follows(job[i], job[i])
      /\ Turn(Apply(e, s), remembered(e, s), job)
      /\ Allowed(job, Apply(e, s), remembered(e, s))
  BY PanicIs
<1> HIDE DEF e
<1> QED
  BY <1>2, <1>3, TurnKeeps

-----------------------------------------------------------------------------
(* The jobs keep the invariant *)

\* A step of one job keeps the invariant, if what it writes is its own.
LEMMA JobKeeps ==
  ASSUME IInv, NEW j \in Jobs, NEW b, job' = [job EXCEPT ![j] = b], Follows(job[j], b),
         UNCHANGED <<wizardVars, others, crashed, stale, stopped, named>>,
         panics' \in Nat, died' \in Nat, replaced' \subseteq Names,
         disk' \in [Names -> Archives \cup {"free", "folder"}],
         disk' = disk \/ (Collects(job[j]) /\ b.pc # "started"),
         Wrote(b) => Mine'
  PROVE  IInv'
<1>1. Typed /\ DiskKnown /\ Screen /\ Answers
  BY DEF IInv
<1>2. s' = s /\ code' = code /\ returned' = returned /\ last' = last /\ current' = current
      /\ ticking' = ticking /\ others' = others /\ crashed' = crashed /\ stale' = stale
      /\ stopped' = stopped /\ named' = named
  BY DEF wizardVars
<1>3. /\ job \in [Jobs -> JobStates] /\ b \in JobStates /\ job' \in [Jobs -> JobStates]
      /\ job'[j] = b /\ \A i \in Jobs : i # j => job'[i] = job[i]
  BY <1>1 DEF Typed, Follows, Sound
<1>4. \A i \in Jobs : Sound(job[i]) /\ Sound(job'[i])
  BY <1>1, <1>3 DEF Typed, Follows
<1>5. \A i \in Jobs : /\ Collects(job'[i]) => Collects(job[i])
                      /\ WasStopped(job'[i]) => WasStopped(job[i])
                      /\ job'[i].pc = "started" => job[i].pc = "started"
                      /\ job'[i].pc # "over" => job[i].pc # "over" /\ job'[i].kind = job[i].kind
                                                 /\ job'[i].dead = job[i].dead
  BY <1>3 DEF Follows
<1>6. Collects(job[j]) => s.step = "collecting" /\ \A i \in Jobs : i # j => ~Collects(job[i])
  BY <1>1 DEF Screen, Alone
<1>7. Typed'
  BY <1>1, <1>2, <1>3, <1>4 DEF Typed
<1>8. DiskKnown'
  <2>1. CASE disk' = disk
    <3>1. (\E i \in Jobs : At(i, "collect", "started"))' => \E i \in Jobs : At(i, "collect", "started")
      BY <1>5 DEF At, Collects
    <3>2. OnlyOthers => OnlyOthers'
      BY <1>2, <2>1 DEF OnlyOthers
    <3> QED
      BY <1>1, <1>2, <3>1, <3>2 DEF DiskKnown
  <2>2. CASE Collects(job[j]) /\ b.pc # "started"
    <3>1. s'.step \in Late
      BY <1>2, <1>6, <2>2 DEF Late
    <3>2. ~(\E i \in Jobs : At(i, "collect", "started"))'
      BY <1>3, <1>6, <2>2 DEF At, Collects
    <3> QED
      BY <1>1, <1>2, <3>1, <3>2 DEF DiskKnown
  <2> QED
    BY <2>1, <2>2
<1>9. Screen'
  <2>1. Behind(job', current', s'.step)
    BY <1>1, <1>2, <1>5 DEF Screen, Behind
  <2>2. Alone(job')
    BY <1>1, <1>5 DEF Screen, Alone
  <2>3. \A i \in Jobs : Collects(job'[i]) => s'.step = "collecting"
    BY <1>1, <1>2, <1>5 DEF Screen
  <2>4. (returned' <=> s'.step = "quit") /\ (ticking' <=> Waits(s'.step))
    BY <1>1, <1>2 DEF Screen
  <2> QED
    BY <2>1, <2>2, <2>3, <2>4 DEF Screen
<1>10. Answers'
  <2>1. \A i \in Jobs : Wrote(job'[i]) => Mine'
    <3> SUFFICES ASSUME NEW i \in Jobs, Wrote(job'[i]), i # j PROVE Mine'
      BY <1>3
    <3>1. Wrote(job[i])
      BY <1>3
    <3>2. Mine /\ Collects(job[i])
      BY <1>1, <1>4, <3>1 DEF Answers, Wrote, Sound, Collects
    <3>3. disk' = disk
      BY <1>6, <3>2
    <3> QED
      BY <3>2, <3>3 DEF Mine
  <2>2. \A i \in Jobs : WasStopped(job'[i]) => stopped' \/ crashed'
    BY <1>1, <1>2, <1>5 DEF Answers
  <2>3. ZeroMeansArchived'
    <3>1. s.step = "done" => disk' = disk
      BY <1>6
    <3> QED
      BY <1>1, <1>2, <3>1 DEF Answers, ZeroMeansArchived
  <2>4. crashed' => code' # 0
    BY <1>1, <1>2 DEF Answers
  <2> QED
    BY <2>1, <2>2, <2>3, <2>4 DEF Answers
<1> QED
  BY <1>7, <1>8, <1>9, <1>10 DEF IInv

\* A step of a job that leaves the disk alone.
LEMMA QuietKeeps ==
  ASSUME IInv, NEW j \in Jobs, NEW b, job' = [job EXCEPT ![j] = b], Follows(job[j], b),
         quiet, UNCHANGED worldVars, Wrote(b) => Mine
  PROVE  IInv'
<1>1. Typed /\ DiskKnown
  BY DEF IInv
<1>2. UNCHANGED <<wizardVars, others, crashed, stale, stopped, named>>
      /\ panics' = panics /\ died' = died /\ replaced' = replaced /\ disk' = disk
  BY DEF quiet, worldVars
<1>3. panics' \in Nat /\ died' \in Nat /\ replaced' \subseteq Names
      /\ disk' \in [Names -> Archives \cup {"free", "folder"}] /\ (Mine => Mine')
  BY <1>1, <1>2 DEF Typed, DiskKnown, Mine
<1> QED
  BY <1>2, <1>3, JobKeeps

\* What a job is, in a state of the invariant.
LEMMA JobIs ==
  ASSUME IInv, NEW j \in Jobs
  PROVE  job \in [Jobs -> JobStates] /\ job[j] \in JobStates /\ Sound(job[j])
BY DEF IInv, Typed, JobStates

\* A job that holds an event is one record in the place of another.
LEMMA SendIs ==
  ASSUME NEW j \in Jobs, job \in [Jobs -> JobStates], NEW e, Send(j, e)
  PROVE  job' = [job EXCEPT ![j] = Holding(job[j], "sending", e)]
BY DEF Send, Holding

\* The answers of an attempt to connect keep the invariant.
LEMMA ConnectKeeps ==
  ASSUME IInv, NEW j \in Jobs, ConnectRefuses(j) \/ ConnectFails(j) \/ Connects(j) \/ Saves(j)
  PROVE  IInv'
<1> DEFINE a == job[j]
<1>1. job \in [Jobs -> JobStates] /\ a \in JobStates /\ Sound(a)
  BY JobIs
<1>2. a.pc # "over" /\ a.kind = "connect" /\ quiet /\ UNCHANGED worldVars
  BY DEF ConnectRefuses, ConnectFails, Connects, Saves, At
<1>3. CASE job' = [job EXCEPT ![j] = Idle]
  BY <1>2, <1>3, Ends, QuietKeeps
<1>4. CASE \E e \in {[is |-> "connected"], [is |-> "connectFailed"]} : Send(j, e)
  <2>1. PICK e \in {[is |-> "connected"], [is |-> "connectFailed"]} : Send(j, e)
    BY <1>4
  <2>2. e \in EventsSent /\ e.is \notin {"finished", "collectDone"}
    BY <2>1 DEF EventsSent
  <2> DEFINE b == Holding(a, "sending", e)
  <2>3. Follows(a, b) /\ ~Wrote(b)
    BY <1>1, <1>2, <2>2, Says
  <2>4. job' = [job EXCEPT ![j] = b]
    BY <1>1, <2>1, SendIs
  <2> HIDE DEF b
  <2> QED
    BY <1>2, <2>3, <2>4, QuietKeeps
<1>5. CASE job' = [job EXCEPT ![j].pc = "saving"]
  <2> DEFINE b == Holding(a, "saving", a.ev)
  <2>1. a.ev \in EventsSent /\ a.ev.is \notin {"finished", "collectDone"}
    BY <1>1, <1>2 DEF Sound, JobStates
  <2>2. Follows(a, b) /\ ~Wrote(b)
    BY <1>1, <1>2, <2>1, Says
  <2>3. [a EXCEPT !.pc = "saving"] = b
    BY <1>1 DEF Holding, JobStates
  <2>4. job' = [job EXCEPT ![j] = b]
    BY <1>5, <2>3
  <2> HIDE DEF b
  <2> QED
    BY <1>2, <2>2, <2>4, QuietKeeps
<1> QED
  BY <1>3, <1>4, <1>5 DEF ConnectRefuses, ConnectFails, Connects, Saves

\* The verification keeps the invariant.
LEMMA VerifyKeeps ==
  ASSUME IInv, NEW j \in Jobs, Verifies(j) \/ Looks(j)
  PROVE  IInv'
<1> DEFINE a == job[j]
<1>1. job \in [Jobs -> JobStates] /\ a \in JobStates /\ Sound(a)
  BY JobIs
<1>2. a.pc # "over" /\ a.kind = "verify" /\ quiet /\ UNCHANGED worldVars
  BY DEF Verifies, Looks, At
<1>3. a.ask \in Asks /\ a.ev \in EventsSent /\ ~a.ask.keep
  BY <1>1, <1>2 DEF JobStates, Sound
<1>4. CASE job' = [job EXCEPT ![j] = Idle]
  BY <1>2, <1>4, Ends, QuietKeeps
<1>5. CASE Verifies(j) /\ ~a.dead
  <2>1. PICK r \in Results(a.ask.addr) :
          job' = [job EXCEPT ![j].pc = "looking",
                             ![j].ev = [is |-> "verified", reachable |-> r.reachable,
                                        result |-> r.result, collision |-> NoOne]]
    BY <1>5 DEF Verifies
  <2>2. r.reachable \in BOOLEAN /\ r.result \in Looked
    <3>1. Unseen \in Looked
      BY DEF Unseen, Looked
    <3>2. CASE \E k \in BOOLEAN : r = [reachable |-> k, result |-> Unseen]
      BY <3>1, <3>2
    <3>3. CASE a.ask.addr # NoOne /\
               \E k \in BOOLEAN : r = [reachable |-> TRUE,
                  result |-> [of |-> InstanceOf[a.ask.addr], probed |-> TRUE, runnable |-> k]]
      <4>1. InstanceOf[a.ask.addr] \in Instances /\ InstanceOf[a.ask.addr] # NoOne
        BY <1>3, <3>3, WizardAssumption DEF Asks
      <4>2. PICK k \in BOOLEAN : r = [reachable |-> TRUE,
                  result |-> [of |-> InstanceOf[a.ask.addr], probed |-> TRUE, runnable |-> k]]
        BY <3>3
      <4>3. [of |-> InstanceOf[a.ask.addr], probed |-> TRUE, runnable |-> k] \in Looked
        BY <4>1 DEF Looked
      <4> QED
        BY <4>2, <4>3
    <3>4. \/ r = [reachable |-> FALSE, result |-> Unseen]
          \/ r = [reachable |-> TRUE, result |-> Unseen]
          \/ a.ask.addr # NoOne /\
               \E k \in BOOLEAN : r = [reachable |-> TRUE,
                  result |-> [of |-> InstanceOf[a.ask.addr], probed |-> TRUE, runnable |-> k]]
      BY <2>1 DEF Results
    <3> QED
      BY <3>2, <3>3, <3>4
  <2> DEFINE e == [is |-> "verified", reachable |-> r.reachable, result |-> r.result,
                   collision |-> NoOne]
             b == Holding(a, "looking", e)
  <2>3. e \in EventsSent /\ e.is = "verified"
    BY <2>2 DEF EventsSent
  <2>4. job' = [job EXCEPT ![j] = b]
    BY <1>1, <2>1 DEF Holding
  <2> HIDE DEF e
  <2>5. Follows(a, b) /\ ~Wrote(b)
    BY <1>1, <1>2, <2>3, Says
  <2> HIDE DEF b
  <2> QED
    BY <1>2, <2>4, <2>5, QuietKeeps
<1>6. CASE Looks(j)
  <2> DEFINE v == a.ev.result
             c == IF v.probed THEN collisionFor(v, a.ask.profile, a.ask.keep) ELSE NoOne
             e == [a.ev EXCEPT !.collision = c]
             b == Holding(a, "sending", e)
  <2>1. job' = [job EXCEPT ![j].pc = "sending", ![j].ev.collision = c] /\ a.pc = "looking"
    BY <1>6 DEF Looks, At
  <2>2. a.ev.is = "verified"
    BY <1>1, <2>1 DEF Sound
  <2>3. v \in Looked /\ a.ask.profile \in Plans
    BY <1>3, <2>2, EventFields DEF Asks
  <2>4. c \in Names \cup {NoOne}
    BY <1>3, <2>3, CollisionIs
  <2> HIDE DEF c
  <2>5. e \in EventsSent /\ e.is = "verified"
    BY <1>3, <2>2, <2>4 DEF EventsSent
  <2>6. job' = [job EXCEPT ![j] = b]
    BY <1>1, <2>1 DEF Holding
  <2> HIDE DEF e, v
  <2>7. Follows(a, b) /\ ~Wrote(b)
    BY <1>1, <1>2, <2>5, Says
  <2> HIDE DEF b
  <2> QED
    BY <1>2, <2>6, <2>7, QuietKeeps
<1> QED
  BY <1>4, <1>5, <1>6 DEF Verifies

\* A job that is at the end of its run, with a code, or on its way there.
Ending(a, pc, err, c) == [a EXCEPT !.pc = pc, !.err = err, !.code = c]

\* It is the same job, and its code is not zero when it failed.
LEMMA Ended ==
  ASSUME NEW a, Sound(a), a.pc # "over", Collects(a), a.ev.is \notin {"finished", "collectDone"},
         NEW err \in BOOLEAN, NEW c \in 0..2, err => c # 0
  PROVE  LET b == Ending(a, "leaving", err, c) IN
         /\ Follows(a, b)
         /\ Wrote(b) => ~err
<1> DEFINE b == Ending(a, "leaving", err, c)
<1>1. a \in JobStates
  BY DEF Sound
<1>2. b \in JobStates /\ b.pc = "leaving" /\ b.err = err /\ b.code = c /\ b.kind = a.kind
      /\ b.dead = a.dead /\ b.ev = a.ev /\ b.ask = a.ask /\ b.took = a.took
  BY <1>1 DEF Ending, JobStates
<1> HIDE DEF b
<1>3. Follows(a, b) /\ (Wrote(b) => ~err)
  BY <1>2 DEF Follows, Sound, Collects, WasStopped, Wrote
<1> QED
  BY <1>3 DEF b

\* A run that refuses to go on keeps the invariant.
LEMMA RunRefusesKeeps ==
  ASSUME IInv, NEW j \in Jobs, RunRefuses(j)
  PROVE  IInv'
<1> DEFINE a == job[j]   c == 1   b == Ending(a, "leaving", TRUE, c)
<1>1. job \in [Jobs -> JobStates] /\ a \in JobStates /\ Sound(a)
  BY JobIs
<1>2. a.pc = "started" /\ Collects(a) /\ quiet /\ UNCHANGED worldVars
  BY DEF RunRefuses, At, Collects
<1>3. job' = [job EXCEPT ![j] = b]
  BY <1>1 DEF RunRefuses, Ending
<1>4. a.ev.is \notin {"finished", "collectDone"}
  BY <1>1, <1>2 DEF Sound
<1>5. c \in 0..2 /\ c # 0
  OBVIOUS
<1> HIDE DEF c
<1>6. Follows(a, b) /\ ~Wrote(b)
  BY <1>1, <1>2, <1>4, <1>5, Ended
<1> HIDE DEF b
<1> QED
  BY <1>2, <1>3, <1>6, QuietKeeps

\* A run that takes its name keeps the invariant.
LEMMA RunPreparesKeeps ==
  ASSUME IInv, NEW j \in Jobs, RunPrepares(j)
  PROVE  IInv'
<1> DEFINE a == job[j]
           name == RunFolderFor(InstanceOf[a.ask.addr], a.ask.profile, a.ask.keep)
           b == [a EXCEPT !.pc = "collecting", !.took = name]
<1>1. job \in [Jobs -> JobStates] /\ a \in JobStates /\ Sound(a)
  BY JobIs
<1>2. /\ At(j, "collect", "started") /\ a.ask.addr # NoOne
      /\ job' = [job EXCEPT ![j].pc = "collecting", ![j].took = name]
      /\ disk' = [disk EXCEPT ![name] = "folder"]
      /\ replaced' = IF disk[name] = "free" THEN replaced ELSE replaced \cup {name}
      /\ quiet /\ UNCHANGED others
  BY DEF RunPrepares
<1>3. Typed /\ DiskKnown /\ OnlyOthers
  BY <1>2 DEF IInv, DiskKnown
<1>4. name \in Names
  <2>1. InstanceOf[a.ask.addr] \in Instances /\ a.ask.profile \in Plans
    BY <1>1, <1>2, WizardAssumption DEF JobStates, Asks
  <2> QED
    BY <1>3, <2>1, FreeName DEF DiskKnown
<1>5. job' = [job EXCEPT ![j] = b]
  BY <1>1, <1>2
<1> HIDE DEF name
<1>6. disk' \in [Names -> Archives \cup {"free", "folder"}] /\ replaced' \subseteq Names
  BY <1>2, <1>3, <1>4 DEF DiskKnown, Typed
<1>7. b \in JobStates /\ b.pc = "collecting" /\ b.kind = a.kind /\ b.dead = a.dead /\ b.ev = a.ev
      /\ b.ask = a.ask /\ b.err = a.err /\ b.code = a.code
  BY <1>1, <1>4 DEF JobStates
<1>8. a.pc = "started" /\ Collects(a) /\ a.ev.is \notin {"finished", "collectDone"}
  BY <1>1, <1>2 DEF Sound, At, Collects
<1> HIDE DEF b
<1>9. Follows(a, b) /\ ~Wrote(b)
  BY <1>1, <1>7, <1>8 DEF Follows, Sound, Collects, WasStopped, Wrote
<1>10. UNCHANGED <<wizardVars, others, crashed, stale, stopped, named>>
       /\ panics' \in Nat /\ died' \in Nat
  BY <1>2, <1>3 DEF quiet, Typed
<1> QED
  BY <1>5, <1>6, <1>7, <1>8, <1>9, <1>10, JobKeeps

\* A run that tells its verdict keeps the invariant.
LEMMA RunFinishesKeeps ==
  ASSUME IInv, NEW j \in Jobs, RunFinishes(j)
  PROVE  IInv'
<1> DEFINE a == job[j]
<1>1. job \in [Jobs -> JobStates] /\ a \in JobStates /\ Sound(a)
  BY JobIs
<1>2. a.pc # "over" /\ Collects(a) /\ quiet /\ UNCHANGED worldVars
  BY DEF RunFinishes, At, Collects
<1>3. PICK v \in Verdicts(j), err \in BOOLEAN :
        /\ a.took = NoOne => err
        /\ job' = [job EXCEPT ![j].pc = "sending", ![j].err = err,
                              ![j].code = IF v.some /\ ~v.bound /\ ~v.failed /\ ~err THEN 0 ELSE 2,
                              ![j].ev = [is |-> "finished", verdict |-> v]]
  BY DEF RunFinishes
<1> DEFINE c == IF v.some /\ ~v.bound /\ ~v.failed /\ ~err THEN 0 ELSE 2
           e == [is |-> "finished", verdict |-> v]
           b == [a EXCEPT !.pc = "sending", !.err = err, !.code = c, !.ev = e]
<1>4. job' = [job EXCEPT ![j] = b]
  BY <1>1, <1>3
<1>5. e \in EventsSent /\ e.is = "finished"
  BY DEF EventsSent, Verdicts, Said
<1>6. c \in 0..2 /\ (err => c # 0)
  OBVIOUS
<1> HIDE DEF c, e
<1>7. b \in JobStates /\ b.pc = "sending" /\ b.kind = a.kind /\ b.dead = a.dead /\ b.ev = e
      /\ b.ask = a.ask /\ b.err = err /\ b.code = c /\ b.took = a.took
  BY <1>1, <1>5, <1>6 DEF JobStates
<1> HIDE DEF b
<1>8. Follows(a, b) /\ ~Wrote(b)
  BY <1>1, <1>2, <1>3, <1>5, <1>6, <1>7 DEF Follows, Sound, Collects, WasStopped, Wrote
<1> QED
  BY <1>2, <1>4, <1>8, QuietKeeps

\* A run that archives what it collected, or fails to, keeps the invariant.
LEMMA RunArchivesKeeps ==
  ASSUME IInv, NEW j \in Jobs, RunArchives(j)
  PROVE  IInv'
<1> DEFINE a == job[j]
<1>1. job \in [Jobs -> JobStates] /\ a \in JobStates /\ Sound(a)
  BY JobIs
<1>2. a.pc = "archiving" /\ Collects(a) /\ quiet /\ UNCHANGED <<replaced, others>>
  BY DEF RunArchives, At, Collects
<1>3. a.ev.is \notin {"finished", "collectDone"}
  BY <1>1, <1>2 DEF Sound
<1>4. Typed /\ DiskKnown
  BY DEF IInv
<1>5. UNCHANGED <<wizardVars, others, crashed, stale, stopped, named>>
      /\ panics' \in Nat /\ died' \in Nat /\ replaced' \subseteq Names
  BY <1>2, <1>4 DEF quiet, Typed
<1>6. CASE /\ ~a.err /\ disk' = [disk EXCEPT ![a.took] = "mine"]
           /\ job' = [job EXCEPT ![j].pc = "leaving"]
  <2> DEFINE b == Ending(a, "leaving", FALSE, a.code)
  <2>1. a.took \in Names
    BY <1>1, <1>2, <1>6 DEF Sound, JobStates
  <2>2. a.err = FALSE /\ a.code \in 0..2
    BY <1>1, <1>6 DEF JobStates
  <2>3. [a EXCEPT !.pc = "leaving"] = b
    BY <1>1, <2>2 DEF Ending, JobStates
  <2>4. job' = [job EXCEPT ![j] = b]
    BY <1>6, <2>3
  <2>5. Follows(a, b)
    BY <1>1, <1>2, <1>3, <2>2, Ended
  <2>6. disk' \in [Names -> Archives \cup {"free", "folder"}] /\ Mine'
    BY <1>4, <1>6, <2>1 DEF DiskKnown, Archives, Mine
  <2>7. b.pc # "started"
    BY <1>1, <2>2 DEF Ending, JobStates
  <2> HIDE DEF b
  <2> QED
    BY <1>2, <1>5, <2>4, <2>5, <2>6, <2>7, JobKeeps
<1>7. CASE /\ job' = [job EXCEPT ![j].pc = "leaving", ![j].err = TRUE,
                                 ![j].code = IF a.err THEN a.code ELSE 2]
           /\ UNCHANGED disk
  <2> DEFINE c == IF a.err THEN a.code ELSE 2
             b == Ending(a, "leaving", TRUE, c)
  <2>1. c \in 0..2 /\ c # 0
    BY <1>1 DEF Sound, JobStates
  <2>2. job' = [job EXCEPT ![j] = b]
    BY <1>1, <1>7 DEF Ending
  <2> HIDE DEF c
  <2>3. Follows(a, b) /\ ~Wrote(b)
    BY <1>1, <1>2, <1>3, <2>1, Ended
  <2> HIDE DEF b
  <2>4. UNCHANGED worldVars
    BY <1>2, <1>7 DEF worldVars
  <2> QED
    BY <1>2, <2>2, <2>3, <2>4, QuietKeeps
<1> QED
  BY <1>6, <1>7 DEF RunArchives

\* A run that returns keeps the invariant.
LEMMA RunReturnsKeeps ==
  ASSUME IInv, NEW j \in Jobs, RunReturns(j)
  PROVE  IInv'
<1> DEFINE a == job[j]
<1>1. job \in [Jobs -> JobStates] /\ a \in JobStates /\ Sound(a)
  BY JobIs
<1>2. a.pc = "leaving" /\ Collects(a) /\ quiet /\ UNCHANGED worldVars
  BY DEF RunReturns, At, Collects
<1>3. PICK z \in archiveOf(a.ask.folder, a.err) :
        Send(j, [is |-> "collectDone", code |-> a.code, err |-> a.err,
                 stopped |-> a.dead, zip |-> z[1], previous |-> z[2]])
  BY DEF RunReturns
<1> DEFINE e == [is |-> "collectDone", code |-> a.code, err |-> a.err,
                 stopped |-> a.dead, zip |-> z[1], previous |-> z[2]]
           b == Holding(a, "sending", e)
<1>4. a.code \in 0..2 /\ a.err \in BOOLEAN /\ a.dead \in BOOLEAN /\ a.ask.folder \in Names \cup {NoOne}
  BY <1>1 DEF JobStates, Asks
<1>5. z[1] \in Names \cup {NoOne} /\ z[2] \in Names \cup {NoOne}
  BY <1>3, <1>4 DEF archiveOf
<1>6. e \in EventsSent
  BY <1>4, <1>5 DEF EventsSent
<1>7. e.is = "collectDone" /\ e.code = a.code /\ e.err = a.err /\ e.stopped = a.dead
  OBVIOUS
<1>8. job' = [job EXCEPT ![j] = b]
  BY <1>1, <1>3, SendIs
<1> HIDE DEF e
<1>9. /\ b \in JobStates /\ b.pc = "sending" /\ b.ev = e /\ b.kind = a.kind /\ b.dead = a.dead
      /\ b.ask = a.ask /\ b.took = a.took /\ b.err = a.err /\ b.code = a.code
  BY <1>1, <1>6, Holds
<1> HIDE DEF b
<1>10. Follows(a, b) /\ (Wrote(b) => Wrote(a))
  BY <1>1, <1>2, <1>7, <1>9 DEF Follows, Sound, Collects, WasStopped, Wrote
<1>11. Wrote(a) => Mine
  BY DEF IInv, Answers
<1> QED
  BY <1>2, <1>8, <1>10, <1>11, QuietKeeps

\* A panic of a job keeps the invariant.
LEMMA PanicsKeeps ==
  ASSUME IInv, NEW j \in Jobs, Panics(j)
  PROVE  IInv'
<1> DEFINE a == job[j]   e == [is |-> "panic"]   b == Holding(a, "sending", e)
<1>1. job \in [Jobs -> JobStates] /\ a \in JobStates /\ Sound(a)
  BY JobIs
<1>2. a.pc # "over" /\ Send(j, e) /\ died' = died + 1
      /\ UNCHANGED <<wizardVars, panics, worldVars, crashed, stale, stopped, named>>
  BY DEF Panics
<1>3. e \in EventsSent /\ e.is = "panic"
  BY DEF EventsSent
<1>4. job' = [job EXCEPT ![j] = b]
  BY <1>1, <1>2, SendIs
<1> HIDE DEF e
<1>5. Follows(a, b) /\ ~Wrote(b)
  BY <1>1, <1>2, <1>3, Says
<1> HIDE DEF b
<1>6. Typed /\ DiskKnown
  BY DEF IInv
<1>7. /\ UNCHANGED <<wizardVars, others, crashed, stale, stopped, named>>
      /\ panics' \in Nat /\ died' \in Nat /\ replaced' \subseteq Names /\ disk' = disk
      /\ disk' \in [Names -> Archives \cup {"free", "folder"}]
  BY <1>2, <1>6 DEF worldVars, Typed, DiskKnown
<1> QED
  BY <1>4, <1>5, <1>7, JobKeeps

\* A job that is let go once the loop has returned keeps the invariant.
LEMMA ReleaseKeeps ==
  ASSUME IInv, NEW j \in Jobs, Release(j)
  PROVE  IInv'
<1>1. job \in [Jobs -> JobStates] /\ Sound(job[j])
  BY JobIs
<1>2. job[j].pc = "sending" /\ job' = After(j) /\ quiet /\ UNCHANGED worldVars
  BY DEF Release, quiet
<1>3. PICK b : /\ After(j) = [job EXCEPT ![j] = b]
               /\ Follows(job[j], b) /\ ~Wrote(b)
  BY <1>1, <1>2, AfterIs
<1> QED
  BY <1>2, <1>3, QuietKeeps

\* A panic that waits for the loop, or is let go, changes nothing else.
LEMMA OtherPanicsKeeps == IInv /\ (OtherPanics \/ ReleasePanic) => IInv'
<1> SUFFICES ASSUME IInv, OtherPanics \/ ReleasePanic PROVE IInv'
  OBVIOUS
<1>1. Typed /\ DiskKnown /\ Screen /\ Answers
  BY DEF IInv
<1>2. UNCHANGED <<wizardVars, job, worldVars, crashed, stale, stopped, named>>
      /\ panics' \in Nat /\ died' \in Nat
  BY <1>1 DEF OtherPanics, ReleasePanic, Typed
<1>3. s' = s /\ code' = code /\ returned' = returned /\ last' = last /\ current' = current
      /\ ticking' = ticking /\ job' = job /\ disk' = disk /\ replaced' = replaced
      /\ others' = others /\ crashed' = crashed /\ stale' = stale /\ stopped' = stopped
      /\ named' = named
  BY <1>2 DEF wizardVars, worldVars
<1>4. Typed'
  BY <1>1, <1>2, <1>3 DEF Typed
<1>5. DiskKnown'
  BY <1>1, <1>3 DEF DiskKnown, OnlyOthers, At
<1>6. Screen'
  BY <1>1, <1>3 DEF Screen
<1>7. Answers'
  BY <1>1, <1>3 DEF Answers, Mine, ZeroMeansArchived
<1> QED
  BY <1>4, <1>5, <1>6, <1>7 DEF IInv

\* A run of another process keeps the invariant: no run of this one has its name yet.
LEMMA OtherRunKeeps ==
  ASSUME IInv, NEW name \in Names, OtherRun(name)
  PROVE  IInv'
<1>1. Typed /\ DiskKnown /\ Screen /\ Answers
  BY DEF IInv
<1>2. PICK j \in Jobs : At(j, "collect", "started")
  BY DEF OtherRun
<1>3. /\ Cardinality(others) < MaxOthers
      /\ disk' = [disk EXCEPT ![name] = "other"] /\ others' = others \cup {name}
      /\ UNCHANGED <<wizardVars, job, panics, replaced, died, crashed, stale, stopped, named>>
  BY DEF OtherRun
<1>4. s' = s /\ code' = code /\ returned' = returned /\ last' = last /\ current' = current
      /\ ticking' = ticking /\ job' = job /\ panics' = panics /\ died' = died
      /\ replaced' = replaced /\ crashed' = crashed /\ stale' = stale /\ stopped' = stopped
      /\ named' = named
  BY <1>3 DEF wizardVars
<1>5. s.step = "collecting" /\ \A i \in Jobs : i # j => ~Collects(job[i])
  BY <1>1, <1>2 DEF Screen, Alone, At, Collects
<1>6. Typed'
  BY <1>1, <1>4 DEF Typed
<1>7. DiskKnown'
  <2>1. disk' \in [Names -> Archives \cup {"free", "folder"}] /\ others' \subseteq Names
    BY <1>1, <1>3 DEF DiskKnown, Archives
  <2>2. IsFiniteSet(others') /\ Cardinality(others') <= MaxOthers
    <3>1. IsFiniteSet(others) /\ Cardinality(others) \in Nat /\ MaxOthers \in Nat
      BY <1>1, FS_CardinalityType, WizardAssumption DEF DiskKnown
    <3>2. IsFiniteSet(others \cup {name})
          /\ (Cardinality(others \cup {name}) = Cardinality(others)
              \/ Cardinality(others \cup {name}) = Cardinality(others) + 1)
      BY <3>1, FS_AddElement
    <3> QED
      BY <1>3, <3>1, <3>2
  <2>3. OnlyOthers'
    <3>1. OnlyOthers
      BY <1>1, <1>2 DEF DiskKnown
    <3> QED
      BY <1>1, <1>3, <3>1 DEF OnlyOthers, DiskKnown
  <2> QED
    BY <2>1, <2>2, <2>3 DEF DiskKnown
<1>8. Screen'
  BY <1>1, <1>4 DEF Screen
<1>9. Answers'
  <2>1. \A i \in Jobs : ~Wrote(job'[i])
    <3> SUFFICES ASSUME NEW i \in Jobs, Wrote(job[i]) PROVE FALSE
      BY <1>4
    <3>1. Sound(job[i])
      BY <1>1 DEF Typed
    <3>2. Collects(job[i])
      BY <3>1 DEF Wrote, Sound, Collects
    <3>3. i = j
      BY <1>5, <3>2
    <3> QED
      BY <1>2, <3>1, <3>3 DEF Wrote, Sound, At
  <2>2. ZeroMeansArchived'
    BY <1>4, <1>5 DEF ZeroMeansArchived
  <2>3. (crashed' => code' # 0) /\ \A i \in Jobs : WasStopped(job'[i]) => stopped' \/ crashed'
    BY <1>1, <1>4 DEF Answers
  <2> QED
    BY <2>1, <2>2, <2>3 DEF Answers
<1> QED
  BY <1>6, <1>7, <1>8, <1>9 DEF IInv

-----------------------------------------------------------------------------
(* Theorems *)

\* The invariant holds when the wizard opens.
LEMMA InitKeeps == Init => IInv
<1> SUFFICES ASSUME Init PROVE IInv
  OBVIOUS
<1>1. s = initialState /\ code = 0 /\ returned = FALSE /\ job = [j \in Jobs |-> Idle] /\ last = 0
      /\ current = 0 /\ ticking = FALSE /\ panics = 0
      /\ disk = [n \in Names |-> IF n \in Earlier THEN "earlier" ELSE "free"]
      /\ died = 0 /\ crashed = FALSE /\ stale = FALSE /\ stopped = FALSE
      /\ named = NoOne /\ replaced = {} /\ others = {}
  BY DEF Init
<1>2. Unseen \in Looked /\ NoVerdict \in Said /\ Whole \in Plans
  BY DEF Unseen, Looked, NoVerdict, Said, Plans
<1>3. s \in StateType /\ s.step = "connection" /\ s.keep = FALSE
  BY <1>1, <1>2 DEF initialState, StateType, Steps
<1>4. MaxJobs \in Nat
  BY WizardAssumption
<1>5. \A j \in Jobs : job[j] = Idle /\ Sound(job[j]) /\ ~Collects(job[j]) /\ ~Wrote(job[j])
                       /\ ~WasStopped(job[j]) /\ job[j].pc = "over"
  BY <1>1, IdleIs
<1>6. job \in [Jobs -> JobStates]
  BY <1>1, IdleIs DEF Sound
<1>7. Typed
  <2>1. StateOK(s)
    BY <1>3 DEF StateOK
  <2>2. last \in 0..MaxJobs /\ current \in 0..last /\ panics \in Nat /\ died \in Nat /\ code \in 0..2
    BY <1>1, <1>4
  <2>3. /\ returned \in BOOLEAN /\ ticking \in BOOLEAN /\ crashed \in BOOLEAN
        /\ stale \in BOOLEAN /\ stopped \in BOOLEAN
    BY <1>1
  <2>4. named \in Names \cup {NoOne} /\ replaced \subseteq Names
    BY <1>1
  <2> QED
    BY <1>5, <1>6, <2>1, <2>2, <2>3, <2>4 DEF Typed
<1>8. DiskKnown
  <2>1. disk \in [Names -> Archives \cup {"free", "folder"}]
    BY <1>1 DEF Archives
  <2>2. others \subseteq Names /\ IsFiniteSet(others) /\ Cardinality(others) <= MaxOthers
    BY <1>1, FS_EmptySet, WizardAssumption
  <2>3. OnlyOthers
    BY <1>1 DEF OnlyOthers
  <2> QED
    BY <2>1, <2>2, <2>3 DEF DiskKnown
<1>9. Screen
  BY <1>1, <1>3, <1>5 DEF Screen, Waits, Behind, Alone
<1>10. Answers
  BY <1>1, <1>3, <1>5 DEF Answers, ZeroMeansArchived
<1> QED
  BY <1>7, <1>8, <1>9, <1>10 DEF IInv

\* Every step keeps it.
LEMMA NextKeeps == IInv /\ [Next]_vars => IInv'
<1> SUFFICES ASSUME IInv, [Next]_vars PROVE IInv'
  OBVIOUS
<1>1. CASE UNCHANGED vars
  <2>1. s' = s /\ code' = code /\ returned' = returned /\ last' = last /\ current' = current
        /\ ticking' = ticking /\ job' = job /\ panics' = panics /\ disk' = disk
        /\ replaced' = replaced /\ others' = others /\ died' = died /\ crashed' = crashed
        /\ stale' = stale /\ stopped' = stopped /\ named' = named
    BY <1>1 DEF vars, wizardVars, worldVars
  <2> QED
    BY <2>1 DEF IInv, Typed, DiskKnown, OnlyOthers, At, Screen, Answers, Mine, ZeroMeansArchived
<1>2. CASE PressKey
  BY <1>2, PressKeyKeeps
<1>3. CASE DeliverPanic
  BY <1>3, DeliverPanicKeeps
<1>4. CASE OtherPanics \/ ReleasePanic
  BY <1>4, OtherPanicsKeeps
<1>5. ASSUME NEW j \in Jobs, Deliver(j) PROVE IInv'
  BY <1>5, DeliverKeeps
<1>6. ASSUME NEW j \in Jobs, Release(j) PROVE IInv'
  BY <1>6, ReleaseKeeps
<1>7. ASSUME NEW j \in Jobs, Work(j) PROVE IInv'
  BY <1>7, ConnectKeeps, VerifyKeeps, RunRefusesKeeps, RunPreparesKeeps, RunFinishesKeeps,
     RunArchivesKeeps, RunReturnsKeeps DEF Work
<1>8. ASSUME NEW j \in Jobs, Panics(j) PROVE IInv'
  BY <1>8, PanicsKeeps
<1>9. ASSUME NEW name \in Names, OtherRun(name) PROVE IInv'
  BY <1>9, OtherRunKeeps
<1> QED
  BY <1>1, <1>2, <1>3, <1>4, <1>5, <1>6, <1>7, <1>8, <1>9 DEF Next

\* The invariant says that nothing is cut short.
LEMMA InvariantCovers == IInv => NothingIsCutShort
<1> SUFFICES ASSUME IInv PROVE NothingIsCutShort
  OBVIOUS
<1>1. Typed /\ DiskKnown /\ Screen /\ Answers
  BY DEF IInv
<1>2. TypeOK
  BY <1>1 DEF TypeOK, Typed, DiskKnown, StateOK
<1>3. CollectionIsAwaited
  BY <1>1 DEF CollectionIsAwaited, Screen, Collects
<1>4. OneJobPerWait
  BY <1>1 DEF OneJobPerWait, Screen, Behind, Live
<1>5. CrashIsReported
  BY <1>1 DEF CrashIsReported, Answers
<1>6. ZeroMeansArchived
  BY <1>1 DEF Answers
<1> QED
  BY <1>2, <1>3, <1>4, <1>5, <1>6 DEF NothingIsCutShort

\* The invariant holds for ever.
LEMMA Invariant == Spec => []IInv
BY InitKeeps, NextKeeps, PTL DEF Spec

\* The wizard returns only when no collection runs, so that no archive is cut in the
\* middle; one job at most is alive behind a screen that waits, and none behind another;
\* a crash it was told of is never an exit of zero; and zero after a collection means
\* that an archive was made or that the operator stopped it. For any addresses, profiles,
\* jobs, panics and runs of others (tui/run.go, loop.go).
THEOREM NothingCutShort == Spec => []NothingIsCutShort
BY Invariant, InvariantCovers, PTL

-----------------------------------------------------------------------------
(* The run is the one that was asked for: the second invariant *)

\* The name that the run would replace, and what the banner is to say of it.
Root(v, p) == <<v.of, p, 1>>
Warned(v, p) == IF v.probed /\ Root(v, p) \in Earlier THEN Root(v, p) ELSE NoOne

\* The server that was probed is the one that is typed.
OfTyped(st) == st.verify.probed => st.server # NoOne /\ st.verify.of = InstanceOf[st.server]

\* The first name of the day that no earlier run holds, and where the run is to go.
FirstKept(name, inst, p) ==
  \E m \in Suffixes : /\ name = <<inst, p, m>> /\ name \notin Earlier
                      /\ \A k \in Suffixes : k < m => <<inst, p, k>> \in Earlier
FolderOf(st, folder) ==
  IF st.keep THEN FirstKept(folder, st.verify.of, st.profile) ELSE folder = Root(st.verify, st.profile)

\* What is on the screen is of what is typed, and the name that is replaced was agreed to.
AskedOne(st, agreed) ==
  /\ st.step \in {"verification", "options", "collecting"} => OfTyped(st)
  /\ st.step \in {"verification", "options"} => st.collision = Warned(st.verify, st.profile)
  /\ st.step = "collecting" =>
       /\ st.verify.probed
       /\ ~st.keep /\ Root(st.verify, st.profile) \in Earlier => agreed = Root(st.verify, st.profile)

\* A job reports the instance that it asked.
Tells(r) ==
  r.ev.is = "verified" =>
    /\ r.kind = "verify"
    /\ r.ev.result.probed => r.ask.addr # NoOne /\ r.ev.result.of = InstanceOf[r.ask.addr]

\* A job that still counts works from what is on the screen.
WorksFrom(r, st) ==
  /\ r.pc # "over" /\ (~r.dead \/ Collects(r)) =>
       r.ask.addr = st.server /\ r.ask.profile = st.profile /\ r.ask.keep = st.keep
  /\ Collects(r) => FolderOf(st, r.ask.folder)
  /\ r.pc = "sending" /\ ~r.dead /\ r.ev.is = "verified" =>
       r.ev.collision = Warned(r.ev.result, r.ask.profile)

\* What it wrote and offers is where it was asked to go, or another took that name.
Offers(r, taken, d) ==
  /\ Collects(r) /\ r.took # NoOne => r.took = r.ask.folder \/ r.ask.folder \in taken
  /\ Collects(r) /\ r.pc = "leaving" /\ ~r.err => r.took \in Names /\ d[r.took] = "mine"
  /\ r.ev.is = "collectDone" /\ r.ev.zip # NoOne => r.ev.zip \in taken \/ d[r.ev.zip] = "mine"

World ==
  /\ \A n \in Earlier : disk[n] # "free"
  /\ s.step \notin Late => replaced = {} /\ others = {}
  /\ s.zip # NoOne => s.step \in {"done", "quit"}
  /\ ReplacementIsAnswered
  /\ OfferedArchiveIsOurs

Faithful ==
  /\ World
  /\ \A j \in Jobs : Tells(job[j])
  /\ ~stale => /\ AskedOne(s, named)
               /\ \A j \in Jobs : WorksFrom(job[j], s) /\ Offers(job[j], others, disk)

\* What a key changes of what a run is asked for.
KeyFacts(st, next) ==
  /\ next.verify = st.verify /\ next.zip = st.zip
  /\ next.step # "connecting" => next.server = st.server
  /\ next.step = "connecting" => st.step = "connection"
  /\ next.profile = st.profile \/ (next.step = "options" /\ st.step = "options")
  /\ next.keep = st.keep \/ (next.step = "collecting" /\ st.step = "options")
  /\ next.step = "verification" => st.step = "options" /\ next.collision = st.collision
  /\ next.step = "options" =>
       \/ st.step = "options" /\ next.collision = collisionFor(st.verify, next.profile, st.keep)
       \/ /\ st.step = "verification" /\ next.collision = st.collision
          /\ next.profile = st.profile
  /\ next.step = "collecting" /\ st.step = "options" /\ st.collision = NoOne => next.keep = st.keep

\* Moving to another screen leaves what is asked for as it is.
LEMMA MoveFacts ==
  ASSUME NEW st \in StateType, NEW step \in Steps
  PROVE  LET next == [st EXCEPT !.step = step] IN
         /\ next.step = step /\ next.verify = st.verify /\ next.zip = st.zip
         /\ next.server = st.server /\ next.profile = st.profile /\ next.keep = st.keep
         /\ next.collision = st.collision
BY DEF StateType

\* What every key changes.
LEMMA KeyFactsAre ==
  ASSUME NEW st, StateOK(st), NEW next \in Key(st)
  PROVE  KeyFacts(st, next)
<1>1. st \in StateType /\ st.step \in Steps
  BY DEF StateOK, StateType
<1>2. ASSUME NEW step \in {"connection", "verifying", "quit"}, next = [st EXCEPT !.step = step]
      PROVE  KeyFacts(st, next)
  <2>1. step \in Steps
    BY DEF Steps
  <2> QED
    BY <1>1, <1>2, <2>1, MoveFacts DEF KeyFacts
<1>3. CASE st.step = "connection"
  <2>1. next \in keyConnection(st)
    BY <1>3 DEF Key
  <2>2. CASE \E a \in Addresses \cup {st.server} :
               next = [st EXCEPT !.step = "connecting", !.server = a]
    <3>1. PICK a \in Addresses \cup {st.server} :
                 next = [st EXCEPT !.step = "connecting", !.server = a]
      BY <2>2
    <3>2. next.step = "connecting" /\ next.verify = st.verify /\ next.zip = st.zip
          /\ next.profile = st.profile /\ next.keep = st.keep
      BY <1>1, <3>1 DEF StateType
    <3> QED
      BY <1>3, <3>2 DEF KeyFacts
  <2> QED
    BY <1>2, <2>1, <2>2 DEF keyConnection
<1>4. CASE st.step = "verification"
  <2>1. next \in keyVerification(st)
    BY <1>4 DEF Key
  <2>2. CASE next = [st EXCEPT !.step = "options"]
    BY <1>1, <1>4, <2>2, MoveFacts DEF KeyFacts, Steps
  <2> QED
    BY <1>2, <2>1, <2>2 DEF keyVerification
<1>5. CASE st.step = "options"
  <2>1. next \in keyOptions(st) /\ ~st.keep
    BY <1>5 DEF Key, StateOK, Late
  <2>2. CASE next = [st EXCEPT !.step = "verification"]
    BY <1>1, <1>5, <2>2, MoveFacts DEF KeyFacts, Steps
  <2>3. CASE next \in withProfile(st)
    <3>1. PICK p \in Plans :
            next = [st EXCEPT !.profile = p, !.collision = collisionFor(st.verify, p, st.keep),
                              !.keep = @ /\ st.collision = collisionFor(st.verify, p, st.keep)]
      BY <2>3 DEF withProfile
    <3> DEFINE c == collisionFor(st.verify, p, st.keep)
    <3>2. (st.keep /\ st.collision = c) = st.keep
      BY <1>1, <2>1 DEF StateType
    <3>3. next = [st EXCEPT !.profile = p, !.collision = c, !.keep = st.keep]
      BY <3>1, <3>2
    <3>4. collisionFor(st.verify, p, st.keep) = c
      OBVIOUS
    <3> HIDE DEF c
    <3>5. next.step = st.step /\ next.verify = st.verify /\ next.zip = st.zip /\ next.server = st.server
          /\ next.keep = st.keep /\ next.profile = p /\ next.collision = c
      BY <1>1, <3>3 DEF StateType
    <3> QED
      BY <1>5, <3>4, <3>5 DEF KeyFacts
  <2>4. CASE next \in start(st)
    <3>1. \/ next = [st EXCEPT !.step = "collecting"]
          \/ /\ st.collision # NoOne
             /\ \E k \in BOOLEAN :
                  next = [st EXCEPT !.step = "collecting", !.collision = NoOne, !.keep = k]
      BY <2>4 DEF start
    <3>2. CASE next = [st EXCEPT !.step = "collecting"]
      BY <1>1, <3>2, MoveFacts DEF KeyFacts, Steps
    <3>3. CASE /\ st.collision # NoOne
               /\ \E k \in BOOLEAN :
                    next = [st EXCEPT !.step = "collecting", !.collision = NoOne, !.keep = k]
      <4>1. PICK k \in BOOLEAN :
                    next = [st EXCEPT !.step = "collecting", !.collision = NoOne, !.keep = k]
        BY <3>3
      <4>2. next.step = "collecting" /\ next.verify = st.verify /\ next.zip = st.zip
            /\ next.server = st.server /\ next.profile = st.profile
        BY <1>1, <4>1 DEF StateType
      <4> QED
        BY <1>5, <3>3, <4>2 DEF KeyFacts
    <3> QED
      BY <3>1, <3>2, <3>3
  <2> QED
    BY <1>2, <2>1, <2>2, <2>3, <2>4 DEF keyOptions
<1>6. CASE st.step \in {"connecting", "verifying"}
  <2>1. next = [st EXCEPT !.step = "connection"]
    BY <1>6 DEF Key
  <2> QED
    BY <1>2, <2>1
<1>7. CASE st.step = "collecting"
  <2>1. next = [st EXCEPT !.stopping = TRUE]
    BY <1>7 DEF Key
  <2>2. next.step = st.step /\ next.verify = st.verify /\ next.zip = st.zip
        /\ next.server = st.server /\ next.profile = st.profile /\ next.keep = st.keep
    BY <1>1, <2>1 DEF StateType
  <2> QED
    BY <1>7, <2>2 DEF KeyFacts
<1>8. CASE st.step = "done"
  <2>1. next = [st EXCEPT !.step = "quit"]
    BY <1>8 DEF Key
  <2> QED
    BY <1>2, <2>1
<1>9. CASE st.step = "quit"
  BY <1>9 DEF Key
<1> QED
  BY <1>1, <1>3, <1>4, <1>5, <1>6, <1>7, <1>8, <1>9 DEF Steps

\* What an event changes of what a run is asked for: the answer of a probe, and nothing
\* of what was typed.
EventFacts(st, e, next) ==
  /\ next.server = st.server /\ next.profile = st.profile /\ next.keep = st.keep
  /\ next.zip = IF e.is = "collectDone" THEN e.zip ELSE st.zip
  /\ \/ next.verify = st.verify /\ next.collision = st.collision
        /\ (next.step \in {"verification", "options", "collecting"} => next.step = st.step)
     \/ /\ e.is = "verified" /\ st.step = "verifying" /\ next.step = "verification"
        /\ next.verify = e.result /\ next.collision = e.collision

\* What every event changes.
LEMMA EventFactsAre ==
  ASSUME NEW st, StateOK(st), st.step # "quit", NEW e \in EventsSent
  PROVE  EventFacts(st, e, Apply(e, st))
<1> DEFINE next == Apply(e, st)
<1> SUFFICES EventFacts(st, e, next)
  OBVIOUS
<1>1. st \in StateType /\ st.step \in Steps
  BY DEF StateOK, StateType
<1>2. CASE next = st /\ e.is # "collectDone"
  BY <1>2 DEF EventFacts
<1>3. CASE /\ \E step \in {"verifying", "connection"} : next = [st EXCEPT !.step = step]
           /\ e.is # "collectDone"
  <2>1. PICK step \in {"verifying", "connection"} : next = [st EXCEPT !.step = step]
    BY <1>3
  <2>2. step \in Steps
    BY <2>1 DEF Steps
  <2> HIDE DEF next
  <2> QED
    BY <1>1, <1>3, <2>1, <2>2, MoveFacts DEF EventFacts
<1>4. CASE e.is \in {"connected", "connectFailed"}
  <2>1. next = st \/ next \in {[st EXCEPT !.step = "verifying"], [st EXCEPT !.step = "connection"]}
    BY <1>4 DEF Apply, connectFailed
  <2> HIDE DEF next
  <2> QED
    BY <1>2, <1>3, <1>4, <2>1
<1>5. CASE e.is = "verified"
  <2>1. CASE st.step # "verifying"
    BY <1>2, <1>5, <2>1 DEF Apply
  <2>2. CASE st.step = "verifying" /\ ~e.reachable
    <3>1. next = [st EXCEPT !.step = "connection"]
      BY <1>5, <2>2 DEF Apply, connectFailed
    <3> HIDE DEF next
    <3> QED
      BY <1>3, <1>5, <3>1
  <2>3. CASE st.step = "verifying" /\ e.reachable
    <3>1. next = [st EXCEPT !.verify = e.result, !.collision = e.collision, !.step = "verification"]
      BY <1>5, <2>3 DEF Apply
    <3> HIDE DEF next
    <3>2. /\ next.server = st.server /\ next.profile = st.profile /\ next.keep = st.keep
          /\ next.zip = st.zip /\ next.step = "verification"
          /\ next.verify = e.result /\ next.collision = e.collision
      BY <1>1, <3>1 DEF StateType
    <3> QED
      BY <1>5, <2>3, <3>2 DEF EventFacts
  <2> QED
    BY <2>1, <2>2, <2>3
<1>6. CASE e.is = "finished"
  <2>1. next = [st EXCEPT !.verdict = e.verdict]
    BY <1>6 DEF Apply
  <2> HIDE DEF next
  <2>2. /\ next.server = st.server /\ next.profile = st.profile /\ next.keep = st.keep
        /\ next.zip = st.zip /\ next.step = st.step /\ next.verify = st.verify
        /\ next.collision = st.collision
    BY <1>1, <2>1 DEF StateType
  <2> QED
    BY <1>6, <2>2 DEF EventFacts
<1>7. CASE e.is = "collectDone"
  <2> DEFINE b == st.errors \/ e.err
  <2>1. next = [st EXCEPT !.step = "done", !.stopping = FALSE, !.zip = e.zip,
                          !.previous = e.previous, !.errors = b]
    BY <1>7 DEF Apply
  <2> HIDE DEF next, b
  <2>2. /\ next.server = st.server /\ next.profile = st.profile /\ next.keep = st.keep
        /\ next.zip = e.zip /\ next.step = "done" /\ next.verify = st.verify
        /\ next.collision = st.collision
    BY <1>1, <2>1 DEF StateType
  <2> QED
    BY <1>7, <2>2 DEF EventFacts
<1>8. CASE e.is = "panic"
  <2>1. CASE st.step = "collecting"
    <3>1. next = [st EXCEPT !.stopping = TRUE, !.errors = TRUE]
      BY <1>8, <2>1 DEF Apply
    <3> HIDE DEF next
    <3>2. /\ next.server = st.server /\ next.profile = st.profile /\ next.keep = st.keep
          /\ next.zip = st.zip /\ next.step = st.step /\ next.verify = st.verify
          /\ next.collision = st.collision
      BY <1>1, <3>1 DEF StateType
    <3> QED
      BY <1>8, <3>2 DEF EventFacts
  <2>2. CASE st.step = "done"
    <3>1. next = [st EXCEPT !.step = "done", !.stopping = FALSE, !.errors = TRUE]
      BY <1>8, <2>2 DEF Apply
    <3> HIDE DEF next
    <3>2. /\ next.server = st.server /\ next.profile = st.profile /\ next.keep = st.keep
          /\ next.zip = st.zip /\ next.step = "done" /\ next.verify = st.verify
          /\ next.collision = st.collision
      BY <1>1, <3>1 DEF StateType
    <3> QED
      BY <1>8, <3>2 DEF EventFacts
  <2>3. CASE st.step \notin {"collecting", "done"}
    <3>1. next = [st EXCEPT !.step = "connection"]
      BY <1>8, <2>3 DEF Apply
    <3> HIDE DEF next
    <3> QED
      BY <1>3, <1>8, <3>1
  <2> QED
    BY <2>1, <2>2, <2>3
<1>9. CASE e.is = "none"
  BY <1>2, <1>9 DEF Apply
<1> QED
  BY <1>4, <1>5, <1>6, <1>7, <1>8, <1>9, EventFields

\* Before the run, the banner names what an earlier run holds.
LEMMA WarnedIs ==
  ASSUME NEW v \in Looked, NEW p \in Plans, NEW keep, ~keep, others = {}, OnlyOthers,
         \A n \in Earlier : disk[n] # "free"
  PROVE  collisionFor(v, p, keep) = Warned(v, p)
<1>1. CASE v.probed
  <2> DEFINE n == <<v.of, p, 1>>
  <2>1. n \in Names
    BY <1>1, SuffixesAre DEF Looked, Names
  <2>2. RunFolderFor(v.of, p, keep) = n
    BY DEF RunFolderFor
  <2>3. disk[n] # "free" <=> n \in Earlier
    BY <2>1 DEF OnlyOthers
  <2>4. Root(v, p) = n
    BY DEF Root
  <2> HIDE DEF n
  <2> QED
    BY <1>1, <2>2, <2>3, <2>4 DEF collisionFor, Warned
<1>2. CASE ~v.probed
  BY <1>2 DEF collisionFor, Warned
<1> QED
  BY <1>1, <1>2

\* A key leads from what was asked for to what was asked for.
LEMMA KeyAsks ==
  ASSUME IInv, World, AskedOne(s, named), NEW next \in Key(s)
  PROVE  AskedOne(next, IF next.step = "collecting" /\ s.step = "options" THEN s.collision ELSE named)
<1> DEFINE agreed == IF next.step = "collecting" /\ s.step = "options" THEN s.collision ELSE named
<1>1. StateOK(s) /\ s \in StateType /\ s.verify \in Looked
  BY DEF IInv, Typed, StateOK, StateType
<1>2. KeyFacts(s, next) /\ Pressed(s, next)
  BY <1>1, KeyIs, KeyFactsAre
<1>3. next.step \in {"verification", "options", "collecting"} =>
        s.step \in {"verification", "options", "collecting"} /\ OfTyped(next)
  <2>1. next.step \in {"verification", "options", "collecting"} =>
          s.step \in {"verification", "options", "collecting"}
    BY <1>2 DEF KeyFacts, Pressed
  <2> QED
    BY <1>2, <2>1 DEF KeyFacts, AskedOne, OfTyped
<1>4. next.step \in {"verification", "options"} => next.collision = Warned(next.verify, next.profile)
  <2>1. CASE next.step = "options" /\ s.step = "options"
    <3>1. ~s.keep /\ next.profile \in Plans /\ s.step \notin Late
      BY <1>1, <1>2, <2>1 DEF StateOK, Late, Pressed, StateType
    <3>2. others = {} /\ OnlyOthers /\ \A n \in Earlier : disk[n] # "free"
      BY <3>1 DEF World, IInv, DiskKnown
    <3>3. collisionFor(s.verify, next.profile, s.keep) = Warned(s.verify, next.profile)
      BY <1>1, <3>1, <3>2, WarnedIs
    <3> QED
      BY <1>2, <2>1, <3>3 DEF KeyFacts
  <2>2. CASE next.step = "options" /\ s.step # "options"
    BY <1>2, <2>2 DEF KeyFacts, AskedOne
  <2>3. CASE next.step = "verification"
    BY <1>2, <2>3 DEF KeyFacts, AskedOne
  <2> QED
    BY <2>1, <2>2, <2>3
<1>5. next.step = "collecting" =>
        /\ next.verify.probed
        /\ ~next.keep /\ Root(next.verify, next.profile) \in Earlier =>
             agreed = Root(next.verify, next.profile)
  <2> SUFFICES ASSUME next.step = "collecting"
               PROVE  /\ next.verify.probed
                      /\ ~next.keep /\ Root(next.verify, next.profile) \in Earlier =>
                           agreed = Root(next.verify, next.profile)
    OBVIOUS
  <2>1. next.verify = s.verify /\ next.profile = s.profile
    BY <1>2 DEF KeyFacts
  <2>2. CASE s.step = "collecting"
    <3>1. next.keep = s.keep
      BY <1>2, <2>2 DEF KeyFacts
    <3> QED
      BY <2>1, <2>2, <3>1 DEF AskedOne
  <2>3. CASE s.step # "collecting"
    <3>1. s.step = "options" /\ next.verify.probed
      BY <1>2, <2>3 DEF Pressed
    <3>2. s.collision = Warned(s.verify, s.profile)
      BY <3>1 DEF AskedOne
    <3> QED
      BY <2>1, <3>1, <3>2 DEF Warned
  <2> QED
    BY <2>2, <2>3
<1> HIDE DEF agreed
<1>6. AskedOne(next, agreed)
  BY <1>3, <1>4, <1>5 DEF AskedOne
<1> QED
  BY <1>6 DEF agreed

\* An event leads from what was asked for to what was asked for, if an answer is that
\* of the address on the screen.
LEMMA EventAsks ==
  ASSUME IInv, AskedOne(s, named), NEW e, NEW next, EventFacts(s, e, next),
         e.is = "verified" /\ s.step = "verifying" /\ next.step = "verification" =>
           /\ e.result.probed => s.server # NoOne /\ e.result.of = InstanceOf[s.server]
           /\ e.collision = Warned(e.result, s.profile)
  PROVE  AskedOne(next, named)
<1>1. CASE next.verify = s.verify /\ next.collision = s.collision
           /\ (next.step \in {"verification", "options", "collecting"} => next.step = s.step)
  BY <1>1 DEF EventFacts, AskedOne, OfTyped
<1>2. CASE e.is = "verified" /\ s.step = "verifying" /\ next.step = "verification"
           /\ next.verify = e.result /\ next.collision = e.collision
  BY <1>2 DEF EventFacts, AskedOne, OfTyped
<1> QED
  BY <1>1, <1>2 DEF EventFacts

\* The run is to go where the operator was told.
LEMMA FolderIs ==
  ASSUME IInv, World, NEW next, StateOK(next), next.step = "collecting", s.step = "options",
         next.verify.probed
  PROVE  FolderOf(next, asked(next).folder)
<1>1. next \in StateType /\ next.verify \in Looked /\ next.profile \in Plans /\ next.keep \in BOOLEAN
  BY DEF StateOK, StateType
<1>2. next.verify.of \in Instances
  BY <1>1 DEF Looked
<1>3. OnlyOthers /\ others = {} /\ IsFiniteSet(others) /\ Cardinality(others) <= MaxOthers
      /\ \A n \in Earlier : disk[n] # "free"
  BY DEF IInv, DiskKnown, World, Late
<1> DEFINE i == next.verify.of   p == next.profile   f == asked(next).folder
<1>4. f = RunFolderFor(i, p, next.keep)
  BY DEF asked, runFolderFor
<1>5. /\ f \in Names
      /\ ~next.keep => f = <<i, p, 1>>
      /\ next.keep => \E m \in Suffixes :
           /\ f = <<i, p, m>> /\ disk[<<i, p, m>>] = "free"
           /\ \A k \in Suffixes : k < m => disk[<<i, p, k>>] # "free"
  <2> HIDE DEF i, p, f
  <2>1. i \in Instances /\ p \in Plans
    BY <1>1, <1>2 DEF i, p
  <2> QED
    BY <1>3, <1>4, <2>1, FreeName, ZenonT(60)
<1>6. \A k \in Suffixes : <<i, p, k>> \in Names
  BY <1>1, <1>2 DEF Names
<1>7. \A k \in Suffixes : disk[<<i, p, k>>] # "free" <=> <<i, p, k>> \in Earlier
  BY <1>3, <1>6 DEF OnlyOthers
<1> HIDE DEF f
<1>8. next.keep => FirstKept(f, i, p)
  BY <1>5, <1>7 DEF FirstKept
<1>9. ~next.keep => f = Root(next.verify, p)
  BY <1>5 DEF Root
<1>10. FolderOf(next, f)
  BY <1>8, <1>9 DEF FolderOf
<1> QED
  BY <1>10 DEF f

\* A job that was just started works from the screen.
LEMMA FreshWorks ==
  ASSUME IInv, World, NEW next, StateOK(next), Enters(s, next),
         next.step = "collecting" => s.step = "options" /\ next.verify.probed,
         NEW taken, NEW d
  PROVE  LET b == startWork(next) IN Tells(b) /\ WorksFrom(b, next) /\ Offers(b, taken, d)
<1> DEFINE b == startWork(next)   k == kindOf(next.step)   q == asked(next)
<1>1. b = [kind |-> k, pc |-> "started", dead |-> FALSE, ask |-> q, ev |-> NoEvent,
           took |-> NoOne, err |-> FALSE, code |-> 0]
  <2>1. b = [Idle EXCEPT !.kind = k, !.pc = "started", !.ask = q]
    BY DEF startWork
  <2> HIDE DEF b, k, q
  <2> QED
    BY <2>1 DEF Idle
<1>2. b.kind = k /\ b.pc = "started" /\ b.ask = q /\ b.took = NoOne /\ b.ev.is = "none"
  <2> HIDE DEF b, k, q
  <2> QED
    BY <1>1 DEF NoEvent
<1>3. k = "collect" => next.step = "collecting"
  BY DEF kindOf, Enters, Waits
<1>4. k = "collect" => FolderOf(next, q.folder)
  <2>1. k = "collect" => s.step = "options" /\ next.verify.probed
    BY <1>3
  <2> QED
    BY <1>3, <2>1, FolderIs
<1>5. q.addr = next.server /\ q.profile = next.profile /\ q.keep = next.keep
  BY DEF asked
<1> HIDE DEF b, k, q
<1>6. Tells(b) /\ WorksFrom(b, next) /\ Offers(b, taken, d)
  BY <1>2, <1>4, <1>5 DEF Tells, WorksFrom, Offers, Collects
<1> QED
  BY <1>6 DEF b

\* What a cancelled job, or one as it was, keeps.
LEMMA StaysFaithful ==
  ASSUME NEW a, Sound(a), NEW b, b = a \/ b = [a EXCEPT !.dead = TRUE], NEW st, NEW next,
         b.pc # "over" /\ (~b.dead \/ Collects(b)) =>
           next.server = st.server /\ next.profile = st.profile /\ next.keep = st.keep,
         Collects(b) => next.verify = st.verify /\ next.profile = st.profile /\ next.keep = st.keep,
         NEW taken, NEW d
  PROVE  /\ Tells(a) => Tells(b)
         /\ WorksFrom(a, st) => WorksFrom(b, next)
         /\ Offers(a, taken, d) => Offers(b, taken, d)
<1>1. /\ b.pc = a.pc /\ b.kind = a.kind /\ b.ev = a.ev /\ b.ask = a.ask /\ b.took = a.took
      /\ b.err = a.err /\ (a.dead => b.dead)
  BY DEF Sound, JobStates
<1>2. Tells(a) => Tells(b)
  BY <1>1 DEF Tells
<1>3. Offers(a, taken, d) => Offers(b, taken, d)
  BY <1>1 DEF Offers, Collects
<1>4. WorksFrom(a, st) => WorksFrom(b, next)
  <2>1. Collects(b) /\ FolderOf(st, a.ask.folder) => FolderOf(next, b.ask.folder)
    BY <1>1 DEF FolderOf
  <2> QED
    BY <1>1, <2>1 DEF WorksFrom, Collects
<1> QED
  BY <1>2, <1>3, <1>4

\* A turn to what is allowed and asked for keeps the run the one that was asked for.
LEMMA TurnFaithful ==
  ASSUME IInv, Faithful, NEW jobs \in [Jobs -> JobStates],
         \A j \in Jobs : Follows(job[j], jobs[j]) /\ Tells(jobs[j]),
         NEW next, NEW status, Allowed(jobs, next, status), Turn(next, status, jobs),
         UNCHANGED worldVars, stale => stale',
         ~stale' => /\ AskedOne(next, named')
                    /\ \A j \in Jobs : WorksFrom(jobs[j], s) /\ Offers(jobs[j], others, disk)
                    /\ next.zip # NoOne => next.zip \in others \/ disk[next.zip] = "mine",
         next.step = s.step /\ Waits(s.step) => /\ next.server = s.server /\ next.profile = s.profile
                                                /\ next.keep = s.keep /\ next.verify = s.verify,
         next.zip # NoOne => next.step \in {"done", "quit"},
         named' = named \/ s.step \notin Late
  PROVE  Faithful'
<1>1. Typed /\ DiskKnown /\ Screen /\ World
  BY DEF IInv, Faithful
<1>2. \A j \in Jobs : Sound(jobs[j])
  BY DEF Follows
<1>3. Behind(jobs, current, s.step)
  <2>1. Behind(job, current, s.step)
    BY <1>1 DEF Screen
  <2> QED
    BY <2>1 DEF Behind, Follows
<1>4. /\ StateOK(next) /\ (ticking <=> Waits(s.step))
      /\ next.step = "collecting" /\ s.step # "collecting" => s.step = "options" /\ next.verify.probed
      /\ s.step \in Late => next.step \in Late
  BY <1>1 DEF Screen, Allowed
<1>5. /\ Behind(job', current', next.step)
      /\ \A j \in Jobs : Becomes(jobs[j], job'[j], j = last', next)
      /\ next.step # s.step =>
           \A j \in Jobs : \/ job'[j].pc = "over" \/ job'[j].dead
                           \/ Enters(s, next) /\ job'[j] = startWork(next)
  BY <1>1, <1>2, <1>3, <1>4, TurnIs
<1>6. s' = next
  BY DEF Turn
<1>7. disk' = disk /\ replaced' = replaced /\ others' = others
  BY DEF worldVars
<1>8. World'
  <2>1. (\A n \in Earlier : disk[n] # "free") /\ (s.step \notin Late => replaced = {} /\ others = {})
    BY <1>1 DEF World
  <2>2. next.step \notin Late => replaced = {} /\ others = {}
    BY <1>4, <2>1
  <2>3. ReplacementIsAnswered'
    <3> SUFFICES ASSUME ~stale' PROVE replaced \subseteq {named'} \cup others
      BY <1>7 DEF ReplacementIsAnswered
    <3>1. replaced \subseteq {named} \cup others
      BY <1>1 DEF World, ReplacementIsAnswered
    <3> QED
      BY <2>1, <3>1
  <2>4. OfferedArchiveIsOurs'
    BY <1>6, <1>7 DEF OfferedArchiveIsOurs
  <2> QED
    BY <1>6, <1>7, <2>1, <2>2, <2>3, <2>4 DEF World
<1>9. ASSUME NEW j \in Jobs
      PROVE  /\ Tells(job'[j])
             /\ ~stale' => WorksFrom(job'[j], next) /\ Offers(job'[j], others, disk)
  <2> DEFINE a == jobs[j]   b == job'[j]
  <2> SUFFICES /\ Tells(b)
               /\ ~stale' => WorksFrom(b, next) /\ Offers(b, others, disk)
    OBVIOUS
  <2>1. Sound(a) /\ Tells(a) /\ Follows(job[j], a) /\ Becomes(a, b, j = last', next)
    BY <1>2, <1>5
  <2>2. ~stale' => WorksFrom(a, s) /\ Offers(a, others, disk)
    OBVIOUS
  <2>3. CASE Enters(s, next) /\ b = startWork(next)
    <3>1. next.step = "collecting" => s.step = "options" /\ next.verify.probed
      BY <1>4, <2>3 DEF Enters
    <3> HIDE DEF b
    <3> QED
      BY <1>1, <1>4, <2>3, <3>1, FreshWorks
  <2>4. CASE ~(Enters(s, next) /\ b = startWork(next))
    <3>1. b = a \/ b = [a EXCEPT !.dead = TRUE]
      BY <2>1, <2>4 DEF Becomes
    <3>2. Collects(b) => Collects(a)
      BY <2>1, <3>1, Cancelled, ZenonT(60) DEF Collects
    <3>3. Collects(a) => next.step = "collecting" /\ s.step = "collecting"
      <4>1. Collects(a) => Collects(job[j])
        BY <2>1 DEF Follows
      <4> QED
        BY <1>1, <4>1 DEF Screen, Allowed
    <3>4. b.pc # "over" /\ ~b.dead => next.step = s.step /\ Waits(s.step)
      BY <1>5, <2>4 DEF Behind
    <3>5. b.pc # "over" /\ (~b.dead \/ Collects(b)) =>
            next.server = s.server /\ next.profile = s.profile /\ next.keep = s.keep
      BY <3>2, <3>3, <3>4 DEF Waits
    <3>6. Collects(b) => next.verify = s.verify /\ next.profile = s.profile /\ next.keep = s.keep
      BY <3>2, <3>3 DEF Waits
    <3> HIDE DEF a, b
    <3> QED
      BY <2>1, <2>2, <3>1, <3>5, <3>6, StaysFaithful
  <2> QED
    BY <2>3, <2>4
<1> QED
  BY <1>6, <1>7, <1>8, <1>9 DEF Faithful

\* What the loop leaves of a job says nothing that it did not say.
LEMMA AfterSays ==
  ASSUME job \in [Jobs -> JobStates], NEW j \in Jobs, Sound(job[j]), NEW st, NEW taken, NEW d
  PROVE  LET b == After(j)[j] IN
         /\ Tells(b)
         /\ WorksFrom(job[j], st) => WorksFrom(b, st)
         /\ Offers(job[j], taken, d) => Offers(b, taken, d)
<1> DEFINE a == job[j]   b == After(j)[j]
           crash == [is |-> "collectDone", code |-> 2, err |-> TRUE, stopped |-> FALSE,
                     zip |-> NoOne, previous |-> NoOne]
<1>0. a \in JobStates /\ NoEvent \in EventsSent /\ NoEvent.is = "none"
  BY IdleIs DEF NoEvent
<1>1. CASE a.ev.is = "finished"
  <2>1. b = [a EXCEPT !.pc = "archiving", !.ev = NoEvent]
    BY <1>1 DEF After
  <2> HIDE DEF b
  <2>2. /\ b.pc = "archiving" /\ b.ev = NoEvent /\ b.kind = a.kind /\ b.dead = a.dead
        /\ b.ask = a.ask /\ b.took = a.took /\ b.err = a.err
    BY <1>0, <2>1 DEF JobStates
  <2>3. a.pc # "over"
    BY <1>1 DEF Sound
  <2>4. Tells(b)
    BY <1>0, <2>2 DEF Tells
  <2>5. WorksFrom(a, st) => WorksFrom(b, st)
    BY <2>2, <2>3 DEF WorksFrom, Collects
  <2>6. Offers(a, taken, d) => Offers(b, taken, d)
    BY <1>0, <2>2 DEF Offers, Collects
  <2> QED
    BY <2>4, <2>5, <2>6 DEF b
<1>2. CASE a.ev.is = "panic" /\ a.kind = "collect"
  <2>1. b = [a EXCEPT !.ev = crash]
    BY <1>2 DEF After
  <2>2. crash.is = "collectDone" /\ crash.zip = NoOne
    OBVIOUS
  <2>3. crash \in EventsSent
    BY DEF EventsSent
  <2> HIDE DEF b, crash
  <2>4. /\ b.pc = a.pc /\ b.ev = crash /\ b.kind = a.kind /\ b.dead = a.dead
        /\ b.ask = a.ask /\ b.took = a.took /\ b.err = a.err
    BY <1>0, <2>1, <2>3 DEF JobStates
  <2>5. Tells(b)
    BY <2>2, <2>4 DEF Tells
  <2>6. WorksFrom(a, st) => WorksFrom(b, st)
    BY <2>2, <2>4 DEF WorksFrom, Collects
  <2>7. Offers(a, taken, d) => Offers(b, taken, d)
    BY <2>2, <2>4 DEF Offers, Collects
  <2> QED
    BY <2>5, <2>6, <2>7 DEF b
<1>3. CASE a.ev.is # "finished" /\ ~(a.ev.is = "panic" /\ a.kind = "collect")
  <2>1. b = Idle
    BY <1>3 DEF After
  <2>2. Idle.pc = "over" /\ ~Collects(Idle) /\ Idle.ev.is = "none"
    BY IdleIs DEF Idle, NoEvent
  <2> HIDE DEF b
  <2>3. Tells(b) /\ WorksFrom(b, st) /\ Offers(b, taken, d)
    BY <2>1, <2>2 DEF Tells, WorksFrom, Offers
  <2> QED
    BY <2>3 DEF b
<1> QED
  BY <1>1, <1>2, <1>3

\* A keystroke keeps it.
LEMMA PressKeyFaithful == IInv /\ Faithful /\ PressKey => Faithful'
<1> SUFFICES ASSUME IInv, Faithful, PressKey PROVE Faithful'
  OBVIOUS
<1>1. PICK next \in Key(s) :
        /\ Turn(next, code, job)
        /\ stopped' = (stopped \/ next.stopping)
        /\ named' = IF next.step = "collecting" /\ s.step = "options" THEN s.collision ELSE named
  BY DEF PressKey
<1>2. UNCHANGED <<panics, worldVars, died, crashed, stale>>
  BY DEF PressKey
<1>3. Typed /\ World
  BY DEF IInv, Faithful
<1>4. StateOK(s) /\ job \in [Jobs -> JobStates]
  BY <1>3 DEF Typed, StateOK
<1>5. Pressed(s, next) /\ KeyFacts(s, next) /\ s.step # "quit"
  BY <1>4, KeyIs, KeyFactsAre
<1>6. \A j \in Jobs : Follows(job[j], job[j]) /\ Tells(job[j])
  BY <1>3 DEF Typed, Follows, Faithful
<1>7. Allowed(job, next, code)
  BY <1>1, <1>2, PressAllowed
<1>8. stale' = stale /\ UNCHANGED worldVars
  BY <1>2
<1>9. next.step = s.step /\ Waits(s.step) =>
        next.server = s.server /\ next.profile = s.profile /\ next.keep = s.keep
        /\ next.verify = s.verify
  BY <1>5 DEF KeyFacts, Waits
<1>10. next.zip = s.zip /\ (s.zip # NoOne => next.step \in {"done", "quit"})
  BY <1>3, <1>5 DEF KeyFacts, World, Pressed
<1>11. named' = named \/ s.step \notin Late
  BY <1>1 DEF Late
<1>12. ~stale => /\ AskedOne(next, named')
                 /\ \A j \in Jobs : WorksFrom(job[j], s) /\ Offers(job[j], others, disk)
                 /\ s.zip # NoOne => s.zip \in others \/ disk[s.zip] = "mine"
  <2> SUFFICES ASSUME ~stale
               PROVE  /\ AskedOne(next, named')
                      /\ \A j \in Jobs : WorksFrom(job[j], s) /\ Offers(job[j], others, disk)
                      /\ s.zip # NoOne => s.zip \in others \/ disk[s.zip] = "mine"
    OBVIOUS
  <2>1. AskedOne(s, named) /\ \A j \in Jobs : WorksFrom(job[j], s) /\ Offers(job[j], others, disk)
    BY DEF Faithful
  <2>2. AskedOne(next, named')
    BY <1>1, <1>3, <2>1, KeyAsks
  <2> QED
    BY <1>3, <2>1, <2>2 DEF World, OfferedArchiveIsOurs
<1> QED
  BY <1>1, <1>4, <1>6, <1>7, <1>8, <1>9, <1>10, <1>11, <1>12, TurnFaithful

\* The event of a job keeps it: an answer that changes the screen is that of the address
\* on the screen, or [stale] says that it is not.
LEMMA DeliverFaithful ==
  ASSUME IInv, Faithful, NEW j \in Jobs, Deliver(j)
  PROVE  Faithful'
<1> DEFINE e == job[j].ev   next == Apply(e, s)   status == remembered(e, s)   jobs == After(j)
<1>1. /\ Turn(next, status, jobs)
      /\ stale' = (stale \/ (next # s /\ job[j].dead
                             /\ e.is \in {"connected", "connectFailed", "verified"}))
      /\ worldVars' = worldVars /\ named' = named
  BY DEF Deliver
<1>2. /\ jobs \in [Jobs -> JobStates] /\ Allowed(jobs, next, status)
      /\ \A i \in Jobs : Follows(job[i], jobs[i]) /\ (i # j => jobs[i] = job[i])
      /\ e \in EventsSent /\ Sound(job[j]) /\ job[j].pc = "sending"
  BY DeliverIs
<1>3. Typed /\ Screen /\ World /\ job \in [Jobs -> JobStates]
  BY DEF IInv, Faithful, Typed
<1>4. ~returned /\ s.step # "quit" /\ StateOK(s)
  BY <1>1, <1>3 DEF Turn, Screen, Typed
<1>5. EventFacts(s, e, next) /\ Heard(s, e, next)
  BY <1>2, <1>4, EventFactsAre, ApplyIs
<1>6. \A i \in Jobs : Tells(jobs[i])
  BY <1>2, <1>3, AfterSays DEF Faithful
<1>7. next.step = s.step /\ Waits(s.step) =>
        next.server = s.server /\ next.profile = s.profile /\ next.keep = s.keep
        /\ next.verify = s.verify
  BY <1>5 DEF EventFacts
<1>8. next.zip # NoOne => next.step \in {"done", "quit"}
  <2>1. CASE e.is = "collectDone"
    BY <1>5, <2>1 DEF Heard
  <2>2. CASE e.is # "collectDone"
    <3>1. next.zip = s.zip
      BY <1>5, <2>2 DEF EventFacts
    <3>2. s.zip # NoOne => s.step = "done"
      BY <1>3, <1>4 DEF World
    <3> QED
      BY <1>5, <3>1, <3>2 DEF Heard
  <2> QED
    BY <2>1, <2>2
<1>9. ASSUME ~stale'
      PROVE  /\ AskedOne(next, named)
             /\ \A i \in Jobs : WorksFrom(jobs[i], s) /\ Offers(jobs[i], others, disk)
             /\ next.zip # NoOne => next.zip \in others \/ disk[next.zip] = "mine"
  <2>1. ~stale /\ (next # s /\ e.is = "verified" => ~job[j].dead)
    BY <1>1, <1>9
  <2>2. AskedOne(s, named) /\ \A i \in Jobs : WorksFrom(job[i], s) /\ Offers(job[i], others, disk)
    BY <2>1 DEF Faithful
  <2>3. \A i \in Jobs : WorksFrom(jobs[i], s) /\ Offers(jobs[i], others, disk)
    BY <1>2, <1>3, <2>2, AfterSays
  <2>4. e.is = "verified" /\ s.step = "verifying" /\ next.step = "verification" =>
          /\ e.result.probed => s.server # NoOne /\ e.result.of = InstanceOf[s.server]
          /\ e.collision = Warned(e.result, s.profile)
    <3> HIDE DEF next
    <3> SUFFICES ASSUME e.is = "verified", s.step = "verifying", next.step = "verification"
                 PROVE  /\ e.result.probed => s.server # NoOne /\ e.result.of = InstanceOf[s.server]
                        /\ e.collision = Warned(e.result, s.profile)
      OBVIOUS
    <3>1. ~job[j].dead
      BY <2>1
    <3>2. Tells(job[j]) /\ WorksFrom(job[j], s)
      BY <2>2 DEF Faithful
    <3>3. job[j].ask.addr = s.server /\ job[j].ask.profile = s.profile
          /\ e.collision = Warned(e.result, job[j].ask.profile)
      BY <1>2, <3>1, <3>2 DEF WorksFrom
    <3> QED
      BY <3>2, <3>3 DEF Tells
  <2>5. AskedOne(next, named)
    <3> HIDE DEF next, e
    <3> QED
      BY <1>5, <2>2, <2>4, EventAsks
  <2>6. next.zip # NoOne => next.zip \in others \/ disk[next.zip] = "mine"
    <3>1. CASE e.is = "collectDone"
      BY <1>5, <2>2, <3>1 DEF EventFacts, Offers
    <3>2. CASE e.is # "collectDone"
      <4>1. next.zip = s.zip
        BY <1>5, <3>2 DEF EventFacts
      <4> QED
        BY <1>3, <2>1, <4>1 DEF World, OfferedArchiveIsOurs
    <3> QED
      BY <3>1, <3>2
  <2> QED
    BY <2>3, <2>5, <2>6
<1>10. (stale => stale') /\ UNCHANGED worldVars /\ (named' = named \/ s.step \notin Late)
  BY <1>1
<1>11. \A i \in Jobs : Follows(job[i], jobs[i]) /\ Tells(jobs[i])
  BY <1>2, <1>6
<1>12. ~stale' => /\ AskedOne(next, named')
                  /\ \A i \in Jobs : WorksFrom(jobs[i], s) /\ Offers(jobs[i], others, disk)
                  /\ next.zip # NoOne => next.zip \in others \/ disk[next.zip] = "mine"
  BY <1>1, <1>9
<1> HIDE DEF next, status, jobs
<1> QED
  BY <1>1, <1>2, <1>7, <1>8, <1>10, <1>11, <1>12, TurnFaithful

\* The panic of another goroutine keeps it.
LEMMA DeliverPanicFaithful == IInv /\ Faithful /\ DeliverPanic => Faithful'
<1> SUFFICES ASSUME IInv, Faithful, DeliverPanic PROVE Faithful'
  OBVIOUS
<1> DEFINE e == [is |-> "panic"]   next == Apply(e, s)   status == remembered(e, s)
<1>1. e \in EventsSent /\ e.is = "panic" /\ job \in [Jobs -> JobStates]
      /\ (\A i \in Jobs : Follows(job[i], job[i]))
      /\ Turn(next, status, job) /\ Allowed(job, next, status)
  BY PanicIs
<1>2. UNCHANGED worldVars /\ named' = named /\ stale' = stale
  BY DEF DeliverPanic
<1>3. Typed /\ Screen /\ World
  BY DEF IInv, Faithful
<1>4. s.step # "quit" /\ StateOK(s)
  BY <1>1, <1>3 DEF Turn, Screen, Typed
<1> HIDE DEF e
<1>5. EventFacts(s, e, next) /\ Heard(s, e, next)
  BY <1>1, <1>4, EventFactsAre, ApplyIs
<1> HIDE DEF next, status
<1>6. next.step = s.step /\ Waits(s.step) =>
        next.server = s.server /\ next.profile = s.profile /\ next.keep = s.keep
        /\ next.verify = s.verify
  BY <1>1, <1>5 DEF EventFacts
<1>7. next.zip = s.zip
  BY <1>1, <1>5 DEF EventFacts
<1>8. s.zip # NoOne => next.step \in {"done", "quit"}
  BY <1>3, <1>4, <1>5 DEF World, Heard
<1>9. \A i \in Jobs : Follows(job[i], job[i]) /\ Tells(job[i])
  BY <1>1 DEF Faithful
<1>10. ~stale => /\ AskedOne(next, named)
                 /\ \A i \in Jobs : WorksFrom(job[i], s) /\ Offers(job[i], others, disk)
                 /\ s.zip # NoOne => s.zip \in others \/ disk[s.zip] = "mine"
  <2> SUFFICES ASSUME ~stale
               PROVE  /\ AskedOne(next, named)
                      /\ \A i \in Jobs : WorksFrom(job[i], s) /\ Offers(job[i], others, disk)
                      /\ s.zip # NoOne => s.zip \in others \/ disk[s.zip] = "mine"
    OBVIOUS
  <2>1. AskedOne(s, named) /\ \A i \in Jobs : WorksFrom(job[i], s) /\ Offers(job[i], others, disk)
    BY DEF Faithful
  <2>2. AskedOne(next, named)
    BY <1>1, <1>5, <2>1, EventAsks
  <2> QED
    BY <1>3, <2>1, <2>2 DEF World, OfferedArchiveIsOurs
<1> QED
  BY <1>1, <1>2, <1>6, <1>7, <1>8, <1>9, <1>10, TurnFaithful

\* A step of one job keeps it, if what it says and writes is what was asked for.
LEMMA JobFaithful ==
  ASSUME IInv, Faithful, NEW j \in Jobs, NEW b, job' = [job EXCEPT ![j] = b],
         s' = s, stale' = stale, named' = named, others' = others,
         Tells(b), ~stale => WorksFrom(b, s) /\ Offers(b, others, disk'),
         disk' = disk \/ Collects(job[j]), \A n \in Earlier : disk'[n] # "free",
         \/ replaced' = replaced
         \/ Collects(job[j]) /\ (~stale => replaced' \subseteq {named} \cup others)
  PROVE  Faithful'
<1>1. Typed /\ Screen /\ World
  BY DEF IInv, Faithful
<1>2. job'[j] = b /\ \A i \in Jobs : i # j => job'[i] = job[i]
  BY <1>1 DEF Typed
<1>3. Collects(job[j]) => s.step = "collecting" /\ \A i \in Jobs : i # j => ~Collects(job[i])
  BY <1>1 DEF Screen, Alone
<1>4. World'
  <2>1. (s.step \notin Late => replaced' = {} /\ others = {})
    BY <1>1, <1>3 DEF World, Late
  <2>2. s.zip # NoOne => s.step \in {"done", "quit"} /\ disk' = disk
    BY <1>1, <1>3 DEF World
  <2>3. ReplacementIsAnswered'
    BY <1>1 DEF World, ReplacementIsAnswered
  <2>4. OfferedArchiveIsOurs'
    BY <1>1, <2>2 DEF World, OfferedArchiveIsOurs
  <2> QED
    BY <2>1, <2>2, <2>3, <2>4 DEF World
<1>5. \A i \in Jobs : Tells(job'[i])
  BY <1>2 DEF Faithful
<1>6. ASSUME ~stale, NEW i \in Jobs
      PROVE  WorksFrom(job'[i], s) /\ Offers(job'[i], others, disk')
  <2>1. CASE i = j
    BY <1>2, <1>6, <2>1
  <2>2. CASE i # j
    <3>1. WorksFrom(job[i], s) /\ Offers(job[i], others, disk) /\ Sound(job[i])
      BY <1>1, <1>6 DEF Faithful, Typed
    <3>2. CASE disk' = disk
      BY <1>2, <2>2, <3>1, <3>2
    <3>3. CASE Collects(job[j])
      <4>1. ~Collects(job[i]) /\ job[i].ev.is # "collectDone"
        BY <1>3, <2>2, <3>1, <3>3 DEF Sound, Collects
      <4>2. Offers(job[i], others, disk')
        BY <4>1 DEF Offers
      <4> QED
        BY <1>2, <2>2, <3>1, <4>2
    <3> QED
      BY <3>2, <3>3
  <2> QED
    BY <2>1, <2>2
<1>7. ~stale => AskedOne(s, named)
  BY DEF Faithful
<1> QED
  BY <1>4, <1>5, <1>6, <1>7 DEF Faithful

\* A step of a job that leaves the disk alone.
LEMMA QuietFaithful ==
  ASSUME IInv, Faithful, NEW j \in Jobs, NEW b, job' = [job EXCEPT ![j] = b],
         s' = s, stale' = stale, named' = named, UNCHANGED worldVars,
         Tells(b), ~stale => WorksFrom(b, s) /\ Offers(b, others, disk)
  PROVE  Faithful'
<1>1. others' = others /\ disk' = disk /\ replaced' = replaced
  BY DEF worldVars
<1>2. \A n \in Earlier : disk'[n] # "free"
  BY <1>1 DEF Faithful, World
<1> QED
  BY <1>1, <1>2, JobFaithful

\* A job that ends says and offers nothing.
LEMMA IdleFaithful ==
  ASSUME NEW st, NEW taken, NEW d
  PROVE  Tells(Idle) /\ WorksFrom(Idle, st) /\ Offers(Idle, taken, d)
<1>1. Idle.pc = "over" /\ ~Collects(Idle) /\ Idle.ev.is = "none"
  BY IdleIs DEF Idle, NoEvent
<1> QED
  BY <1>1 DEF Tells, WorksFrom, Offers

\* A job that goes on without an answer or an archive to tell of.
LEMMA GoesOn ==
  ASSUME NEW a, a.pc # "over", NEW b, b.kind = a.kind, b.dead = a.dead, b.ask = a.ask,
         b.took = a.took, b.pc = "leaving" => b.err, b.ev.is \notin {"verified", "collectDone"},
         NEW st, NEW taken, NEW d, NEW d2
  PROVE  /\ Tells(b)
         /\ WorksFrom(a, st) => WorksFrom(b, st)
         /\ Offers(a, taken, d) => Offers(b, taken, d2)
<1>1. Tells(b)
  BY DEF Tells
<1>2. WorksFrom(a, st) => WorksFrom(b, st)
  BY DEF WorksFrom, Collects
<1>3. Offers(a, taken, d) => Offers(b, taken, d2)
  BY DEF Offers, Collects
<1> QED
  BY <1>1, <1>2, <1>3

\* What is known of a job.
LEMMA JobSays ==
  ASSUME IInv, Faithful, NEW j \in Jobs
  PROVE  /\ job \in [Jobs -> JobStates] /\ job[j] \in JobStates /\ Sound(job[j]) /\ Tells(job[j])
         /\ ~stale => WorksFrom(job[j], s) /\ Offers(job[j], others, disk)
BY JobIs DEF Faithful

\* The attempts to connect and the panics keep it.
LEMMA SendFaithful ==
  ASSUME IInv, Faithful, NEW j \in Jobs,
         ConnectRefuses(j) \/ ConnectFails(j) \/ Connects(j) \/ Saves(j) \/ Panics(j)
  PROVE  Faithful'
<1> DEFINE a == job[j]
<1>1. /\ job \in [Jobs -> JobStates] /\ a \in JobStates /\ Sound(a) /\ Tells(a)
      /\ ~stale => WorksFrom(a, s) /\ Offers(a, others, disk)
  BY JobSays
<1>2. a.pc # "over" /\ s' = s /\ stale' = stale /\ named' = named /\ UNCHANGED worldVars
  BY DEF ConnectRefuses, ConnectFails, Connects, Saves, Panics, At, quiet, wizardVars
<1>3. CASE job' = [job EXCEPT ![j] = Idle]
  BY <1>2, <1>3, IdleFaithful, QuietFaithful
<1>4. CASE \E e \in {[is |-> "connected"], [is |-> "connectFailed"], [is |-> "panic"]} : Send(j, e)
  <2>1. PICK e \in {[is |-> "connected"], [is |-> "connectFailed"], [is |-> "panic"]} : Send(j, e)
    BY <1>4
  <2>2. e \in EventsSent /\ e.is \notin {"verified", "collectDone"}
    BY <2>1 DEF EventsSent
  <2> DEFINE b == Holding(a, "sending", e)
  <2>3. /\ b.pc = "sending" /\ b.ev = e /\ b.kind = a.kind /\ b.dead = a.dead /\ b.ask = a.ask
        /\ b.took = a.took
    BY <1>1, <2>2, Holds
  <2>4. job' = [job EXCEPT ![j] = b]
    BY <1>1, <2>1, SendIs
  <2> HIDE DEF b
  <2>5. Tells(b) /\ (~stale => WorksFrom(b, s) /\ Offers(b, others, disk))
    BY <1>1, <1>2, <2>2, <2>3, GoesOn
  <2> QED
    BY <1>2, <2>4, <2>5, QuietFaithful
<1>5. CASE job' = [job EXCEPT ![j].pc = "saving"] /\ a.kind = "connect" /\ a.pc = "started"
  <2> DEFINE b == [a EXCEPT !.pc = "saving"]
  <2>1. job' = [job EXCEPT ![j] = b]
    BY <1>5
  <2>2. /\ b.pc = "saving" /\ b.ev = a.ev /\ b.kind = a.kind /\ b.dead = a.dead /\ b.ask = a.ask
        /\ b.took = a.took
    BY <1>1 DEF JobStates
  <2>3. a.ev.is \notin {"verified", "collectDone"}
    BY <1>1, <1>5 DEF Sound, Tells
  <2> HIDE DEF b
  <2>4. Tells(b) /\ (~stale => WorksFrom(b, s) /\ Offers(b, others, disk))
    BY <1>1, <1>2, <2>2, <2>3, GoesOn
  <2> QED
    BY <1>2, <2>1, <2>4, QuietFaithful
<1> QED
  BY <1>3, <1>4, <1>5 DEF ConnectRefuses, ConnectFails, Connects, Saves, Panics, At

\* The verification reports the instance that it asked.
LEMMA VerifiesFaithful ==
  ASSUME IInv, Faithful, NEW j \in Jobs, Verifies(j)
  PROVE  Faithful'
<1> DEFINE a == job[j]
<1>1. /\ job \in [Jobs -> JobStates] /\ a \in JobStates /\ Sound(a) /\ Tells(a)
      /\ ~stale => WorksFrom(a, s) /\ Offers(a, others, disk)
  BY JobSays
<1>2. a.pc # "over" /\ a.kind = "verify" /\ s' = s /\ stale' = stale /\ named' = named
      /\ UNCHANGED worldVars
  BY DEF Verifies, At, quiet, wizardVars
<1>3. CASE job' = [job EXCEPT ![j] = Idle]
  BY <1>2, <1>3, IdleFaithful, QuietFaithful
<1>4. CASE \E r \in Results(a.ask.addr) :
             job' = [job EXCEPT ![j].pc = "looking",
                                ![j].ev = [is |-> "verified", reachable |-> r.reachable,
                                           result |-> r.result, collision |-> NoOne]]
  <2>1. PICK r \in Results(a.ask.addr) :
             job' = [job EXCEPT ![j].pc = "looking",
                                ![j].ev = [is |-> "verified", reachable |-> r.reachable,
                                           result |-> r.result, collision |-> NoOne]]
    BY <1>4
  <2>2. r.result.probed => a.ask.addr # NoOne /\ r.result.of = InstanceOf[a.ask.addr]
    <3>1. \/ r.result = Unseen
          \/ a.ask.addr # NoOne /\ r.result.of = InstanceOf[a.ask.addr]
      BY <2>1 DEF Results
    <3> QED
      BY <3>1 DEF Unseen
  <2> DEFINE e == [is |-> "verified", reachable |-> r.reachable, result |-> r.result,
                   collision |-> NoOne]
             b == [a EXCEPT !.pc = "looking", !.ev = e]
  <2>3. job' = [job EXCEPT ![j] = b]
    BY <1>1, <2>1
  <2>4. e.is = "verified" /\ e.result = r.result
    OBVIOUS
  <2> HIDE DEF e
  <2>5. /\ b.pc = "looking" /\ b.ev = e /\ b.kind = a.kind /\ b.dead = a.dead /\ b.ask = a.ask
    BY <1>1 DEF JobStates
  <2> HIDE DEF b
  <2>6. Tells(b)
    BY <1>2, <2>2, <2>4, <2>5 DEF Tells
  <2>7. ~stale => WorksFrom(b, s) /\ Offers(b, others, disk)
    BY <1>1, <1>2, <2>4, <2>5 DEF WorksFrom, Offers, Collects
  <2> QED
    BY <1>2, <2>3, <2>6, <2>7, QuietFaithful
<1> QED
  BY <1>3, <1>4 DEF Verifies

\* The banner that it prepares warns of what an earlier run holds.
LEMMA LooksFaithful ==
  ASSUME IInv, Faithful, NEW j \in Jobs, Looks(j)
  PROVE  Faithful'
<1> DEFINE a == job[j]   v == a.ev.result
           c == IF v.probed THEN collisionFor(v, a.ask.profile, a.ask.keep) ELSE NoOne
           e == [a.ev EXCEPT !.collision = c]
           b == [a EXCEPT !.pc = "sending", !.ev = e]
<1>1. /\ job \in [Jobs -> JobStates] /\ a \in JobStates /\ Sound(a) /\ Tells(a)
      /\ ~stale => WorksFrom(a, s) /\ Offers(a, others, disk)
  BY JobSays
<1>2. a.pc = "looking" /\ a.kind = "verify" /\ s' = s /\ stale' = stale /\ named' = named
      /\ UNCHANGED worldVars
      /\ job' = [job EXCEPT ![j].pc = "sending", ![j].ev.collision = c]
  BY DEF Looks, At, quiet, wizardVars
<1>3. a.ev.is = "verified" /\ ~a.ask.keep /\ a.ev \in EventsSent /\ a.ask \in Asks
  BY <1>1, <1>2 DEF Sound, JobStates
<1>4. v \in Looked /\ a.ask.profile \in Plans
  BY <1>3, EventFields DEF Asks
<1>5. ~a.dead => c = Warned(v, a.ask.profile)
  <2> SUFFICES ASSUME ~a.dead PROVE c = Warned(v, a.ask.profile)
    OBVIOUS
  <2>1. s.step = "verifying"
    <3>1. Waits(s.step) /\ a.kind = kindOf(s.step)
      BY <1>2 DEF IInv, Screen, Behind
    <3> QED
      BY <1>2, <3>1 DEF kindOf, Waits
  <2>2. others = {} /\ OnlyOthers /\ \A n \in Earlier : disk[n] # "free"
    BY <2>1 DEF Faithful, World, IInv, DiskKnown, Late
  <2>3. collisionFor(v, a.ask.profile, a.ask.keep) = Warned(v, a.ask.profile)
    BY <1>3, <1>4, <2>2, WarnedIs
  <2> QED
    BY <2>3 DEF Warned
<1>6. job' = [job EXCEPT ![j] = b]
  BY <1>1, <1>2
<1> HIDE DEF c
<1>7. e.is = "verified" /\ e.result = v /\ e.collision = c
  BY <1>3 DEF EventsSent
<1> HIDE DEF e, v
<1>8. /\ b.pc = "sending" /\ b.ev = e /\ b.kind = a.kind /\ b.dead = a.dead /\ b.ask = a.ask
  BY <1>1 DEF JobStates
<1> HIDE DEF b
<1>9. Tells(b)
  BY <1>1, <1>3, <1>7, <1>8 DEF Tells, v
<1>10. ~stale => WorksFrom(b, s) /\ Offers(b, others, disk)
  BY <1>1, <1>2, <1>5, <1>7, <1>8 DEF WorksFrom, Offers, Collects
<1> QED
  BY <1>2, <1>6, <1>9, <1>10, QuietFaithful

\* A run that refuses to go on, or tells its verdict, keeps it.
LEMMA RunTellsFaithful ==
  ASSUME IInv, Faithful, NEW j \in Jobs, RunRefuses(j) \/ RunFinishes(j)
  PROVE  Faithful'
<1> DEFINE a == job[j]
<1>1. /\ job \in [Jobs -> JobStates] /\ a \in JobStates /\ Sound(a) /\ Tells(a)
      /\ ~stale => WorksFrom(a, s) /\ Offers(a, others, disk)
  BY JobSays
<1>2. a.pc \in {"started", "collecting"} /\ a.kind = "collect" /\ s' = s /\ stale' = stale
      /\ named' = named /\ UNCHANGED worldVars
  BY DEF RunRefuses, RunFinishes, At, quiet, wizardVars
<1>3. CASE RunRefuses(j)
  <2> DEFINE b == [a EXCEPT !.pc = "leaving", !.err = TRUE, !.code = 1]
  <2>1. job' = [job EXCEPT ![j] = b]
    BY <1>1, <1>3 DEF RunRefuses
  <2>2. /\ b.pc = "leaving" /\ b.err = TRUE /\ b.ev = a.ev /\ b.kind = a.kind /\ b.dead = a.dead
        /\ b.ask = a.ask /\ b.took = a.took
    BY <1>1 DEF JobStates
  <2>3. a.ev.is \notin {"verified", "collectDone"}
    BY <1>1, <1>2 DEF Sound, Tells
  <2> HIDE DEF b
  <2>4. Tells(b) /\ (~stale => WorksFrom(b, s) /\ Offers(b, others, disk))
    BY <1>1, <1>2, <2>2, <2>3, GoesOn
  <2> QED
    BY <1>2, <2>1, <2>4, QuietFaithful
<1>4. CASE RunFinishes(j)
  <2>1. PICK v \in Verdicts(j), err \in BOOLEAN :
          job' = [job EXCEPT ![j].pc = "sending", ![j].err = err,
                             ![j].code = IF v.some /\ ~v.bound /\ ~v.failed /\ ~err THEN 0 ELSE 2,
                             ![j].ev = [is |-> "finished", verdict |-> v]]
    BY <1>4 DEF RunFinishes
  <2> DEFINE c == IF v.some /\ ~v.bound /\ ~v.failed /\ ~err THEN 0 ELSE 2
             e == [is |-> "finished", verdict |-> v]
             b == [a EXCEPT !.pc = "sending", !.err = err, !.code = c, !.ev = e]
  <2>2. job' = [job EXCEPT ![j] = b]
    BY <1>1, <2>1
  <2>3. e.is = "finished"
    OBVIOUS
  <2> HIDE DEF c, e
  <2>4. /\ b.pc = "sending" /\ b.ev = e /\ b.kind = a.kind /\ b.dead = a.dead
        /\ b.ask = a.ask /\ b.took = a.took
    BY <1>1 DEF JobStates
  <2> HIDE DEF b
  <2>5. Tells(b) /\ (~stale => WorksFrom(b, s) /\ Offers(b, others, disk))
    BY <1>1, <1>2, <2>3, <2>4, GoesOn
  <2> QED
    BY <1>2, <2>2, <2>5, QuietFaithful
<1> QED
  BY <1>3, <1>4

\* The name that a run takes is the one it was asked to take, unless another took that.
LEMMA NameTaken ==
  ASSUME IInv, World, NEW q, FolderOf(s, q.folder), q.profile = s.profile, q.keep = s.keep,
         s.profile \in Plans, s.keep \in BOOLEAN, NEW inst \in Instances, s.verify.of = inst, OnlyOthers
  PROVE  LET name == RunFolderFor(inst, q.profile, q.keep) IN
         /\ name \in Names
         /\ name = q.folder \/ q.folder \in others
         /\ s.keep => disk[name] = "free"
         /\ ~s.keep => name = Root(s.verify, s.profile)
<1> DEFINE p == s.profile   name == RunFolderFor(inst, q.profile, q.keep)
<1>1. others \subseteq Names /\ IsFiniteSet(others) /\ Cardinality(others) <= MaxOthers
      /\ \A n \in Earlier : disk[n] # "free"
  BY DEF IInv, DiskKnown, World
<1>2. p \in Plans /\ name = RunFolderFor(inst, p, s.keep)
  OBVIOUS
<1> HIDE DEF name, p
<1>3. /\ name \in Names
      /\ ~s.keep => name = <<inst, p, 1>>
      /\ s.keep => \E m \in Suffixes :
           /\ name = <<inst, p, m>> /\ disk[<<inst, p, m>>] = "free"
           /\ \A k \in Suffixes : k < m => disk[<<inst, p, k>>] # "free"
  BY <1>1, <1>2, FreeName, ZenonT(60)
<1> USE DEF p
<1>4. CASE ~s.keep
  <2>1. q.folder = Root(s.verify, p)
    BY <1>4 DEF FolderOf
  <2> QED
    BY <1>3, <1>4, <2>1 DEF Root, name
<1>5. CASE s.keep
  <2>1. PICK m \in Suffixes :
           /\ name = <<inst, p, m>> /\ disk[<<inst, p, m>>] = "free"
           /\ \A k \in Suffixes : k < m => disk[<<inst, p, k>>] # "free"
    BY <1>3, <1>5
  <2>2. PICK m0 \in Suffixes :
           /\ q.folder = <<inst, p, m0>> /\ q.folder \notin Earlier
           /\ \A k \in Suffixes : k < m0 => <<inst, p, k>> \in Earlier
    BY <1>5 DEF FolderOf, FirstKept
  <2>3. CASE q.folder \notin others
    <3>1. q.folder \in Names
      BY <2>2 DEF Names
    <3>2. disk[<<inst, p, m0>>] = "free"
      BY <2>2, <2>3, <3>1 DEF OnlyOthers
    <3>3. m \in Nat /\ m0 \in Nat
      BY SuffixesAre
    <3>4. ~(m0 < m)
      BY <2>1, <3>2
    <3>5. ~(m < m0)
      BY <1>1, <2>1, <2>2
    <3>6. m = m0
      BY <3>3, <3>4, <3>5
    <3> QED
      BY <1>3, <1>5, <2>1, <2>2, <3>6 DEF name
  <2> QED
    BY <1>3, <1>5, <2>1, <2>3 DEF name
<1> QED
  BY <1>4, <1>5

\* A run that takes its name moves aside what the operator agreed to replace.
LEMMA RunPreparesFaithful ==
  ASSUME IInv, Faithful, NEW j \in Jobs, RunPrepares(j)
  PROVE  Faithful'
<1> DEFINE a == job[j]
           name == RunFolderFor(InstanceOf[a.ask.addr], a.ask.profile, a.ask.keep)
           b == [a EXCEPT !.pc = "collecting", !.took = name]
<1>1. /\ job \in [Jobs -> JobStates] /\ a \in JobStates /\ Sound(a) /\ Tells(a)
      /\ ~stale => WorksFrom(a, s) /\ Offers(a, others, disk)
  BY JobSays
<1>2. /\ At(j, "collect", "started") /\ a.ask.addr # NoOne
      /\ job' = [job EXCEPT ![j].pc = "collecting", ![j].took = name]
      /\ disk' = [disk EXCEPT ![name] = "folder"]
      /\ replaced' = IF disk[name] = "free" THEN replaced ELSE replaced \cup {name}
      /\ s' = s /\ stale' = stale /\ named' = named /\ others' = others
  BY DEF RunPrepares, quiet, wizardVars
<1>3. Typed /\ DiskKnown /\ OnlyOthers /\ World /\ s \in StateType
  BY <1>2 DEF IInv, DiskKnown, Faithful, Typed, StateOK
<1>4. InstanceOf[a.ask.addr] \in Instances /\ a.ask.profile \in Plans
  BY <1>1, <1>2, WizardAssumption DEF JobStates, Asks
<1>5. name \in Names
  BY <1>3, <1>4, FreeName DEF DiskKnown
<1>6. a.kind = "collect" /\ a.pc = "started" /\ s.step = "collecting"
  BY <1>2 DEF At, IInv, Screen, Collects
<1>7. ASSUME ~stale
      PROVE  /\ name = a.ask.folder \/ a.ask.folder \in others
             /\ s.keep => disk[name] = "free"
             /\ ~s.keep => name = Root(s.verify, s.profile)
  <2>1. a.ask.addr = s.server /\ a.ask.profile = s.profile /\ a.ask.keep = s.keep
        /\ FolderOf(s, a.ask.folder)
    BY <1>1, <1>6, <1>7 DEF WorksFrom, Collects
  <2>2. AskedOne(s, named)
    BY <1>7 DEF Faithful
  <2>3. s.verify.of = InstanceOf[a.ask.addr]
    BY <1>6, <2>1, <2>2 DEF AskedOne, OfTyped
  <2>4. s.profile \in Plans /\ s.keep \in BOOLEAN
    BY <1>3 DEF StateType
  <2> QED
    BY <1>3, <1>4, <2>1, <2>3, <2>4, NameTaken
<1>8. job' = [job EXCEPT ![j] = b]
  BY <1>1, <1>2
<1> HIDE DEF name
<1>9. /\ b.pc = "collecting" /\ b.kind = a.kind /\ b.dead = a.dead /\ b.ev = a.ev
      /\ b.ask = a.ask /\ b.took = name
  BY <1>1 DEF JobStates
<1>10. a.ev.is \notin {"verified", "collectDone"}
  BY <1>1, <1>6 DEF Sound, Tells
<1> HIDE DEF b
<1>11. Tells(b)
  BY <1>9, <1>10 DEF Tells
<1>12. ~stale => WorksFrom(b, s) /\ Offers(b, others, disk')
  <2>1. ~stale => WorksFrom(b, s)
    BY <1>1, <1>6, <1>9 DEF WorksFrom, Collects
  <2>2. ~stale => Offers(b, others, disk')
    BY <1>7, <1>9, <1>10 DEF Offers
  <2> QED
    BY <2>1, <2>2
<1>13. \A n \in Earlier : disk'[n] # "free"
  <2>1. Earlier \subseteq Names /\ disk \in [Names -> Archives \cup {"free", "folder"}]
        /\ \A n \in Earlier : disk[n] # "free"
    BY <1>3, WizardAssumption DEF DiskKnown, World
  <2> QED
    BY <1>2, <2>1
<1>14. ~stale => replaced' \subseteq {named} \cup others
  <2> SUFFICES ASSUME ~stale PROVE replaced' \subseteq {named} \cup others
    OBVIOUS
  <2>1. replaced \subseteq {named} \cup others
    BY <1>3 DEF World, ReplacementIsAnswered
  <2>2. CASE disk[name] = "free"
    BY <1>2, <2>1, <2>2
  <2>3. CASE disk[name] # "free"
    <3>1. ~s.keep /\ name = Root(s.verify, s.profile) /\ name \in Earlier \cup others
      BY <1>3, <1>5, <1>7, <2>3 DEF OnlyOthers
    <3>2. name \in Earlier => named = name
      BY <1>6, <3>1 DEF Faithful, AskedOne
    <3> QED
      BY <1>2, <2>1, <2>3, <3>1, <3>2
  <2> QED
    BY <2>2, <2>3
<1> QED
  BY <1>2, <1>6, <1>8, <1>11, <1>12, <1>13, <1>14, JobFaithful DEF Collects

\* The archive is written where the run's name is.
LEMMA RunArchivesFaithful ==
  ASSUME IInv, Faithful, NEW j \in Jobs, RunArchives(j)
  PROVE  Faithful'
<1> DEFINE a == job[j]
<1>1. /\ job \in [Jobs -> JobStates] /\ a \in JobStates /\ Sound(a) /\ Tells(a)
      /\ ~stale => WorksFrom(a, s) /\ Offers(a, others, disk)
  BY JobSays
<1>2. a.pc = "archiving" /\ a.kind = "collect" /\ s' = s /\ stale' = stale /\ named' = named
      /\ replaced' = replaced /\ others' = others
  BY DEF RunArchives, At, quiet, wizardVars
<1>3. a.ev.is \notin {"verified", "collectDone"}
  BY <1>1, <1>2 DEF Sound, Tells
<1>4. disk \in [Names -> Archives \cup {"free", "folder"}] /\ Earlier \subseteq Names
      /\ \A n \in Earlier : disk[n] # "free"
  BY WizardAssumption DEF IInv, DiskKnown, Faithful, World
<1>5. CASE /\ ~a.err /\ disk' = [disk EXCEPT ![a.took] = "mine"]
           /\ job' = [job EXCEPT ![j].pc = "leaving"]
  <2> DEFINE b == [a EXCEPT !.pc = "leaving"]
  <2>1. job' = [job EXCEPT ![j] = b]
    BY <1>5
  <2>2. /\ b.pc = "leaving" /\ b.kind = a.kind /\ b.dead = a.dead /\ b.ev = a.ev
        /\ b.ask = a.ask /\ b.took = a.took
    BY <1>1 DEF JobStates
  <2>3. a.took \in Names
    BY <1>1, <1>2, <1>5 DEF Sound, JobStates
  <2>4. disk'[a.took] = "mine" /\ \A n \in Earlier : disk'[n] # "free"
    BY <1>4, <1>5, <2>3
  <2> HIDE DEF b
  <2>5. Tells(b)
    BY <1>3, <2>2 DEF Tells
  <2>6. ~stale => WorksFrom(b, s)
    BY <1>1, <1>2, <2>2 DEF WorksFrom, Collects
  <2>7. ~stale => Offers(b, others, disk')
    BY <1>1, <1>2, <1>3, <2>2, <2>3, <2>4 DEF Offers, Collects
  <2> QED
    BY <1>2, <2>1, <2>4, <2>5, <2>6, <2>7, JobFaithful DEF Collects
<1>6. CASE /\ job' = [job EXCEPT ![j].pc = "leaving", ![j].err = TRUE,
                                 ![j].code = IF a.err THEN a.code ELSE 2]
           /\ disk' = disk
  <2> DEFINE c == IF a.err THEN a.code ELSE 2
             b == [a EXCEPT !.pc = "leaving", !.err = TRUE, !.code = c]
  <2>1. job' = [job EXCEPT ![j] = b]
    BY <1>1, <1>6
  <2> HIDE DEF c
  <2>2. /\ b.pc = "leaving" /\ b.err = TRUE /\ b.ev = a.ev /\ b.kind = a.kind /\ b.dead = a.dead
        /\ b.ask = a.ask /\ b.took = a.took
    BY <1>1 DEF JobStates
  <2> HIDE DEF b
  <2>3. Tells(b) /\ (~stale => WorksFrom(b, s) /\ Offers(b, others, disk))
    BY <1>1, <1>2, <1>3, <2>2, GoesOn
  <2>4. UNCHANGED worldVars
    BY <1>2, <1>6 DEF worldVars
  <2> QED
    BY <1>2, <2>1, <2>3, <2>4, QuietFaithful
<1> QED
  BY <1>5, <1>6 DEF RunArchives

\* The archive that is offered is the one that was written, or is of another process.
LEMMA RunReturnsFaithful ==
  ASSUME IInv, Faithful, NEW j \in Jobs, RunReturns(j)
  PROVE  Faithful'
<1> DEFINE a == job[j]
<1>1. /\ job \in [Jobs -> JobStates] /\ a \in JobStates /\ Sound(a) /\ Tells(a)
      /\ ~stale => WorksFrom(a, s) /\ Offers(a, others, disk)
  BY JobSays
<1>2. a.pc = "leaving" /\ a.kind = "collect" /\ s' = s /\ stale' = stale /\ named' = named
      /\ UNCHANGED worldVars
  BY DEF RunReturns, At, quiet, wizardVars
<1>3. PICK z \in archiveOf(a.ask.folder, a.err) :
        Send(j, [is |-> "collectDone", code |-> a.code, err |-> a.err,
                 stopped |-> a.dead, zip |-> z[1], previous |-> z[2]])
  BY DEF RunReturns
<1> DEFINE e == [is |-> "collectDone", code |-> a.code, err |-> a.err,
                 stopped |-> a.dead, zip |-> z[1], previous |-> z[2]]
           b == [a EXCEPT !.pc = "sending", !.ev = e]
<1>4. z[1] = NoOne \/ (z[1] = a.ask.folder /\ ~a.err)
  BY <1>3 DEF archiveOf
<1>5. job' = [job EXCEPT ![j] = b]
  BY <1>1, <1>3 DEF Send
<1>6. e.is = "collectDone" /\ e.zip = z[1]
  OBVIOUS
<1> HIDE DEF e
<1>7. /\ b.pc = "sending" /\ b.ev = e /\ b.kind = a.kind /\ b.dead = a.dead
      /\ b.ask = a.ask /\ b.took = a.took
  BY <1>1 DEF JobStates
<1> HIDE DEF b
<1>8. Tells(b)
  BY <1>6, <1>7 DEF Tells
<1>9. ~stale => WorksFrom(b, s)
  BY <1>1, <1>2, <1>6, <1>7 DEF WorksFrom, Collects
<1>10. ASSUME ~stale PROVE Offers(b, others, disk)
  <2>1. Offers(a, others, disk)
    BY <1>1, <1>10
  <2>2. z[1] # NoOne => z[1] \in others \/ disk[z[1]] = "mine"
    <3> SUFFICES ASSUME z[1] # NoOne PROVE z[1] \in others \/ disk[z[1]] = "mine"
      OBVIOUS
    <3>1. z[1] = a.ask.folder /\ ~a.err
      BY <1>4
    <3>2. a.took \in Names /\ disk[a.took] = "mine"
      BY <1>2, <2>1, <3>1 DEF Offers, Collects
    <3>3. a.took = a.ask.folder \/ a.ask.folder \in others
      BY <1>2, <2>1, <3>2, WizardAssumption DEF Offers, Collects
    <3> QED
      BY <3>1, <3>2, <3>3
  <2> QED
    BY <1>6, <1>7, <2>1, <2>2 DEF Offers, Collects
<1> QED
  BY <1>2, <1>5, <1>8, <1>9, <1>10, QuietFaithful

\* A job that is let go keeps it.
LEMMA ReleaseFaithful ==
  ASSUME IInv, Faithful, NEW j \in Jobs, Release(j)
  PROVE  Faithful'
<1>1. /\ job \in [Jobs -> JobStates] /\ Sound(job[j])
      /\ ~stale => WorksFrom(job[j], s) /\ Offers(job[j], others, disk)
  BY JobSays
<1>2. /\ job[j].pc = "sending" /\ job' = After(j) /\ s' = s /\ stale' = stale /\ named' = named
      /\ UNCHANGED worldVars
  BY DEF Release, wizardVars
<1>3. PICK b : After(j) = [job EXCEPT ![j] = b]
  BY <1>1, <1>2, AfterIs
<1>4. After(j)[j] = b
  BY <1>1, <1>3
<1>5. Tells(b) /\ (~stale => WorksFrom(b, s) /\ Offers(b, others, disk))
  BY <1>1, <1>4, AfterSays
<1> QED
  BY <1>2, <1>3, <1>5, QuietFaithful

\* What changes nothing that it speaks of keeps it.
LEMMA SameFaithful ==
  ASSUME Faithful, s' = s, job' = job, stale' = stale, named' = named, disk' = disk,
         replaced' = replaced, others' = others
  PROVE  Faithful'
<1>1. World'
  BY DEF Faithful, World, ReplacementIsAnswered, OfferedArchiveIsOurs
<1> QED
  BY <1>1 DEF Faithful

\* A run of another process takes no name that this one has.
LEMMA OtherRunFaithful ==
  ASSUME IInv, Faithful, NEW name \in Names, OtherRun(name)
  PROVE  Faithful'
<1>1. Typed /\ DiskKnown /\ Screen /\ World
  BY DEF IInv, Faithful
<1>2. PICK j \in Jobs : At(j, "collect", "started")
  BY DEF OtherRun
<1>3. /\ disk' = [disk EXCEPT ![name] = "other"] /\ others' = others \cup {name}
      /\ s' = s /\ job' = job /\ replaced' = replaced /\ stale' = stale /\ named' = named
  BY DEF OtherRun, wizardVars
<1>4. s.step = "collecting" /\ \A i \in Jobs : i # j => ~Collects(job[i])
  BY <1>1, <1>2 DEF Screen, Alone, At, Collects
<1>5. World'
  <2>1. \A n \in Earlier : disk'[n] # "free"
    BY <1>1, <1>3, WizardAssumption DEF World, DiskKnown
  <2>2. s.step \in Late /\ s.zip = NoOne
    BY <1>1, <1>4 DEF World, Late
  <2>3. ReplacementIsAnswered'
    BY <1>1, <1>3 DEF World, ReplacementIsAnswered
  <2>4. OfferedArchiveIsOurs'
    BY <1>3, <2>2 DEF OfferedArchiveIsOurs
  <2> QED
    BY <1>3, <2>1, <2>2, <2>3, <2>4 DEF World
<1>6. ASSUME ~stale, NEW i \in Jobs
      PROVE  WorksFrom(job[i], s) /\ Offers(job[i], others', disk')
  <2>1. WorksFrom(job[i], s) /\ Offers(job[i], others, disk) /\ Sound(job[i])
    BY <1>1, <1>6 DEF Faithful, Typed
  <2>2. job[i].ev.is # "collectDone" /\ ~(Collects(job[i]) /\ job[i].pc = "leaving")
    BY <1>2, <1>4, <2>1 DEF Sound, Collects, At
  <2>3. Offers(job[i], others', disk')
    BY <1>3, <2>1, <2>2 DEF Offers
  <2> QED
    BY <2>1, <2>3
<1>7. (\A i \in Jobs : Tells(job[i])) /\ (~stale => AskedOne(s, named))
  BY DEF Faithful
<1> QED
  BY <1>3, <1>5, <1>6, <1>7 DEF Faithful

\* The run is the one that was asked for when the wizard opens.
LEMMA InitFaithful == Init => Faithful
<1> SUFFICES ASSUME Init PROVE Faithful
  OBVIOUS
<1>1. s = initialState /\ job = [j \in Jobs |-> Idle]
      /\ disk = [n \in Names |-> IF n \in Earlier THEN "earlier" ELSE "free"]
      /\ named = NoOne /\ replaced = {} /\ others = {}
  BY DEF Init
<1>2. s.step = "connection" /\ s.zip = NoOne
  BY <1>1 DEF initialState
<1>3. World
  BY <1>1, <1>2, WizardAssumption DEF World, ReplacementIsAnswered, OfferedArchiveIsOurs
<1>4. \A j \in Jobs : Tells(job[j]) /\ WorksFrom(job[j], s) /\ Offers(job[j], others, disk)
  BY <1>1, IdleFaithful
<1>5. AskedOne(s, named)
  BY <1>2 DEF AskedOne
<1> QED
  BY <1>3, <1>4, <1>5 DEF Faithful

\* Every step keeps it.
LEMMA NextFaithful == IInv /\ Faithful /\ [Next]_vars => Faithful'
<1> SUFFICES ASSUME IInv, Faithful, [Next]_vars PROVE Faithful'
  OBVIOUS
<1>1. CASE UNCHANGED vars \/ OtherPanics \/ ReleasePanic
  <2>1. s' = s /\ job' = job /\ stale' = stale /\ named' = named /\ disk' = disk
        /\ replaced' = replaced /\ others' = others
    BY <1>1 DEF vars, wizardVars, worldVars, OtherPanics, ReleasePanic
  <2> QED
    BY <2>1, SameFaithful
<1>2. CASE PressKey
  BY <1>2, PressKeyFaithful
<1>3. CASE DeliverPanic
  BY <1>3, DeliverPanicFaithful
<1>4. ASSUME NEW j \in Jobs, Deliver(j) PROVE Faithful'
  BY <1>4, DeliverFaithful
<1>5. ASSUME NEW j \in Jobs, Release(j) PROVE Faithful'
  BY <1>5, ReleaseFaithful
<1>6. ASSUME NEW j \in Jobs, Work(j) PROVE Faithful'
  BY <1>6, SendFaithful, VerifiesFaithful, LooksFaithful, RunTellsFaithful, RunPreparesFaithful,
     RunArchivesFaithful, RunReturnsFaithful DEF Work
<1>7. ASSUME NEW j \in Jobs, Panics(j) PROVE Faithful'
  BY <1>7, SendFaithful
<1>8. ASSUME NEW name \in Names, OtherRun(name) PROVE Faithful'
  BY <1>8, OtherRunFaithful
<1> QED
  BY <1>1, <1>2, <1>3, <1>4, <1>5, <1>6, <1>7, <1>8 DEF Next

\* What is asked for and what is done agree.
LEMMA FaithfulCovers == Faithful => RunIsTheAskedOne
BY DEF Faithful, World, AskedOne, OfTyped, RunIsTheAskedOne, VerifyIsOfTheTyped

\* As long as no answer of an abandoned attempt was taken for another's: what the last
\* screens show is of the address that is typed, nothing is moved aside that the operator
\* did not agree to replace by name or that another process made since, and the archive
\* offered is the one this run wrote or stands where another process put its own
\* (tui/run.go, state.go; collisionFor, archiveOf).
THEOREM RunAskedFor == Spec => []RunIsTheAskedOne
<1>1. Init => IInv /\ Faithful
  BY InitKeeps, InitFaithful
<1>2. IInv /\ Faithful /\ [Next]_vars => (IInv /\ Faithful)'
  BY NextKeeps, NextFaithful
<1>3. IInv /\ Faithful => RunIsTheAskedOne
  BY FaithfulCovers
<1> QED
  BY <1>1, <1>2, <1>3, PTL DEF Spec

=============================================================================
