---------------------------- MODULE RerunProofs ----------------------------
(***************************************************************************)
(* Proofs about Rerun.  The inductive invariant says of each manifest of   *)
(* the day that it is sound (its accounts and its reasons), and of the     *)
(* disk that it holds runs of the day.  NothingIsLost then follows from    *)
(* two lemmas: a comparison that finds nothing lost means that the new run *)
(* covers the old one, and covering is transitive, so that deleting the    *)
(* old run leaves every run it covered still covered.                      *)
(***************************************************************************)
EXTENDS Rerun, TLAPS

\* The scripts that QUERY_STORE_DB_INCLUDE narrows in some corpus.
Narrowed == {s \in Scripts : \E c \in Corpora : s \in DOMAIN c /\ c[s].narrowed}

AccountOK(m) ==
  \A u \in m.results :
    /\ {u, wholeScript(u)} \cap DOMAIN m.skipped = {}
    /\ u.target \in m.databases \cup {None}

ReasonsOK(m) ==
  \A u \in DOMAIN m.skipped :
    LET r == m.skipped[u]
    IN  /\ r.why = "profile" => m.profile # None /\ r.what = m.profile
        /\ r.why = "optIn" => r.what \in OptIns \ m.on
        /\ r.why = "optOut" => r.what \in OptOuts \cap m.on
        /\ r.why = "queryStoreInclude" => m.qsInclude # {} /\ u.target \notin m.qsInclude

\* A database that was dropped is named.
SkipsOK(m) ==
  \A u \in DOMAIN m.skipped :
    LET r == m.skipped[u]
    IN  r = Reason(r.why, r.what) /\ (r.why = "dropped" => u.target \in Databases)

WindowOK(m) ==
  m.window.sliding =>
    /\ m.window.resolved /\ m.window.to = m.at
    /\ m.window.from = m.at - m.window.days * Day

\* A manifest keeps to the patterns: no result of a narrowed script outside
\* them, and no other script skipped for them.
IncludeOK(m) ==
  /\ \A u \in m.results :
       u.target # None /\ u.script \in Narrowed /\ m.qsInclude # {} => u.target \in m.qsInclude
  /\ \A u \in DOMAIN m.skipped :
       m.skipped[u].why = "queryStoreInclude" => u.target # None /\ u.script \in Narrowed

---------------------------------------------------------------------------
(* What the plan is made of *)

\* Every selected or offered database is a database the selection kept.
LEMMA OfferedIsSelected ==
  ASSUME NEW w, NEW P, NEW c, NEW v
  PROVE  /\ eligibleFolders(w, P, c, v) \subseteq SelectTargets(P, c, v)
         /\ SelectTargets(P, c, v) \subseteq Databases
  BY DEF eligibleFolders, SelectTargets, firstPass, widenSystem, widenReplication, readable

\* A unit of the unfolded plan is of a script that runs, on a selected database
\* or on the instance.
LEMMA UnfoldedUnits ==
  ASSUME NEW c \in CommandLines, NEW k \in Corpora, NEW v,
         NEW u \in unfolded(k, c, v)
  PROVE  /\ u = unit(u.script, u.target)
         /\ u.script \in runnable(k, c, v)
         /\ u.target \in SelectTargets(WideningPurposes(k, c, v), c, v) \cup {None}
<1>1. PICK s \in runnable(k, c, v) : \E d \in offered(k, c, v, s) : u = unit(s, d)
  BY DEF unfolded
<1>2. PICK d \in offered(k, c, v, s) : u = unit(s, d)
  BY <1>1
<1>3. u.script = s /\ u.target = d
  BY <1>2 DEF unit
<1>4. d \in SelectTargets(WideningPurposes(k, c, v), c, v) \cup {None}
  BY <1>2, OfferedIsSelected DEF offered
<1> QED
  BY <1>2, <1>3, <1>4

\* A planned unit is skipped neither by itself nor for every target.
LEMMA PlannedUnits ==
  ASSUME NEW c \in CommandLines, NEW k \in Corpora, NEW v,
         NEW u \in planUnits(k, c, v)
  PROVE  /\ u \in units
         /\ u.target \in SelectTargets(WideningPurposes(k, c, v), c, v) \cup {None}
         /\ {u, wholeScript(u)} \cap DOMAIN planSkips(k, c, v) = {}
         /\ u.target # None => ~narrows(k[u.script], c, u.target)
         /\ u.script \in DOMAIN k
<1>1. u \in unfolded(k, c, v) /\ u \notin queryStoreSkips(k, c, v)
  BY DEF planUnits
<1>2. /\ u = unit(u.script, u.target) /\ u.script \in runnable(k, c, v)
      /\ u.target \in SelectTargets(WideningPurposes(k, c, v), c, v) \cup {None}
  BY <1>1, UnfoldedUnits
<1>3. u.script \in DOMAIN k /\ u.script \notin gated(k, c, v)
  BY <1>2 DEF runnable
<1>4. u \in units
  BY <1>2, <1>3, OfferedIsSelected, CorpusAssumption DEF units, unit
<1>5. \A s : unit(s, None) \in {u, wholeScript(u)} => s = u.script
  BY <1>2 DEF unit, wholeScript
<1>6. \A w \in queryStoreSkips(k, c, v) : w.target # None
  BY DEF queryStoreSkips
<1>7. wholeScript(u).target = None
  BY DEF wholeScript, unit
<1>8. DOMAIN planSkips(k, c, v) = {unit(s, None) : s \in gated(k, c, v)} \cup queryStoreSkips(k, c, v)
  BY DEF planSkips
<1>9. {u, wholeScript(u)} \cap DOMAIN planSkips(k, c, v) = {}
  <2>1. SUFFICES ASSUME NEW w \in {u, wholeScript(u)}, w \in DOMAIN planSkips(k, c, v)
                 PROVE  FALSE
    OBVIOUS
  <2>2. CASE w \in queryStoreSkips(k, c, v)
    BY <2>1, <2>2, <1>1, <1>6, <1>7
  <2>3. CASE w \in {unit(s, None) : s \in gated(k, c, v)}
    BY <2>1, <2>3, <1>3, <1>5
  <2> QED
    BY <2>1, <2>2, <2>3, <1>8
<1>10. u.target # None => ~narrows(k[u.script], c, u.target)
  BY <1>1 DEF queryStoreSkips
<1> QED
  BY <1>2, <1>3, <1>4, <1>9, <1>10

\* The reason of a gate is true of the script and of the command.
LEMMA GateReasons ==
  ASSUME NEW script, NEW c, NEW v,
         script.requires \in OptIns \cup {None}, script.skippedBy \in OptOuts \cup {None}
  PROVE  LET r == skipReason(script, c, v)
         IN  /\ r.why = "profile" => c.profile # None /\ r.what = c.profile
             /\ r.why = "optIn" => r.what \in OptIns \ c.on
             /\ r.why = "optOut" => r.what \in OptOuts \cap c.on
             /\ r.why \notin {"queryStoreInclude", "dropped"} /\ r = Reason(r.why, r.what)
  BY DEF skipReason, inProfile, Reason, NoSkip

\* The skips of the plan are of known units, and each gives a true reason.
LEMMA PlanSkips ==
  ASSUME NEW c \in CommandLines, NEW k \in Corpora, NEW v,
         NEW u \in DOMAIN planSkips(k, c, v)
  PROVE  LET r == planSkips(k, c, v)[u]
         IN  /\ u \in units /\ r.why # "dropped" /\ r = Reason(r.why, r.what)
             /\ r.why = "profile" => c.profile # None /\ r.what = c.profile
             /\ r.why = "optIn" => r.what \in OptIns \ c.on
             /\ r.why = "optOut" => r.what \in OptOuts \cap c.on
             /\ r.why = "queryStoreInclude" =>
                  /\ u.target # None /\ c.qsInclude # {} /\ u.target \notin c.qsInclude
                  /\ u.script \in DOMAIN k /\ k[u.script].narrowed
<1> DEFINE r == planSkips(k, c, v)[u]
<1>1. u \in {unit(s, None) : s \in gated(k, c, v)} \cup queryStoreSkips(k, c, v)
  BY DEF planSkips
<1>2. r = IF u.target = None THEN skipReason(k[u.script], c, v)
          ELSE Reason("queryStoreInclude", None)
  BY <1>1 DEF planSkips
<1>3. CASE u.target = None
  <2>1. u \notin queryStoreSkips(k, c, v)
    BY <1>3 DEF queryStoreSkips
  <2>2. PICK s \in gated(k, c, v) : u = unit(s, None)
    BY <1>1, <2>1
  <2>3. u.script = s /\ s \in DOMAIN k
    BY <2>2 DEF unit, gated
  <2>4. u \in units
    BY <2>2, <2>3, CorpusAssumption DEF unit, units
  <2>5. k[s].requires \in OptIns \cup {None} /\ k[s].skippedBy \in OptOuts \cup {None}
    BY <2>3, CorpusAssumption
  <2> QED
    BY <1>2, <1>3, <2>3, <2>4, <2>5, GateReasons
<1>4. CASE u.target # None
  <2>1. u \in queryStoreSkips(k, c, v)
    BY <1>1, <1>4 DEF unit
  <2>2. u \in unfolded(k, c, v) /\ narrows(k[u.script], c, u.target)
    BY <2>1 DEF queryStoreSkips
  <2>3. /\ u = unit(u.script, u.target) /\ u.script \in runnable(k, c, v)
        /\ u.target \in SelectTargets(WideningPurposes(k, c, v), c, v) \cup {None}
    BY <2>2, UnfoldedUnits
  <2>4. u.script \in DOMAIN k
    BY <2>3 DEF runnable
  <2>5. u \in units
    BY <2>3, <2>4, OfferedIsSelected, CorpusAssumption DEF units, unit
  <2>6. r = Reason("queryStoreInclude", None)
    BY <1>2, <1>4
  <2> QED
    BY <1>4, <2>2, <2>4, <2>5, <2>6 DEF narrows, Reason
<1> QED
  BY <1>3, <1>4

\* A window that slides is always usable, and ends with the run.
LEMMA Windows ==
  ASSUME NEW c \in CommandLines, NEW n \in Nat
  PROVE  LET w == resolveWindow(c.window, n)
         IN  /\ w.resolved \in BOOLEAN /\ w.days \in Nat /\ w.from \in Int /\ w.to \in Int
             /\ w.sliding => w.resolved /\ w.to = n /\ w.from = n - w.days * Day
<1> DEFINE w == resolveWindow(c.window, n)
<1>1. /\ c.window.days \in Nat
      /\ c.window.from \in Int \cup {None} /\ c.window.to \in Int \cup {None}
      /\ typed(c.window) \/ c.window.days > 0
  BY CommandAssumption
<1>2. Day \in Nat \ {0} /\ DefaultQueryStoreDays \in Nat \ {0}
  BY PlanningAssumption
<1>3. c.window.days * Day \in Nat /\ DefaultQueryStoreDays * Day \in Nat
  BY <1>1, <1>2
<1>4. windowTo(c.window, n) \in Int
  BY <1>1 DEF windowTo
<1>5. windowFrom(c.window, n) \in Int
  BY <1>1, <1>3, <1>4 DEF windowFrom
<1>6. /\ w.resolved = resolves(c.window, n) /\ w.sliding = ~typed(c.window)
      /\ w.days = c.window.days
      /\ w.from = windowFrom(c.window, n) /\ w.to = windowTo(c.window, n)
  BY DEF resolveWindow
<1>7. ASSUME ~typed(c.window)
      PROVE  /\ resolves(c.window, n) /\ windowTo(c.window, n) = n
             /\ windowFrom(c.window, n) = n - c.window.days * Day
  <2>1. c.window.days > 0
    BY <1>1, <1>7
  <2>2. windowTo(c.window, n) = n /\ windowFrom(c.window, n) = n - c.window.days * Day
    BY <2>1 DEF windowTo, windowFrom
  <2>3. c.window.days * Day > 0
    BY <1>1, <1>2, <2>1
  <2> QED
    BY <1>3, <1>7, <2>2, <2>3 DEF resolves
<1>8. resolves(c.window, n) \in BOOLEAN
  BY DEF resolves
<1> QED
  BY <1>1, <1>4, <1>5, <1>6, <1>7, <1>8

---------------------------------------------------------------------------
(* The manifest of a run *)

Sound(m) ==
  TypeManifest(m) /\ AccountOK(m) /\ ReasonsOK(m) /\ SkipsOK(m) /\ WindowOK(m)

\* A manifest the run of the world as it is may write.
MayWrite(m) ==
  \E R \in SUBSET planned, E \in SUBSET units, S \in SUBSET planned :
    /\ R \cap S = {} /\ \A u \in S : u.target \in Databases
    /\ m = manifestOf(R, E, S)

\* The manifest of a run is sound, and keeps to the patterns when no edition of the
\* corpus changes which scripts they narrow.
LEMMA ManifestIsSound ==
  ASSUME TypeOK, NEW m, MayWrite(m)
  PROVE  Sound(m) /\ m.at = now /\ (NarrowingIsFixed => IncludeOK(m))
<1> DEFINE skips == planSkips(corpus, command, server)
           selected == SelectTargets(WideningPurposes(corpus, command, server), command, server)
<1>1. PICK R \in SUBSET planned, E \in SUBSET units, S \in SUBSET planned :
        /\ R \cap S = {} /\ \A u \in S : u.target \in Databases
        /\ m = manifestOf(R, E, S)
  BY DEF MayWrite
<1>2. /\ m.readable /\ m.target = target /\ m.at = now /\ m.profile = command.profile
      /\ m.on = command.on /\ m.qsInclude = command.qsInclude /\ m.top = command.top
      /\ m.window = resolveWindow(command.window, now) /\ m.databases = selected
      /\ m.results = R /\ m.errors = E
      /\ m.skipped = [u \in DOMAIN skips \cup S |->
                        IF u \in S THEN Reason("dropped", None) ELSE skips[u]]
  BY <1>1 DEF manifestOf
<1>3. /\ command \in CommandLines /\ corpus \in Corpora /\ target \in Targets
      /\ now \in Nat
  BY DEF TypeOK
<1>4. \A u \in planned : /\ u \in units /\ u.target \in selected \cup {None}
                         /\ {u, wholeScript(u)} \cap DOMAIN skips = {}
                         /\ u.target # None => ~narrows(corpus[u.script], command, u.target)
                         /\ u.script \in DOMAIN corpus
  BY <1>3, PlannedUnits DEF planned
<1>5. \A u \in DOMAIN skips :
        /\ u \in units /\ skips[u].why # "dropped"
        /\ skips[u] = Reason(skips[u].why, skips[u].what)
        /\ skips[u].why = "profile" => command.profile # None /\ skips[u].what = command.profile
        /\ skips[u].why = "optIn" => skips[u].what \in OptIns \ command.on
        /\ skips[u].why = "optOut" => skips[u].what \in OptOuts \cap command.on
        /\ skips[u].why = "queryStoreInclude" =>
             /\ u.target # None /\ command.qsInclude # {} /\ u.target \notin command.qsInclude
             /\ u.script \in DOMAIN corpus /\ corpus[u.script].narrowed
  BY <1>3, PlanSkips
<1>6. DOMAIN m.skipped = DOMAIN skips \cup S
  BY <1>2
<1>7. \A u \in DOMAIN m.skipped :
        IF u \in S THEN m.skipped[u] = Reason("dropped", None)
        ELSE u \in DOMAIN skips /\ m.skipped[u] = skips[u]
  BY <1>2
<1>8. TypeManifest(m)
  <2>1. /\ m.window.resolved \in BOOLEAN /\ m.window.days \in Nat
        /\ m.window.from \in Int /\ m.window.to \in Int
    BY <1>2, <1>3, Windows
  <2>2. m.databases \subseteq Databases
    BY <1>2, OfferedIsSelected
  <2>3. m.on \subseteq OptIns \cup OptOuts /\ m.top \in Nat
    BY <1>2, <1>3, CommandAssumption
  <2>4. m.results \subseteq units /\ m.errors \subseteq units /\ DOMAIN m.skipped \subseteq units
    BY <1>1, <1>2, <1>4, <1>5, <1>6
  <2>5. m.readable /\ m.target \in Targets /\ m.at \in 0..now
    BY <1>2, <1>3
  <2> QED
    BY <2>1, <2>2, <2>3, <2>4, <2>5 DEF TypeManifest
<1>9. AccountOK(m)
  <2>1. ASSUME NEW u \in R
        PROVE  {u, wholeScript(u)} \cap (DOMAIN skips \cup S) = {} /\ u.target \in selected \cup {None}
    <3>1. {u, wholeScript(u)} \cap DOMAIN skips = {} /\ u.target \in selected \cup {None}
      BY <1>1, <1>4
    <3>2. u \notin S
      BY <1>1
    <3>3. wholeScript(u) \notin S
      BY <1>1, PlanningAssumption DEF wholeScript, unit
    <3> QED
      BY <3>1, <3>2, <3>3
  <2> QED
    BY <2>1, <1>2, <1>6 DEF AccountOK
<1>10. ReasonsOK(m)
  <2>1. ASSUME NEW u \in DOMAIN m.skipped
        PROVE  LET r == m.skipped[u]
               IN  /\ r.why = "profile" => m.profile # None /\ r.what = m.profile
                   /\ r.why = "optIn" => r.what \in OptIns \ m.on
                   /\ r.why = "optOut" => r.what \in OptOuts \cap m.on
                   /\ r.why = "queryStoreInclude" => m.qsInclude # {} /\ u.target \notin m.qsInclude
    <3>1. CASE u \in S
      BY <3>1, <1>7 DEF Reason
    <3>2. CASE u \notin S
      <4>1. u \in DOMAIN skips /\ m.skipped[u] = skips[u]
        BY <3>2, <1>7
      <4>2. m.profile = command.profile /\ m.on = command.on /\ m.qsInclude = command.qsInclude
        BY <1>2
      <4> HIDE DEF skips
      <4> QED
        BY <4>1, <4>2, <1>5
    <3> QED
      BY <3>1, <3>2
  <2> QED
    BY <2>1 DEF ReasonsOK
<1>11. WindowOK(m)
  BY <1>2, <1>3, Windows DEF WindowOK
<1>12. ASSUME NarrowingIsFixed
       PROVE  IncludeOK(m)
  <2>1. \A s \in Narrowed : s \in DOMAIN corpus => corpus[s].narrowed
    BY <1>3, <1>12 DEF Narrowed, NarrowingIsFixed
  <2>2. ASSUME NEW u \in m.results, u.target # None, u.script \in Narrowed, m.qsInclude # {}
        PROVE  u.target \in m.qsInclude
    <3>1. u \in planned
      BY <2>2, <1>1, <1>2
    <3>2. ~narrows(corpus[u.script], command, u.target) /\ corpus[u.script].narrowed
      BY <3>1, <2>1, <2>2, <1>4
    <3> QED
      BY <3>2, <2>2, <1>2 DEF narrows
  <2>3. ASSUME NEW u \in DOMAIN m.skipped, m.skipped[u].why = "queryStoreInclude"
        PROVE  u.target # None /\ u.script \in Narrowed
    <3>1. u \notin S
      BY <2>3, <1>7 DEF Reason
    <3>2. u \in DOMAIN skips /\ skips[u].why = "queryStoreInclude"
      BY <3>1, <2>3, <1>7
    <3>3. u.target # None /\ u.script \in DOMAIN corpus /\ corpus[u.script].narrowed
      BY <3>2, <1>5
    <3> QED
      BY <3>3, <1>3, CorpusAssumption DEF Narrowed
  <2> QED
    BY <2>2, <2>3 DEF IncludeOK
<1>13. SkipsOK(m)
  <2>1. ASSUME NEW u \in DOMAIN m.skipped
        PROVE  LET r == m.skipped[u]
               IN  r = Reason(r.why, r.what) /\ (r.why = "dropped" => u.target \in Databases)
    <3>1. CASE u \in S
      BY <3>1, <1>1, <1>7 DEF Reason
    <3>2. CASE u \notin S
      <4>1. u \in DOMAIN skips /\ m.skipped[u] = skips[u]
        BY <3>2, <1>7
      <4> HIDE DEF skips
      <4> QED
        BY <4>1, <1>5
    <3> QED
      BY <3>1, <3>2
  <2> QED
    BY <2>1 DEF SkipsOK
<1> QED
  BY <1>2, <1>8, <1>9, <1>10, <1>11, <1>12, <1>13 DEF Sound

---------------------------------------------------------------------------
(* Covering *)

\* A run covers itself, and what a run covers that another covers.
LEMMA CoversSelf ==
  ASSUME NEW m, TypeManifest(m), now \in Nat
  PROVE  covers(m, m)
  BY DEF covers, coversResults, coversDatabases, coversOptions, coversSettings, coversWindow,
         TypeManifest

\* What a run covers, and what that one covers, it covers.
LEMMA CoversTransitive ==
  ASSUME NEW k, NEW l, NEW m, TypeManifest(k), TypeManifest(l), TypeManifest(m), now \in Nat,
         covers(k, l), covers(l, m)
  PROVE  covers(k, m)
<1>1. coversResults(k, m)
  <2>1. \A u : wholeScript(wholeScript(u)) = wholeScript(u)
    BY DEF wholeScript, unit
  <2> QED
    BY <2>1 DEF covers, coversResults
<1>2. coversDatabases(k, m) /\ coversOptions(k, m)
  BY DEF covers, coversDatabases, coversOptions
<1>3. coversSettings(k, m)
  BY DEF covers, coversSettings, TypeManifest
<1>4. coversWindow(k, m)
  BY DEF covers, coversWindow, TypeManifest
<1> QED
  BY <1>1, <1>2, <1>3, <1>4 DEF covers

\* The skips that lose no result are those whose narrowing is named.
LEMMA NarrowingsNamed ==
  ASSUME NEW r, NEW p, NEW m, ~skipLoses(r, p, m)
  PROVE  \/ r.why = "profile" /\ r.what = m.profile /\ p.profile # m.profile
         \/ r.why = "queryStoreInclude"
         \/ r.why = "optIn" /\ r.what \in p.on \ m.on
         \/ r.why = "optOut" /\ r.what \in m.on \ p.on
<1>1. CASE r = Reason("profile", m.profile)
  BY <1>1 DEF skipLoses, Reason
<1>2. CASE r # Reason("profile", m.profile) /\ r.why = "optIn"
  BY <1>2 DEF skipLoses
<1>3. CASE r # Reason("profile", m.profile) /\ r.why = "optOut"
  BY <1>3 DEF skipLoses
<1>4. CASE r # Reason("profile", m.profile) /\ r.why \notin {"optIn", "optOut"}
  BY <1>4 DEF skipLoses
<1> QED
  BY <1>1, <1>2, <1>3, <1>4

\* What the comparison finds missing is what covering asks for.
LEMMA LostNothing ==
  ASSUME NEW p, NEW m, Sound(p), Sound(m), IncludeOK(p), IncludeOK(m), now \in Nat,
         m.errors = {}, p.at <= m.at, previousRunLost(p, m) = {}
  PROVE  covers(m, p)
<1>1. TypeManifest(p) /\ TypeManifest(m)
  BY DEF Sound
<1>2. ~otherServer(p, m) /\ scopeLost(p, m) = {}
  BY <1>1 DEF previousRunLost, TypeManifest
<1>3. /\ optionsLost(p, m) = {} /\ settingsLost(p, m) = {} /\ goneFrom(p, m) = {}
      /\ collectorsLost(p, m, {}) = {}
  <2>1. optionsLost(p, m) = {} /\ settingsLost(p, m) = {} /\ collectorsLost(p, m, goneFrom(p, m)) = {}
    BY <1>2 DEF scopeLost
  <2>2. goneFrom(p, m) = {}
    BY <1>2 DEF scopeLost
  <2> QED
    BY <2>1, <2>2
<1>4. m.target = p.target
  BY <1>1, <1>2, TargetsAssumption DEF otherServer, TypeManifest
<1>5. coversDatabases(m, p)
  BY <1>3 DEF goneFrom, coversDatabases
<1>6. coversOptions(m, p)
  BY <1>3 DEF optionsLost, coversOptions
<1>7. m.profile # None => p.profile = m.profile
  BY <1>3 DEF optionsLost
<1>8. /\ m.qsInclude # {} => p.qsInclude = m.qsInclude
      /\ ~countLost(p.top, m.top) /\ ~windowLost(p.window, m.window)
      /\ p.compareAt # None => m.compareAt = p.compareAt
  BY <1>3 DEF settingsLost
<1>9. coversSettings(m, p)
  BY <1>1, <1>8 DEF countLost, coversSettings, TypeManifest
<1>10. coversWindow(m, p)
  <2>1. SUFFICES ASSUME p.window.resolved
                 PROVE  /\ m.window.resolved
                        /\ m.window.from <= p.window.from + (m.at - p.at)
                        /\ m.window.to >= p.window.to
    BY DEF coversWindow
  <2>2. /\ p.at \in Int /\ m.at \in Int /\ p.window.from \in Int /\ p.window.to \in Int
        /\ m.window.from \in Int /\ m.window.to \in Int
        /\ p.window.days \in Nat /\ m.window.days \in Nat
    BY <1>1 DEF TypeManifest
  <2>3. CASE p.window.sliding /\ m.window.sliding
    <3>1. m.window.days >= p.window.days
      BY <1>8, <2>1, <2>2, <2>3 DEF windowLost, countLost
    <3>2. m.window.days * Day >= p.window.days * Day /\ m.window.days * Day \in Nat
             /\ p.window.days * Day \in Nat
      BY <3>1, <2>2, PlanningAssumption
    <3>3. /\ m.window.resolved /\ m.window.to = m.at /\ m.window.from = m.at - m.window.days * Day
          /\ p.window.to = p.at /\ p.window.from = p.at - p.window.days * Day
      BY <2>3 DEF Sound, WindowOK
    <3>4. m.window.from <= p.window.from + (m.at - p.at)
      BY <3>2, <3>3, <2>2
    <3> QED
      BY <3>3, <3>4, <2>2
  <2>4. CASE ~(p.window.sliding /\ m.window.sliding)
    <3>1. ~(~m.window.resolved \/ m.window.from > p.window.from \/ m.window.to < p.window.to)
      BY <1>8, <2>1, <2>4 DEF windowLost
    <3> QED
      BY <3>1, <2>2
  <2> QED
    BY <2>3, <2>4
<1>11. coversResults(m, p)
  <2>1. SUFFICES ASSUME NEW u \in p.results, u \notin m.results, wholeScript(u) \notin m.results
                 PROVE  FALSE
    BY DEF coversResults
  <2> DEFINE r == skipOf(u, m)
  <2>2. u \in unmatched(p, m, {})
    BY <2>1 DEF unmatched, ran
  <2>3. r # NoSkip /\ ~skipLoses(r, p, m)
    BY <1>3, <2>1, <2>2 DEF collectorsLost
  <2>4. PICK v \in {u, wholeScript(u)} : v \in DOMAIN m.skipped /\ r = m.skipped[v]
    BY <2>3 DEF skipOf
  <2>5. /\ r.why = "profile" => m.profile # None /\ r.what = m.profile
        /\ r.why = "optIn" => r.what \in OptIns \ m.on
        /\ r.why = "optOut" => r.what \in OptOuts \cap m.on
        /\ r.why = "queryStoreInclude" => m.qsInclude # {} /\ v.target \notin m.qsInclude
    BY <2>4 DEF Sound, ReasonsOK
  <2>6. r.why # "queryStoreInclude"
    <3>1. SUFFICES ASSUME r.why = "queryStoreInclude" PROVE FALSE
      OBVIOUS
    <3>2. v.target # None /\ v.script \in Narrowed
      BY <3>1, <2>4 DEF IncludeOK
    <3>3. v = u
      BY <3>2, <2>4 DEF wholeScript, unit
    <3>4. p.qsInclude # {} /\ u.target \notin p.qsInclude
      BY <1>8, <2>5, <3>1, <3>3
    <3> QED
      BY <3>2, <3>3, <3>4, <2>1 DEF IncludeOK
  <2>7. \/ r.why = "profile" /\ r.what = m.profile /\ p.profile # m.profile
        \/ r.why = "optIn" /\ r.what \in p.on \ m.on
        \/ r.why = "optOut" /\ r.what \in m.on \ p.on
    BY <2>3, <2>6, NarrowingsNamed
  <2> HIDE DEF r
  <2>8. ~(r.why = "profile" /\ r.what = m.profile /\ p.profile # m.profile)
    BY <2>5, <1>7
  <2>9. ~(r.why = "optIn" /\ r.what \in p.on \ m.on)
    BY <2>5, <1>3 DEF optionsLost
  <2>10. ~(r.why = "optOut" /\ r.what \in m.on \ p.on)
    BY <2>5, <1>3 DEF optionsLost
  <2> QED
    BY <2>7, <2>8, <2>9, <2>10
<1> QED
  BY <1>4, <1>5, <1>6, <1>9, <1>10, <1>11 DEF covers

---------------------------------------------------------------------------
(* The steps of the day *)

\* The disk after a step: the run that was in the folder stays, or is set aside, or
\* was found to have nothing the new one lacks.
Keeps(m) ==
  /\ inPlace' = replacedBy(m)
  /\ aside' \in {aside, aside \cup setsAside}
  /\ \/ aside \cup setsAside \subseteq aside'
     \/ previousRunLost(inPlace[folder], m) = {} /\ m.errors = {}

\* A step of the day writes a manifest, or leaves an unreadable folder, or touches
\* nothing on the disk.
Writes == \E m : MayWrite(m) /\ now' = now /\ brought' = brought \cup {m} /\ Keeps(m)
LeavesNone ==
  /\ now' = now /\ inPlace' = replacedBy(Unreadable)
  /\ aside' = aside \cup setsAside /\ brought' = brought
LeavesAlone == now <= now' /\ inPlace' = inPlace /\ aside' = aside /\ brought' = brought

\* A whole run writes its manifest, whatever the comparison finds.
LEMMA WholeRunWrites ==
  ASSUME TypeOK, NEW m, MayWrite(m), m.errors = {}, completes(m), now' = now
  PROVE  Writes
<1>1. inPlace' = replacedBy(m) /\ brought' = brought \cup {m}
  BY DEF completes
<1>2. CASE folder \in DOMAIN inPlace
  <2>1. lost' = previousRunLost(inPlace[folder], m)
    BY <1>2 DEF completes
  <2>2. CASE lost' = {}
    BY <1>1, <2>1, <2>2 DEF completes, Keeps, Writes
  <2>3. CASE lost' # {}
    BY <1>1, <2>3 DEF completes, Keeps, Writes
  <2> QED
    BY <2>2, <2>3
<1>3. CASE folder \notin DOMAIN inPlace
  BY <1>1, <1>3 DEF completes, Keeps, Writes, setsAside
<1> QED
  BY <1>2, <1>3

\* What a whole run writes, and what it writes when a database was dropped under it.
LEMMA PlanButDropped ==
  ASSUME NEW missed \in SUBSET planned, \A u \in missed : u.target \in Databases
  PROVE  LET m == manifestOf(planned \ missed, {}, missed)
         IN  MayWrite(m) /\ m.errors = {}
<1> DEFINE m == manifestOf(planned \ missed, {}, missed)
<1>1. /\ planned \ missed \in SUBSET planned /\ {} \in SUBSET units
      /\ (planned \ missed) \cap missed = {}
  OBVIOUS
<1>2. MayWrite(m)
  BY <1>1 DEF MayWrite
<1>3. m.errors = {}
  BY DEF manifestOf
<1> QED
  BY <1>2, <1>3

\* The manifest of a plan that went through may be written, and lists no error.
LEMMA WholePlan ==
  LET m == manifestOf(planned, {}, {})
  IN  MayWrite(m) /\ m.errors = {}
<1>1. planned = planned \ {} /\ {} \in SUBSET planned /\ \A u \in {} : u.target \in Databases
  OBVIOUS
<1> QED
  BY <1>1, PlanButDropped

\* Those are all the steps.
LEMMA Steps ==
  ASSUME TypeOK, [Next]_vars
  PROVE  Writes \/ LeavesNone \/ LeavesAlone
<1>1. now \in Nat
  BY DEF TypeOK
<1>2. CASE CollectsAll
  <2> DEFINE m == manifestOf(planned, {}, {})
  <2>1. MayWrite(m) /\ m.errors = {}
    BY WholePlan
  <2>2. completes(m) /\ now' = now
    BY <1>2 DEF CollectsAll
  <2> HIDE DEF m
  <2> QED
    BY <2>1, <2>2, WholeRunWrites
<1>3. CASE CollectsAsDropped
  <2>0. PICK d \in Databases : \E missed \in SUBSET {u \in planned : u.target = d} \ {{}} :
          completes(manifestOf(planned \ missed, {}, missed))
    BY <1>3 DEF CollectsAsDropped
  <2>1. PICK missed \in SUBSET {u \in planned : u.target = d} \ {{}} :
          completes(manifestOf(planned \ missed, {}, missed))
    BY <2>0
  <2> DEFINE m == manifestOf(planned \ missed, {}, missed)
  <2>2. missed \in SUBSET planned /\ \A u \in missed : u.target \in Databases
    BY <2>1
  <2>3. MayWrite(m) /\ m.errors = {}
    BY <2>2, PlanButDropped
  <2>5. completes(m) /\ now' = now
    BY <2>1, <1>3 DEF CollectsAsDropped
  <2> HIDE DEF m
  <2> QED
    BY <2>3, <2>5, WholeRunWrites
<1>4. CASE CollectsPart
  <2>1. PICK missed \in {{u} : u \in planned} \cup {{}}, failed \in BOOLEAN :
          LET m == manifestOf(planned \ missed,
                     {unit(s, None) : s \in lintErrors(corpus)}
                       \cup (IF failed THEN missed ELSE {}), {})
          IN inPlace' = replacedBy(m) /\ brought' = brought \cup {m}
    BY <1>4 DEF CollectsPart
  <2> DEFINE E == {unit(s, None) : s \in lintErrors(corpus)} \cup (IF failed THEN missed ELSE {})
             m == manifestOf(planned \ missed, E, {})
  <2>2. planned \subseteq units
    BY PlannedUnits DEF planned, TypeOK
  <2>3. \A s \in lintErrors(corpus) : unit(s, None) \in units
    BY CorpusAssumption DEF lintErrors, unit, units, TypeOK
  <2>4. missed \subseteq units
    BY <2>1, <2>2
  <2>5. E \in SUBSET units
    BY <2>3, <2>4
  <2>6. MayWrite(m)
    <3> HIDE DEF E
    <3> QED
      BY <2>5 DEF MayWrite
  <2>7. inPlace' = replacedBy(m) /\ brought' = brought \cup {m}
    BY <2>1
  <2> HIDE DEF m
  <2>8. now' = now /\ aside' = aside \cup setsAside
    BY <1>4 DEF CollectsPart, world
  <2>9. Keeps(m)
    <3>1. aside' \in {aside, aside \cup setsAside} /\ aside \cup setsAside \subseteq aside'
      BY <2>8
    <3> QED
      BY <2>7, <3>1 DEF Keeps
  <2> QED
    BY <2>6, <2>7, <2>8, <2>9 DEF Writes
<1>5. CASE Dies
  BY <1>5 DEF Dies, LeavesNone
<1>6. CASE Between
  BY <1>1, <1>6 DEF Between, TypesAnother, InstallsAnother, ServerChanges, ConnectsElsewhere, Tick,
                    disk, LeavesAlone
<1>7. CASE UNCHANGED vars
  BY <1>1, <1>7 DEF vars, disk, LeavesAlone
<1> QED
  BY <1>2, <1>3, <1>4, <1>5, <1>6, <1>7 DEF Next, Collects

\* What is on the disk after a step was there, or is the new manifest.
LEMMA DiskIsOfTheDay ==
  ASSUME TypeOK, NEW m, inPlace' = replacedBy(m), aside' \in {aside, aside \cup setsAside}
  PROVE  /\ aside' \subseteq brought
         /\ \A f \in DOMAIN inPlace' : inPlace'[f] \in brought \cup {Unreadable, m}
  BY DEF TypeOK, replacedBy, setsAside

\* The inductive invariant.
IInv == TypeOK /\ \A m \in brought : Sound(m)

\* The part of the type invariant that is not about the disk.
LEMMA WorldStep ==
  ASSUME TypeOK, [Next]_vars
  PROVE  /\ (command \in CommandLines /\ corpus \in Corpora /\ target \in Targets)'
         /\ (server \in ServerStates)'
         /\ (now \in 0..MaxHour /\ runs \in 0..MaxRuns /\ events \in 0..MaxEvents)'
         /\ (unchanged \in BOOLEAN)'
<1>0. /\ command \in CommandLines /\ corpus \in Corpora /\ target \in Targets
      /\ server \in ServerStates
      /\ now \in 0..MaxHour /\ runs \in 0..MaxRuns /\ events \in 0..MaxEvents
      /\ unchanged \in BOOLEAN
  BY DEF TypeOK
<1>a. /\ Servers \subseteq ServerStates
      /\ MaxRuns \in Nat /\ MaxEvents \in Nat /\ MaxHour \in Nat
  BY WorldAssumption
<1>b. begins => runs' \in 0..MaxRuns
  BY <1>0, <1>a DEF begins
<1>c. happens => events' \in 0..MaxEvents
  BY <1>0, <1>a DEF happens
<1>1. CASE CollectsAll
  BY <1>0, <1>1, <1>b DEF CollectsAll, world
<1>2. CASE CollectsAsDropped
  <2>1. PICK d \in Databases : server' = [server EXCEPT !.state[d] = "gone"]
    BY <1>2 DEF CollectsAsDropped
  <2>2. server' \in ServerStates
    BY <1>0, <2>1 DEF ServerStates
  <2> QED
    BY <1>0, <1>2, <1>b, <1>c, <2>2 DEF CollectsAsDropped
<1>3. CASE CollectsPart
  BY <1>0, <1>3, <1>b, <1>c DEF CollectsPart, world
<1>4. CASE Dies
  BY <1>0, <1>4, <1>b, <1>c DEF Dies, world
<1>5. CASE TypesAnother
  BY <1>0, <1>5, <1>c DEF TypesAnother, edited
<1>6. CASE InstallsAnother
  BY <1>0, <1>6, <1>c DEF InstallsAnother, edited
<1>7. CASE ServerChanges
  BY <1>0, <1>7, <1>a, <1>c DEF ServerChanges, edited
<1>8. CASE ConnectsElsewhere
  BY <1>0, <1>8, <1>c DEF ConnectsElsewhere, edited
<1>9. CASE Tick
  BY <1>0, <1>9, <1>a DEF Tick, world
<1>10. CASE UNCHANGED vars
  BY <1>0, <1>10 DEF vars, world
<1> QED
  BY <1>1, <1>2, <1>3, <1>4, <1>5, <1>6, <1>7, <1>8, <1>9, <1>10 DEF Next, Collects, Between

\* A manifest stays sound as the day goes on.
LEMMA SoundStays ==
  ASSUME NEW m, Sound(m), now \in Nat, now' \in Nat, now <= now'
  PROVE  Sound(m)'
<1>1. TypeManifest(m)'
  BY DEF Sound, TypeManifest
<1> QED
  BY <1>1 DEF Sound, AccountOK, ReasonsOK, SkipsOK, WindowOK

\* The invariant holds at the start, and is preserved by every step.
LEMMA IInvInit == Init => IInv
<1> SUFFICES ASSUME Init
             PROVE  IInv
  OBVIOUS
<1>1. /\ command \in CommandLines /\ corpus \in Corpora /\ target \in Targets /\ server \in Servers
      /\ now = 0 /\ inPlace = <<>> /\ aside = {} /\ brought = {} /\ unchanged = FALSE
      /\ runs = 0 /\ events = 0
  BY DEF Init
<1>2. server \in ServerStates /\ now \in 0..MaxHour /\ runs \in 0..MaxRuns /\ events \in 0..MaxEvents
  BY <1>1, WorldAssumption
<1>3. DOMAIN inPlace = {}
  BY <1>1
<1> QED
  BY <1>1, <1>2, <1>3 DEF IInv, TypeOK

\* Every step keeps IInv.
LEMMA IInvStep == IInv /\ [Next]_vars => IInv'
<1> SUFFICES ASSUME IInv, [Next]_vars
             PROVE  IInv'
  OBVIOUS
<1>1. TypeOK /\ \A m \in brought : Sound(m)
  BY DEF IInv
<1>2. /\ (command \in CommandLines /\ corpus \in Corpora /\ target \in Targets)'
      /\ (server \in ServerStates)'
      /\ (now \in 0..MaxHour /\ runs \in 0..MaxRuns /\ events \in 0..MaxEvents)'
      /\ (unchanged \in BOOLEAN)'
  BY <1>1, WorldStep
<1>3. now \in Nat /\ now' \in Nat
  BY <1>1, <1>2, WorldAssumption DEF TypeOK
<1>4. ASSUME \A m \in brought' : m \in brought \/ Sound(m),
             now <= now', aside' \subseteq brought',
             \A f \in DOMAIN inPlace' : inPlace'[f] \in brought' \cup {Unreadable}
      PROVE  IInv'
  <2>1. \A m \in brought' : Sound(m)'
    BY <1>1, <1>3, <1>4, SoundStays
  <2>2. \A m \in brought' : TypeManifest(m)'
    BY <2>1 DEF Sound
  <2>3. TypeOK'
    BY <1>2, <1>4, <2>2 DEF TypeOK
  <2> QED
    BY <2>1, <2>3 DEF IInv
<1>5. CASE Writes
  <2>1. PICK m : MayWrite(m) /\ now' = now /\ brought' = brought \cup {m} /\ Keeps(m)
    BY <1>5 DEF Writes
  <2>2. Sound(m)
    BY <1>1, <2>1, ManifestIsSound
  <2>3. /\ aside' \subseteq brought
        /\ \A f \in DOMAIN inPlace' : inPlace'[f] \in brought \cup {Unreadable, m}
    BY <1>1, <2>1, DiskIsOfTheDay DEF Keeps
  <2>4. now <= now' /\ \A l \in brought' : l \in brought \/ Sound(l)
    BY <1>3, <2>1, <2>2
  <2>5. aside' \subseteq brought' /\ \A f \in DOMAIN inPlace' : inPlace'[f] \in brought' \cup {Unreadable}
    BY <2>1, <2>3
  <2> QED
    BY <1>4, <2>4, <2>5
<1>6. CASE LeavesNone
  <2>1. /\ aside' \subseteq brought
        /\ \A f \in DOMAIN inPlace' : inPlace'[f] \in brought \cup {Unreadable}
    BY <1>1, <1>6, DiskIsOfTheDay DEF LeavesNone
  <2>2. now <= now' /\ brought' = brought
    BY <1>3, <1>6 DEF LeavesNone
  <2> QED
    BY <1>4, <2>1, <2>2
<1>7. CASE LeavesAlone
  <2>1. aside \subseteq brought /\ \A f \in DOMAIN inPlace : inPlace[f] \in brought \cup {Unreadable}
    BY <1>1 DEF TypeOK
  <2>2. now <= now' /\ inPlace' = inPlace /\ aside' = aside /\ brought' = brought
    BY <1>7 DEF LeavesAlone
  <2> QED
    BY <1>4, <2>1, <2>2
<1> QED
  BY <1>1, <1>5, <1>6, <1>7, Steps

\* The invariant holds throughout the day.
THEOREM Inductive == Spec => []IInv
<1> QED
  BY IInvInit, IInvStep, PTL DEF Spec

\* The type invariant: every folder of the day holds a manifest of a run of the day,
\* or none that can be read.
THEOREM TypeCorrect == Spec => []TypeOK
<1>1. IInv => TypeOK
  BY DEF IInv
<1> QED
  BY <1>1, Inductive, PTL

\* Every manifest has its type and accounts once for each unit, whatever the corpus,
\* the command and the server.
THEOREM AccountsOnce == Spec => []AccountIsSound
<1>1. IInv => AccountIsSound
  <2>1. IInv => TypeOK
    BY DEF IInv
  <2>2. IInv => OneAccount
    BY DEF IInv, Sound, AccountOK, OneAccount
  <2> QED
    BY <2>1, <2>2 DEF AccountIsSound
<1> QED
  BY <1>1, Inductive, PTL

\* The reasons every manifest gives for its skips are true of its run.
THEOREM ReasonsHold == Spec => []ReasonsAreTrue
<1>1. IInv => ReasonsAreTrue
  BY DEF IInv, Sound, ReasonsOK, ReasonsAreTrue
<1> QED
  BY <1>1, Inductive, PTL

---------------------------------------------------------------------------
(* Nothing is lost *)

CoverInv == NothingIsLost /\ \A m \in brought : IncludeOK(m)

\* A run that is on the disk is there after a step, or the run the step wrote
\* covers it.
LEMMA StillCovered ==
  ASSUME NarrowingIsFixed, IInv, CoverInv, NEW m, MayWrite(m), Keeps(m), NEW k \in onDisk
  PROVE  k \in onDisk' \/ covers(m, k)
<1>1. TypeOK /\ \A l \in brought : Sound(l)
  BY DEF IInv
<1>2. k \in brought /\ k # Unreadable
  BY <1>1 DEF onDisk, TypeOK
<1>3. now \in Nat
  BY <1>1 DEF TypeOK
<1>4. Sound(m) /\ m.at = now /\ IncludeOK(m)
  BY <1>1, ManifestIsSound
<1>5. CASE k \in aside'
  BY <1>2, <1>5 DEF onDisk
<1>6. CASE k \notin aside'
  <2>1. aside \subseteq aside'
    BY DEF Keeps
  <2>2. PICK f \in DOMAIN inPlace : k = inPlace[f]
    BY <1>6, <2>1 DEF onDisk
  <2>3. CASE f # folder
    <3>1. f \in DOMAIN inPlace' /\ inPlace'[f] = k
      BY <2>2, <2>3 DEF Keeps, replacedBy
    <3> QED
      BY <3>1, <1>2 DEF onDisk
  <2>4. CASE f = folder
    <3>1. k \in setsAside
      BY <1>2, <2>2, <2>4 DEF setsAside
    <3>2. previousRunLost(k, m) = {} /\ m.errors = {}
      BY <1>6, <2>2, <2>4, <3>1 DEF Keeps
    <3>3. Sound(k) /\ IncludeOK(k)
      BY <1>1, <1>2 DEF CoverInv
    <3>4. k.at <= m.at
      BY <1>3, <1>4, <3>3 DEF Sound, TypeManifest
    <3> QED
      BY <1>3, <1>4, <3>2, <3>3, <3>4, LostNothing
  <2> QED
    BY <2>3, <2>4
<1> QED
  BY <1>5, <1>6

\* Every step leaves every run covered.
LEMMA CoverStep ==
  ASSUME NarrowingIsFixed
  PROVE  IInv /\ CoverInv /\ [Next]_vars => CoverInv'
<1> SUFFICES ASSUME IInv, CoverInv, [Next]_vars
             PROVE  CoverInv'
  OBVIOUS
<1>1. TypeOK /\ \A m \in brought : Sound(m)
  BY DEF IInv
<1>2. now \in Nat
  BY <1>1 DEF TypeOK
<1>3. CASE Writes
  <2>1. PICK m : MayWrite(m) /\ now' = now /\ brought' = brought \cup {m} /\ Keeps(m)
    BY <1>3 DEF Writes
  <2>2. Sound(m) /\ IncludeOK(m)
    BY <1>1, <2>1, ManifestIsSound
  <2>3. m # Unreadable
    BY <2>2 DEF Sound, TypeManifest, Unreadable
  <2>4. m \in onDisk'
    <3>1. folder \in DOMAIN inPlace' /\ inPlace'[folder] = m
      BY <2>1 DEF Keeps, replacedBy
    <3> QED
      BY <3>1, <2>3 DEF onDisk
  <2>5. ASSUME NEW x \in brought
        PROVE  \E l \in onDisk' : covers(l, x)
    <3>1. PICK k \in onDisk : covers(k, x)
      BY DEF CoverInv, NothingIsLost
    <3>2. CASE k \in onDisk'
      BY <3>1, <3>2
    <3>3. CASE covers(m, k)
      <4>1. k \in brought
        BY <1>1 DEF onDisk, TypeOK
      <4>2. covers(m, x)
        BY <1>1, <1>2, <2>2, <3>1, <3>3, <4>1, CoversTransitive DEF Sound
      <4> QED
        BY <2>4, <4>2
    <3> QED
      BY <2>1, <3>2, <3>3, StillCovered
  <2>6. covers(m, m)
    BY <1>2, <2>2, CoversSelf DEF Sound
  <2>7. NothingIsLost'
    <3>1. \A x \in brought' : \E l \in onDisk' : covers(l, x)
      BY <2>1, <2>4, <2>5, <2>6
    <3> QED
      BY <3>1 DEF NothingIsLost, covers, coversResults, coversDatabases, coversOptions,
                  coversSettings, coversWindow
  <2>8. \A x \in brought' : IncludeOK(x)
    BY <2>1, <2>2 DEF CoverInv
  <2> QED
    BY <2>7, <2>8 DEF CoverInv, IncludeOK
<1>4. CASE LeavesNone
  <2>1. onDisk \subseteq onDisk'
    <3> SUFFICES ASSUME NEW k \in onDisk
                 PROVE  k \in onDisk'
      OBVIOUS
    <3>1. k # Unreadable
      BY DEF onDisk
    <3>2. CASE k \in aside
      BY <1>4, <3>1, <3>2 DEF onDisk, LeavesNone
    <3>3. CASE k \notin aside
      <4>1. PICK f \in DOMAIN inPlace : k = inPlace[f]
        BY <3>3 DEF onDisk
      <4>2. CASE f = folder
        <5>1. k \in aside'
          BY <1>4, <3>1, <4>1, <4>2 DEF LeavesNone, setsAside
        <5> QED
          BY <3>1, <5>1 DEF onDisk
      <4>3. CASE f # folder
        <5>1. f \in DOMAIN inPlace' /\ inPlace'[f] = k
          BY <1>4, <4>1, <4>3 DEF LeavesNone, replacedBy
        <5> QED
          BY <3>1, <5>1 DEF onDisk
      <4> QED
        BY <4>2, <4>3
    <3> QED
      BY <3>2, <3>3
  <2> QED
    BY <1>4, <2>1 DEF LeavesNone, CoverInv, NothingIsLost, IncludeOK
<1>5. CASE LeavesAlone
  BY <1>5 DEF LeavesAlone, CoverInv, NothingIsLost, onDisk
<1> QED
  BY <1>1, <1>3, <1>4, <1>5, Steps

\* Of whatever is typed, installed and found on the server during the day, nothing a
\* run brought back is lost, as long as the editions of the corpus agree on the
\* scripts that QUERY_STORE_DB_INCLUDE narrows.
THEOREM LosesNothing ==
  ASSUME NarrowingIsFixed
  PROVE  Spec => []NothingIsLost
<1>1. Init => CoverInv
  BY DEF Init, CoverInv, NothingIsLost
<1>2. IInv /\ CoverInv /\ [Next]_vars => CoverInv'
  BY CoverStep
<1>3. CoverInv => NothingIsLost
  BY DEF CoverInv
<1> QED
  BY <1>1, <1>2, <1>3, Inductive, PTL DEF Spec

---------------------------------------------------------------------------
(* Each loss is named once *)

NamesOnce(losses) ==
  \A l \in losses : l.kind = "collector" =>
    /\ Loss("database", l.what.target) \notin losses
    /\ l.reason.why = "optIn" => Loss("option", l.reason.what) \notin losses
    /\ l.reason.why = "optOut" => Loss("optOut", l.reason.what) \notin losses
    /\ l.reason.why = "profile" => Loss("profile", l.reason.what) \notin losses
    /\ l.reason.why \notin {"queryStoreInclude", "dropped"}

\* Which losses of which kind a comparison may name.
LEMMA LossesByKind ==
  ASSUME NEW p, NEW m, NEW l \in scopeLost(p, m)
  PROVE  /\ l.kind = "collector" => l \in collectorsLost(p, m, goneFrom(p, m))
         /\ l.kind = "database" => \E d \in goneFrom(p, m) : l = Loss("database", d)
         /\ l.kind = "option" => \E f \in p.on \ m.on : l = Loss("option", f)
         /\ l.kind = "optOut" => \E f \in m.on \ p.on : l = Loss("optOut", f)
         /\ l.kind = "profile" => p.profile # m.profile
<1>1. CASE l \in optionsLost(p, m)
  BY <1>1 DEF optionsLost, Loss
<1>2. CASE l \in settingsLost(p, m)
  <2>1. l \in {Loss("queryStoreInclude", None), Loss("top", None),
               Loss("window", None), Loss("compareAt", None)}
    BY <1>2 DEF settingsLost
  <2> QED
    BY <2>1 DEF Loss
<1>3. CASE l \in {Loss("database", d) : d \in goneFrom(p, m)}
  BY <1>3 DEF Loss
<1>4. CASE l \in collectorsLost(p, m, goneFrom(p, m))
  <2>1. l.kind = "collector"
    BY <1>4 DEF collectorsLost
  <2> QED
    BY <1>4, <2>1
<1> QED
  BY <1>1, <1>2, <1>3, <1>4 DEF scopeLost

\* A collector is named only for a loss that nothing else names.
LEMMA ComparisonNamesOnce ==
  ASSUME NEW p, NEW m, p.readable => Sound(p), Sound(m)
  PROVE  NamesOnce(previousRunLost(p, m))
<1>1. CASE ~p.readable
  BY <1>1 DEF previousRunLost, NamesOnce, Loss
<1>2. CASE p.readable /\ otherServer(p, m)
  BY <1>2 DEF previousRunLost, NamesOnce, Loss
<1>3. CASE p.readable /\ ~otherServer(p, m)
  <2> DEFINE gone == goneFrom(p, m)
             losses == scopeLost(p, m)
  <2>1. SUFFICES ASSUME NEW l \in losses, l.kind = "collector"
                 PROVE  /\ Loss("database", l.what.target) \notin losses
                        /\ l.reason.why = "optIn" => Loss("option", l.reason.what) \notin losses
                        /\ l.reason.why = "optOut" => Loss("optOut", l.reason.what) \notin losses
                        /\ l.reason.why = "profile" => Loss("profile", l.reason.what) \notin losses
                        /\ l.reason.why \notin {"queryStoreInclude", "dropped"}
    BY <1>3 DEF previousRunLost, NamesOnce
  <2>2. PICK u \in unmatched(p, m, gone) :
          /\ l = [kind |-> "collector", what |-> u, reason |-> skipOf(u, m)]
          /\ skipOf(u, m) = NoSkip \/ (u \in p.results /\ skipLoses(skipOf(u, m), p, m))
    <3>1. l \in collectorsLost(p, m, gone)
      BY <2>1, LossesByKind
    <3> HIDE DEF gone
    <3>2. PICK u \in {v \in unmatched(p, m, gone) :
                       \/ skipOf(v, m) = NoSkip
                       \/ v \in p.results /\ skipLoses(skipOf(v, m), p, m)} :
            l = [kind |-> "collector", what |-> u, reason |-> skipOf(u, m)]
      BY <3>1 DEF collectorsLost
    <3>3. u \in unmatched(p, m, gone)
      BY <3>2
    <3>4. skipOf(u, m) = NoSkip \/ (u \in p.results /\ skipLoses(skipOf(u, m), p, m))
      BY <3>2
    <3> QED
      BY <3>2, <3>3, <3>4
  <2> DEFINE r == skipOf(u, m)
  <2>3. l.what = u /\ l.reason = r
    BY <2>2
  <2>4. \A d : Loss("database", d) \in losses => d \in gone
    <3>1. \A d : Loss("database", d).kind = "database" /\ Loss("database", d).what = d
      BY DEF Loss
    <3> QED
      BY <3>1, LossesByKind
  <2>5. \A f : Loss("option", f) \in losses => f \in p.on \ m.on
    <3>1. \A f : Loss("option", f).kind = "option" /\ Loss("option", f).what = f
      BY DEF Loss
    <3> QED
      BY <3>1, LossesByKind
  <2>6. \A f : Loss("optOut", f) \in losses => f \in m.on \ p.on
    <3>1. \A f : Loss("optOut", f).kind = "optOut" /\ Loss("optOut", f).what = f
      BY DEF Loss
    <3> QED
      BY <3>1, LossesByKind
  <2>7. \A f : Loss("profile", f) \in losses => p.profile # m.profile
    <3>1. \A f : Loss("profile", f).kind = "profile"
      BY DEF Loss
    <3> QED
      BY <3>1, LossesByKind
  <2>8. u.target \notin gone
    BY <2>2 DEF unmatched
  <2>9. CASE r = NoSkip
    <3>1. r.why = "none"
      BY <2>9 DEF NoSkip, Reason
    <3> HIDE DEF r, losses, gone
    <3> QED
      BY <2>3, <2>4, <2>8, <3>1
  <2>10. CASE r # NoSkip
    <3>1. u \in p.results /\ skipLoses(r, p, m)
      BY <2>2, <2>10
    <3>2. PICK v \in {u, wholeScript(u)} : v \in DOMAIN m.skipped /\ r = m.skipped[v]
      BY <2>10 DEF skipOf
    <3>3. /\ r.why = "profile" => r = Reason("profile", m.profile)
          /\ r.why = "dropped" => v.target \in Databases
      BY <3>2 DEF Sound, ReasonsOK, SkipsOK
    <3>4. r.why # "dropped"
      <4>1. SUFFICES ASSUME r.why = "dropped" PROVE FALSE
        OBVIOUS
      <4>2. v = u /\ u.target \in droppedDuring(m)
        BY <3>2, <3>3, <4>1, PlanningAssumption DEF wholeScript, unit, droppedDuring
      <4>3. u.target \in p.databases
        BY <1>3, <3>1, <3>3, <4>1, <4>2, PlanningAssumption DEF Sound, AccountOK
      <4> QED
        BY <2>8, <4>2, <4>3 DEF goneFrom
    <3> HIDE DEF r, losses, gone
    <3>5. r.why # "queryStoreInclude"
      BY <3>1 DEF skipLoses, Reason
    <3>6. r.why = "optIn" => ~(r.what \in p.on /\ r.what \notin m.on)
      BY <3>1 DEF skipLoses, Reason
    <3>7. r.why = "optOut" => ~(r.what \notin p.on /\ r.what \in m.on)
      BY <3>1 DEF skipLoses, Reason
    <3>8. r.why = "profile" => p.profile = m.profile
      <4>1. SUFFICES ASSUME r.why = "profile" PROVE p.profile = m.profile
        OBVIOUS
      <4> QED
        BY <3>1, <3>3, <4>1 DEF skipLoses, Reason
    <3> QED
      BY <2>3, <2>4, <2>5, <2>6, <2>7, <2>8, <3>4, <3>5, <3>6, <3>7, <3>8
  <2> QED
    BY <2>9, <2>10
<1> QED
  BY <1>1, <1>2, <1>3

\* The losses a step announces are those of one comparison, if it makes one.
LEMMA NamesStep == IInv /\ NamedOnce /\ [Next]_vars => NamedOnce'
<1> SUFFICES ASSUME IInv, NamedOnce, [Next]_vars
             PROVE  NamedOnce'
  OBVIOUS
<1>1. TypeOK /\ \A m \in brought : Sound(m)
  BY DEF IInv
<1>2. ASSUME lost' = lost \/ lost' = {} PROVE NamedOnce'
  BY <1>2 DEF NamedOnce
<1>3. ASSUME NEW m, MayWrite(m), completes(m) PROVE NamedOnce'
  <2>1. CASE folder \notin DOMAIN inPlace
    BY <1>2, <1>3, <2>1 DEF completes
  <2>2. CASE folder \in DOMAIN inPlace
    <3>1. lost' = previousRunLost(inPlace[folder], m)
      BY <1>3, <2>2 DEF completes
    <3>2. inPlace[folder] \in brought \cup {Unreadable}
      BY <1>1, <2>2 DEF TypeOK
    <3>3. inPlace[folder].readable => Sound(inPlace[folder])
      BY <1>1, <3>2 DEF Unreadable
    <3>4. NamesOnce(lost')
      BY <1>1, <1>3, <3>1, <3>3, ManifestIsSound, ComparisonNamesOnce
    <3> QED
      BY <3>4 DEF NamesOnce, NamedOnce
  <2> QED
    BY <2>1, <2>2
<1>4. CASE Next
  <2>1. CASE CollectsAll
    <3>1. PICK m : MayWrite(m) /\ completes(m)
      BY <1>1, <2>1, WholePlan DEF CollectsAll
    <3> QED
      BY <1>3, <3>1
  <2>2. CASE CollectsAsDropped
    <3>1. PICK d \in Databases : \E missed \in SUBSET {u \in planned : u.target = d} \ {{}} :
            completes(manifestOf(planned \ missed, {}, missed))
      BY <2>2 DEF CollectsAsDropped
    <3>2. PICK missed \in SUBSET {u \in planned : u.target = d} \ {{}} :
            completes(manifestOf(planned \ missed, {}, missed))
      BY <3>1
    <3>3. missed \in SUBSET planned /\ \A u \in missed : u.target \in Databases
      BY <3>2
    <3> QED
      BY <1>3, <3>2, <3>3, PlanButDropped
  <2>3. CASE CollectsPart \/ Dies
    BY <1>2, <2>3 DEF CollectsPart, Dies
  <2>4. CASE Between
    BY <1>2, <2>4 DEF Between, TypesAnother, InstallsAnother, ServerChanges, ConnectsElsewhere,
                      Tick, disk
  <2> QED
    BY <1>4, <2>1, <2>2, <2>3, <2>4 DEF Next, Collects
<1>5. CASE UNCHANGED vars
  BY <1>2, <1>5 DEF vars, disk
<1> QED
  BY <1>4, <1>5

\* Whatever two runs are compared, no collector is named for a loss that is named as
\* a database, an option, a profile or a pattern.
THEOREM LossesNamedOnce == Spec => []NamedOnce
<1>1. Init => NamedOnce
  BY DEF Init, NamedOnce
<1> QED
  BY <1>1, NamesStep, Inductive, PTL DEF Spec

---------------------------------------------------------------------------
(* A rerun replaces *)

\* Manifest k is of a whole run of command c at hour n.
WholeRunOf(k, t, c, q, v, n) ==
  /\ k.readable /\ k.target = t
  /\ k.profile = c.profile /\ k.on = c.on /\ k.qsInclude = c.qsInclude
  /\ k.top = c.top /\ k.compareAt = c.compareAt /\ k.window = resolveWindow(c.window, n)
  /\ k.databases = SelectTargets(WideningPurposes(q, c, v), c, v)
  /\ k.results = planUnits(q, c, v) /\ k.errors = {}
  /\ \A u \in DOMAIN k.skipped : k.skipped[u].why # "dropped"

\* When nothing was edited since, the run in the folder is of the command to come.
SameInv ==
  unchanged =>
    /\ folder \in DOMAIN inPlace
    /\ \E n \in 0..now : WholeRunOf(inPlace[folder], target, command, corpus, server, n)

\* A window is never shorter for being resolved later.
LEMMA LaterWindow ==
  ASSUME NEW c \in CommandLines, NEW n \in Nat, NEW h \in Nat, n <= h
  PROVE  ~windowLost(resolveWindow(c.window, n), resolveWindow(c.window, h))
<1> DEFINE w == c.window
<1>1. /\ w.days \in Nat /\ w.from \in Int \cup {None} /\ w.to \in Int \cup {None}
  BY CommandAssumption
<1>2. SUFFICES (resolves(w, n) /\ typed(w)) =>
                 /\ resolves(w, h) /\ windowFrom(w, h) <= windowFrom(w, n)
                 /\ windowTo(w, h) >= windowTo(w, n)
  <2>1. /\ windowFrom(w, n) \in Int /\ windowFrom(w, h) \in Int
        /\ windowTo(w, n) \in Int /\ windowTo(w, h) \in Int
    BY Windows DEF resolveWindow
  <2> DEFINE p == resolveWindow(w, n)
             m == resolveWindow(w, h)
  <2>2. /\ p.resolved = resolves(w, n) /\ p.sliding = ~typed(w) /\ p.days = w.days
        /\ p.from = windowFrom(w, n) /\ p.to = windowTo(w, n)
        /\ m.resolved = resolves(w, h) /\ m.sliding = ~typed(w) /\ m.days = w.days
        /\ m.from = windowFrom(w, h) /\ m.to = windowTo(w, h)
    BY DEF resolveWindow
  <2> HIDE DEF p, m, w
  <2>3. ~windowLost(p, m)
    <3>1. CASE ~typed(w)
      <4>1. p.sliding /\ m.sliding
        BY <2>2, <3>1, Zenon
      <4>2. ~countLost(p.days, m.days)
        BY <1>1, <2>2 DEF countLost
      <4> QED
        BY <4>1, <4>2 DEF windowLost
    <3>2. CASE typed(w) /\ resolves(w, n)
      <4>1. /\ resolves(w, h) /\ windowFrom(w, h) <= windowFrom(w, n)
            /\ windowTo(w, h) >= windowTo(w, n)
        BY <3>2, <1>2 DEF w
      <4>2. ~p.sliding /\ m.resolved
        BY <2>2, <3>2, <4>1, Zenon
      <4>3. ~(m.from > p.from) /\ ~(m.to < p.to)
        BY <2>1, <2>2, <4>1 DEF w
      <4> QED
        BY <4>2, <4>3 DEF windowLost
    <3>3. CASE ~resolves(w, n)
      BY <2>2, <3>3 DEF windowLost
    <3> QED
      BY <3>1, <3>2, <3>3
  <2> QED
    BY <2>3 DEF p, m, w
<1> HIDE DEF w
<1>a. SUFFICES ASSUME resolves(w, n), typed(w)
               PROVE  /\ resolves(w, h) /\ windowFrom(w, h) <= windowFrom(w, n)
                      /\ windowTo(w, h) >= windowTo(w, n)
  OBVIOUS
<1>3. w.days = 0 /\ windowFrom(w, n) < windowTo(w, n) /\ windowTo(w, n) <= n
  BY <1>1, <1>a DEF resolves
<1>4. CASE w.to = None
  <2>1. windowTo(w, n) = n /\ windowTo(w, h) = h /\ w.from # None
    BY <1>a, <1>3, <1>4 DEF windowTo, typed
  <2>2. windowFrom(w, n) = w.from /\ windowFrom(w, h) = w.from
    BY <1>3, <2>1 DEF windowFrom
  <2> QED
    BY <1>1, <1>3, <2>1, <2>2 DEF resolves
<1>5. CASE w.to # None
  <2>1. windowTo(w, n) = w.to /\ windowTo(w, h) = w.to
    BY <1>3, <1>5 DEF windowTo
  <2>2. windowFrom(w, n) = windowFrom(w, h)
    BY <1>3, <2>1 DEF windowFrom
  <2>3. windowFrom(w, h) \in Int
    <3>1. DefaultQueryStoreDays * Day \in Nat
      BY PlanningAssumption
    <3> QED
      BY <1>1, <1>3, <1>5, <2>1, <3>1 DEF windowFrom
  <2> QED
    BY <1>1, <1>3, <1>5, <2>1, <2>2, <2>3 DEF resolves
<1> QED
  BY <1>4, <1>5

\* Two whole runs of one world differ in nothing that is compared.
LEMMA SameRunLosesNothing ==
  ASSUME NEW t \in Targets, NEW c \in CommandLines, NEW q, NEW v,
         NEW n \in Nat, NEW h \in Nat, n <= h, NEW k, NEW m,
         WholeRunOf(k, t, c, q, v, n), WholeRunOf(m, t, c, q, v, h)
  PROVE  previousRunLost(k, m) = {}
<1>1. ~otherServer(k, m)
  BY DEF otherServer, WholeRunOf
<1>2. optionsLost(k, m) = {}
  BY DEF optionsLost, WholeRunOf
<1>3. settingsLost(k, m) = {}
  <2>1. ~windowLost(k.window, m.window)
    BY LaterWindow DEF WholeRunOf
  <2>2. ~countLost(k.top, m.top)
    BY CommandAssumption DEF countLost, WholeRunOf
  <2> QED
    BY <2>1, <2>2 DEF settingsLost, WholeRunOf
<1>4. goneFrom(k, m) = {}
  BY DEF goneFrom, droppedDuring, WholeRunOf
<1>5. collectorsLost(k, m, goneFrom(k, m)) = {}
  <2>1. ran(k) = ran(m)
    BY DEF ran, WholeRunOf
  <2>2. unmatched(k, m, goneFrom(k, m)) = {}
    BY <2>1 DEF unmatched
  <2> QED
    BY <2>2 DEF collectorsLost
<1>6. scopeLost(k, m) = {}
  BY <1>2, <1>3, <1>4, <1>5 DEF scopeLost
<1> QED
  BY <1>1, <1>6 DEF previousRunLost, WholeRunOf

\* What CollectsAll writes is a whole run of the world as it is.
LEMMA WritesWholeRun ==
  ASSUME TypeOK
  PROVE  WholeRunOf(manifestOf(planned, {}, {}), target, command, corpus, server, now)
<1> DEFINE m == manifestOf(planned, {}, {})
<1>1. /\ m.readable /\ m.target = target
      /\ m.profile = command.profile /\ m.on = command.on /\ m.qsInclude = command.qsInclude
      /\ m.top = command.top /\ m.compareAt = command.compareAt
      /\ m.window = resolveWindow(command.window, now)
      /\ m.databases = SelectTargets(WideningPurposes(corpus, command, server), command, server)
      /\ m.results = planUnits(corpus, command, server) /\ m.errors = {}
  BY DEF manifestOf, planned
<1>2. \A u \in DOMAIN m.skipped : m.skipped[u].why # "dropped"
  <2> DEFINE skips == planSkips(corpus, command, server)
  <2>1. DOMAIN m.skipped = DOMAIN skips /\ \A u \in DOMAIN skips : m.skipped[u] = skips[u]
    BY DEF manifestOf
  <2>2. \A u \in DOMAIN skips : skips[u].why # "dropped"
    BY PlanSkips DEF TypeOK
  <2> HIDE DEF m, skips
  <2> QED
    BY <2>1, <2>2
<1> HIDE DEF m
<1>3. WholeRunOf(m, target, command, corpus, server, now)
  BY <1>1, <1>2 DEF WholeRunOf
<1> QED
  BY <1>3 DEF m

\* Every step keeps SameInv.
LEMMA SameStep == TypeOK /\ SameInv /\ [Next]_vars => SameInv'
<1> SUFFICES ASSUME TypeOK, SameInv, [Next]_vars, unchanged'
             PROVE  /\ folder' \in DOMAIN inPlace'
                    /\ \E n \in 0..now' :
                         WholeRunOf(inPlace'[folder'], target', command', corpus', server', n)
  BY DEF SameInv, WholeRunOf
<1>1. now \in Nat
  BY DEF TypeOK
<1>2. CASE CollectsAll
  <2>1. /\ target' = target /\ command' = command /\ corpus' = corpus /\ server' = server
        /\ now' = now /\ inPlace' = replacedBy(manifestOf(planned, {}, {}))
    BY <1>2 DEF CollectsAll, completes, world
  <2>2. folder' = folder
    BY <2>1 DEF folder
  <2>3. folder \in DOMAIN inPlace' /\ inPlace'[folder] = manifestOf(planned, {}, {})
    BY <2>1 DEF replacedBy
  <2> QED
    BY <1>1, <2>1, <2>2, <2>3, WritesWholeRun
<1>3. CASE Tick \/ UNCHANGED vars
  <2>1. /\ target' = target /\ command' = command /\ corpus' = corpus /\ server' = server
        /\ now <= now' /\ now' \in Nat /\ inPlace' = inPlace
    <3>1. CASE Tick
      BY <1>1, <3>1 DEF Tick, world, disk
    <3>2. CASE UNCHANGED vars
      BY <1>1, <3>2 DEF vars, world, disk
    <3> QED
      BY <1>3, <3>1, <3>2
  <2>2. folder' = folder
    BY <2>1 DEF folder
  <2>3. unchanged' = unchanged
    BY <1>3, Zenon DEF Tick, vars
  <2>4. unchanged
    BY <2>3, Zenon
  <2> QED
    BY <1>1, <2>1, <2>2, <2>4 DEF SameInv
<1>4. CASE CollectsAsDropped \/ CollectsPart \/ Dies
  BY <1>4 DEF CollectsAsDropped, CollectsPart, Dies
<1>5. CASE TypesAnother \/ InstallsAnother \/ ServerChanges \/ ConnectsElsewhere
  BY <1>5 DEF TypesAnother, InstallsAnother, ServerChanges, ConnectsElsewhere, edited
<1> QED
  BY <1>2, <1>3, <1>4, <1>5 DEF Next, Collects, Between

\* A plain rerun, at any later hour, keeps no copy of the run it repeats.
THEOREM PlainRerunReplaces == Spec => RerunReplaces
<1>1. Init => SameInv
  BY DEF Init, SameInv
<1>2. TypeOK /\ SameInv /\ [Next]_vars => SameInv'
  BY SameStep
<1>3. ASSUME TypeOK, SameInv, unchanged, CollectsAll
      PROVE  aside' = aside
  <2> DEFINE m == manifestOf(planned, {}, {})
  <2>1. completes(m)
    BY <1>3 DEF CollectsAll
  <2>2. PICK n \in 0..now : WholeRunOf(inPlace[folder], target, command, corpus, server, n)
    BY <1>3 DEF SameInv
  <2>3. WholeRunOf(m, target, command, corpus, server, now)
    BY <1>3, WritesWholeRun
  <2>4. now \in Nat /\ target \in Targets /\ command \in CommandLines
    BY <1>3 DEF TypeOK
  <2> HIDE DEF m
  <2>5. previousRunLost(inPlace[folder], m) = {}
    BY <2>2, <2>3, <2>4, SameRunLosesNothing
  <2>6. lost' = {}
    BY <1>3, <2>1, <2>5 DEF completes, SameInv
  <2> QED
    BY <2>1, <2>6 DEF completes
<1>4. TypeOK /\ SameInv => [unchanged /\ CollectsAll => aside' = aside]_vars
  BY <1>3
<1> QED
  BY <1>1, <1>2, <1>4, TypeCorrect, PTL DEF Spec, RerunReplaces
=============================================================================
