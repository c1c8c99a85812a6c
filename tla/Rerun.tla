------------------------------- MODULE Rerun -------------------------------
(***************************************************************************)
(* The runs of one day, and which of them are deleted: a run that          *)
(* completes replaces the one of the same name when previousRunLost        *)
(* (collect/collect.go) finds nothing that run had and this one lacks, and *)
(* otherwise leaves it aside.  Between two runs the command line, the      *)
(* corpus, the server and the target may all have changed.                 *)
(*                                                                         *)
(* How the two runs are moved about on the disk is RunFolder's business,   *)
(* and how a run comes to be partial RunLoop's; here a run is one step.    *)
(***************************************************************************)
EXTENDS Planning

CONSTANTS
  Targets,       \* what the operator may connect to
  Name,          \* the name the server of a target gives itself, None if none
  AddressName,   \* the folder name made of a target's address and database
  Place,         \* the address and database the manifest records, None if withheld
  Permissions,   \* those the pre-flight asks the login for
  CommandLines, Corpora, Servers,   \* what may be typed, installed, found there
  MaxRuns, MaxEvents, MaxHour   \* bounds on the day: an event is an edit or a mishap

\* Two targets that could be taken for each other differ in what the manifest
\* records of them; what may be typed is what the configuration accepts.
ASSUME TargetsAssumption ==
  \A t, u \in Targets :
    Name[t] = Name[u] /\ (Place[t] = Place[u] \/ None \in {Place[t], Place[u]}) => t = u

ASSUME CommandAssumption ==
  \A c \in CommandLines :
    /\ c.on \subseteq OptIns \cup OptOuts /\ c.top \in Nat
    /\ c.qsInclude \subseteq Databases \cup {None}
    /\ c.window.days \in Nat
    /\ c.window.from \in Int \cup {None} /\ c.window.to \in Int \cup {None}
    /\ typed(c.window) \/ c.window.days > 0

ASSUME CorpusAssumption ==
  \A c \in Corpora :
    /\ DOMAIN c \subseteq Scripts
    /\ \A s \in DOMAIN c : c[s].requires \in OptIns \cup {None}
                       /\ c[s].skippedBy \in OptOuts \cup {None}

ServerStates ==
  [version : Nat, denied : SUBSET Permissions, state : [Databases -> {"open", "shut", "gone"}]]
ASSUME WorldAssumption ==
  /\ Servers \subseteq ServerStates
  /\ MaxRuns \in Nat /\ MaxEvents \in Nat /\ MaxHour \in Nat

VARIABLES
  command, corpus, server, target,   \* of the next run
  now,
  inPlace,   \* by folder: the manifest of the run that is there
  aside,     \* the manifests of the runs kept under a .superseded name
  lost,      \* what the last comparison found the replaced run had alone
  \* history
  brought,   \* the manifest of every run that wrote one
  unchanged, \* nothing was edited since the last run, which was whole
  runs, events

world == <<command, corpus, server, target>>
disk == <<inPlace, aside, lost, brought>>
vars == <<world, now, disk, unchanged, runs, events>>

---------------------------------------------------------------------------
(* Manifests *)

RunServerName(t) == IF Name[t] # None THEN Name[t] ELSE AddressName[t]
RunFolderName(t, profile) == <<RunServerName(t), profile>>

\* A folder whose run died before it wrote a manifest.
Unreadable == [readable |-> FALSE]

\* The manifest of a run of the world as it is: what is planned comes with what
\* ran to a result or to an error, and what was skipped on the way.
manifestOf(results, errors, skippedOnTheWay) ==
  [readable |-> TRUE, target |-> target, at |-> now,
   profile |-> command.profile, on |-> command.on,
   qsInclude |-> command.qsInclude, top |-> command.top, compareAt |-> command.compareAt,
   window |-> resolveWindow(command.window, now),
   databases |-> SelectTargets(WideningPurposes(corpus, command, server), command, server),
   results |-> results, errors |-> errors,
   skipped |-> LET skips == planSkips(corpus, command, server)
               IN  [u \in DOMAIN skips \cup skippedOnTheWay |->
                      IF u \in skippedOnTheWay THEN Reason("dropped", None) ELSE skips[u]]]

onDisk == (aside \cup {inPlace[f] : f \in DOMAIN inPlace}) \ {Unreadable}

---------------------------------------------------------------------------
(* otherServer *)

otherServer(prev, cur) ==
  \/ Name[prev.target] # Name[cur.target]
  \/ /\ Place[prev.target] # None /\ Place[cur.target] # None
     /\ Place[prev.target] # Place[cur.target]

---------------------------------------------------------------------------
(* settingsLost *)

countLost(prev, cur) == cur < prev

\* Two sliding windows are compared by their length.
windowLost_byInstants(prev, cur) ==
  prev.resolved /\ (~cur.resolved \/ cur.from > prev.from \/ cur.to < prev.to)
windowLost(prev, cur) ==
  /\ prev.resolved
  /\ IF prev.sliding /\ cur.sliding THEN countLost(prev.days, cur.days)
     ELSE ~cur.resolved \/ cur.from > prev.from \/ cur.to < prev.to

Loss(kind, what) == [kind |-> kind, what |-> what, reason |-> NoSkip]

settingsLost(prev, cur) ==
     (IF cur.qsInclude # {} /\ prev.qsInclude # cur.qsInclude
        THEN {Loss("queryStoreInclude", None)} ELSE {})
  \cup (IF countLost(prev.top, cur.top) THEN {Loss("top", None)} ELSE {})
  \cup (IF windowLost(prev.window, cur.window) THEN {Loss("window", None)} ELSE {})
  \cup (IF prev.compareAt # None /\ cur.compareAt # prev.compareAt
          THEN {Loss("compareAt", None)} ELSE {})

---------------------------------------------------------------------------
(* collectorsLost *)

\* A skip of a unit the previous run had a result for loses that result, unless
\* the narrowing behind it is named already.
skipLoses_never(reason, prev, cur) == FALSE
skipLoses_always(reason, prev, cur) == TRUE
skipLoses(reason, prev, cur) ==
  CASE reason = Reason("profile", cur.profile) -> prev.profile = cur.profile
    [] reason.why = "queryStoreInclude" -> FALSE
    [] reason.why = "optIn" -> ~(reason.what \in prev.on /\ reason.what \notin cur.on)
    [] reason.why = "optOut" -> ~(reason.what \notin prev.on /\ reason.what \in cur.on)
    [] OTHER -> TRUE

ran(m) == m.results \cup m.errors
wholeScript(u) == unit(u.script, None)

\* The reason a unit was skipped, for its own target or for every one.
skipOf(u, m) ==
  IF u \in DOMAIN m.skipped THEN m.skipped[u]
  ELSE IF wholeScript(u) \in DOMAIN m.skipped THEN m.skipped[wholeScript(u)]
  ELSE NoSkip

\* A unit of prev's that cur neither ran nor named the loss of.
unmatched(prev, cur, gone) ==
  {u \in ran(prev) : u \notin ran(cur) /\ wholeScript(u) \notin ran(cur) /\ u.target \notin gone}

collectorsLost(prev, cur, gone) ==
  {[kind |-> "collector", what |-> u, reason |-> skipOf(u, cur)] :
     u \in {v \in unmatched(prev, cur, gone) :
              \/ skipOf(v, cur) = NoSkip
              \/ v \in prev.results /\ skipLoses(skipOf(v, cur), prev, cur)}}

---------------------------------------------------------------------------
(* scopeLost, previousRunLost *)

optionsLost(prev, cur) ==
     {Loss("option", f) : f \in (prev.on \ cur.on) \cap OptIns}
  \cup {Loss("optOut", f) : f \in (cur.on \ prev.on) \cap OptOuts}
  \cup (IF cur.profile # None /\ prev.profile # cur.profile
          THEN {Loss("profile", cur.profile)} ELSE {})

\* The databases prev read and cur did not, or saw dropped.
droppedDuring(m) == {u.target : u \in {v \in DOMAIN m.skipped : m.skipped[v].why = "dropped"}}
goneFrom(prev, cur) == prev.databases \cap ((prev.databases \ cur.databases) \cup droppedDuring(cur))

scopeLost(prev, cur) ==
  optionsLost(prev, cur) \cup settingsLost(prev, cur)
    \cup {Loss("database", d) : d \in goneFrom(prev, cur)}
    \cup collectorsLost(prev, cur, goneFrom(prev, cur))

\* Nothing proves that a run covers one whose manifest cannot be read, or which
\* may be another server's.
previousRunLost(prev, cur) ==
  IF ~prev.readable THEN {Loss("unreadable", None)}
  ELSE IF otherServer(prev, cur) THEN {Loss("otherServer", None)}
  ELSE scopeLost(prev, cur)

---------------------------------------------------------------------------
(* Runs *)

Init ==
  /\ command \in CommandLines /\ corpus \in Corpora /\ server \in Servers /\ target \in Targets
  /\ now = 0
  /\ inPlace = <<>> /\ aside = {} /\ lost = {}
  /\ brought = {} /\ unchanged = FALSE
  /\ runs = 0 /\ events = 0

folder == RunFolderName(target, command.profile)

\* The run that was there is set aside.
setsAside_whatever == IF folder \in DOMAIN inPlace THEN {inPlace[folder]} ELSE {}
setsAside == IF folder \in DOMAIN inPlace THEN {inPlace[folder]} \ {Unreadable} ELSE {}

replacedBy(m) == [f \in DOMAIN inPlace \cup {folder} |-> IF f = folder THEN m ELSE inPlace[f]]

begins == runs < MaxRuns /\ runs' = runs + 1 /\ ~windowRefused(command, now)

happens == events < MaxEvents /\ events' = events + 1

planned == planUnits(corpus, command, server)

\* A run that exits 0, with or without a previous one.
completes(m) ==
  /\ lost' = IF folder \in DOMAIN inPlace THEN previousRunLost(inPlace[folder], m) ELSE {}
  /\ aside' = IF lost' = {} THEN aside ELSE aside \cup setsAside
  /\ inPlace' = replacedBy(m) /\ brought' = brought \cup {m}

\* Every unit brought its result back.
CollectsAll ==
  /\ begins /\ lintErrors(corpus) = {}
  /\ completes(manifestOf(planned, {}, {}))
  /\ unchanged' = TRUE
  /\ UNCHANGED <<world, now, events>>

\* A database was dropped under the run: some of its units, and the later ones,
\* were skipped, which is no failure.
CollectsAsDropped ==
  /\ begins /\ lintErrors(corpus) = {}
  /\ happens
  /\ \E d \in Databases :
       /\ \E missed \in SUBSET {u \in planned : u.target = d} \ {{}} :
            completes(manifestOf(planned \ missed, {}, missed))
       /\ server' = [server EXCEPT !.state[d] = "gone"]
  /\ unchanged' = FALSE
  /\ UNCHANGED <<command, corpus, target, now>>

\* A unit failed, or was not run because the run was stopped, or the corpus does
\* not lint, or the archive could not be written: the run is partial, and what it
\* replaced is not even compared.
CollectsPart ==
  /\ begins
  /\ happens
  /\ \E missed \in {{u} : u \in planned} \cup {{}}, failed \in BOOLEAN :
       LET m == manifestOf(planned \ missed,
                  {unit(s, None) : s \in lintErrors(corpus)}
                    \cup (IF failed THEN missed ELSE {}), {})
       IN inPlace' = replacedBy(m) /\ brought' = brought \cup {m}
  /\ aside' = aside \cup setsAside /\ lost' = {}
  /\ unchanged' = FALSE
  /\ UNCHANGED <<world, now>>

\* The run died, and its folder has no manifest.
Dies ==
  /\ begins
  /\ happens
  /\ inPlace' = replacedBy(Unreadable) /\ aside' = aside \cup setsAside /\ lost' = {}
  /\ unchanged' = FALSE
  /\ UNCHANGED <<world, now, brought>>

Collects == CollectsAll \/ CollectsAsDropped \/ CollectsPart \/ Dies

---------------------------------------------------------------------------
(* Between two runs *)

edited == runs > 0 /\ happens /\ unchanged' = FALSE

TypesAnother ==
  /\ edited /\ command' \in CommandLines \ {command}
  /\ UNCHANGED <<corpus, server, target, now, disk, runs>>
InstallsAnother ==
  /\ edited /\ corpus' \in Corpora \ {corpus}
  /\ UNCHANGED <<command, server, target, now, disk, runs>>
ServerChanges ==
  /\ edited /\ server' \in Servers \ {server}
  /\ UNCHANGED <<command, corpus, target, now, disk, runs>>
ConnectsElsewhere ==
  /\ edited /\ target' \in Targets \ {target}
  /\ UNCHANGED <<command, corpus, server, now, disk, runs>>

Tick ==
  /\ runs > 0 /\ now < MaxHour /\ now' = now + 1
  /\ UNCHANGED <<world, disk, unchanged, runs, events>>

Between == TypesAnother \/ InstallsAnother \/ ServerChanges \/ ConnectsElsewhere \/ Tick

Next == Collects \/ Between

Spec == Init /\ [][Next]_vars

---------------------------------------------------------------------------
(* Properties *)

units == [script : Scripts, target : Databases \cup {None}]
TypeManifest(m) ==
  /\ m.readable /\ m.target \in Targets /\ m.at \in 0..now
  /\ m.on \subseteq OptIns \cup OptOuts /\ m.top \in Nat
  /\ m.window.resolved \in BOOLEAN /\ m.window.days \in Nat
  /\ m.window.from \in Int /\ m.window.to \in Int
  /\ m.databases \subseteq Databases
  /\ m.results \subseteq units /\ m.errors \subseteq units /\ DOMAIN m.skipped \subseteq units

\* The type invariant; every run on the disk is one of the day.
TypeOK ==
  /\ command \in CommandLines /\ corpus \in Corpora /\ target \in Targets
  /\ server \in ServerStates
  /\ now \in 0..MaxHour /\ runs \in 0..MaxRuns /\ events \in 0..MaxEvents
  /\ unchanged \in BOOLEAN
  /\ \A m \in brought : TypeManifest(m)
  /\ aside \subseteq brought
  /\ \A f \in DOMAIN inPlace : inPlace[f] \in brought \cup {Unreadable}

\* A manifest accounts for a unit once: what brought a result back was not
\* skipped, by itself or for every target, and is of a database the manifest
\* lists.  The plan and the selection are two passes over the same corpus, and
\* the widening of the one is asked again by the other.
OneAccount ==
  \A m \in brought : \A u \in m.results :
    /\ {u, wholeScript(u)} \cap DOMAIN m.skipped = {}
    /\ u.target \in m.databases \cup {None}

\* Every manifest of the day is well formed and accounts once for each unit.
AccountIsSound ==
  /\ TypeOK
  /\ OneAccount

\* The reason a manifest gives for a skip is true of the run, which is what
\* skipLoses relies on to tell a narrowing that is named from a loss.
ReasonsAreTrue ==
  \A m \in brought : \A u \in DOMAIN m.skipped :
    LET r == m.skipped[u]
    IN  /\ r.why = "profile" => m.profile # None /\ r.what = m.profile
        /\ r.why = "optIn" => r.what \in OptIns \ m.on
        /\ r.why = "optOut" => r.what \in OptOuts \cap m.on
        /\ r.why = "queryStoreInclude" => m.qsInclude # {} /\ u.target \notin m.qsInclude

\* Manifest k has all that manifest m has: the results, each under its own target
\* or collected for the instance; the options, the rank, the comparison; and the
\* window, up to the hours that went by between the two runs.
coversResults(k, m) ==
  \A u \in m.results : u \in k.results \/ wholeScript(u) \in k.results
coversDatabases(k, m) == m.databases \subseteq k.databases
coversOptions(k, m) ==
  /\ m.on \cap OptIns \subseteq k.on
  /\ k.on \cap OptOuts \subseteq m.on
coversSettings(k, m) ==
  /\ k.top >= m.top
  /\ m.compareAt # None => k.compareAt = m.compareAt
coversWindow(k, m) ==
  m.window.resolved =>
    /\ k.window.resolved
    /\ k.window.from <= m.window.from + (k.at - m.at) /\ k.window.to >= m.window.to
covers(k, m) ==
  /\ k.target = m.target
  /\ coversResults(k, m) /\ coversDatabases(k, m)
  /\ coversOptions(k, m) /\ coversSettings(k, m) /\ coversWindow(k, m)

\* Nothing a run of the day brought back is lost: whatever was typed, installed
\* or found on the server since, one run that is still on the disk covers it.
\* It takes the whole comparison: one narrowing that is seen by none of its parts
\* and the wider run is deleted.  The corpora may differ in everything but what
\* QUERY_STORE_DB_INCLUDE narrows (NarrowingIsFixed).
NarrowingIsFixed ==
  \A c, e \in Corpora : \A s \in DOMAIN c \cap DOMAIN e : c[s].narrowed = e[s].narrowed
NothingIsLost == \A m \in brought : \E k \in onDisk : covers(k, m)

\* The same command, run again later in the day, replaces the first run: the
\* comparison is not so careful that each rerun is kept.
RerunReplaces == [][unchanged /\ CollectsAll => aside' = aside]_vars

\* A loss is named once: no collector is named for a database that is named, nor
\* for an option, a profile or a pattern that is.
NamedOnce ==
  \A l \in lost : l.kind = "collector" =>
    /\ Loss("database", l.what.target) \notin lost
    /\ l.reason.why = "optIn" => Loss("option", l.reason.what) \notin lost
    /\ l.reason.why = "optOut" => Loss("optOut", l.reason.what) \notin lost
    /\ l.reason.why = "profile" => Loss("profile", l.reason.what) \notin lost
    /\ l.reason.why \notin {"queryStoreInclude", "dropped"}

---------------------------------------------------------------------------
(* What the sources say of the comparison and the code does not do *)

\* docs/dba-guide.md:728-731: a rerun that completes keeps the earlier run when
\* it skipped "a collector the earlier run brought results back for".
SkippedResultIsKept ==
  \A m \in brought : \A u \in m.results :
    \E k \in onDisk : k.target = m.target /\ {u, wholeScript(u)} \cap k.results # {}

=============================================================================
