------------------------------ MODULE Planning ------------------------------
(***************************************************************************)
(* What a run sets out to collect: the profile, the options and the login  *)
(* decide which scripts of the corpus run (planScripts), the patterns and  *)
(* the state of the databases which databases are read (SelectTargets),    *)
(* and both the list of units (planUnits).  The Query Store's window is    *)
(* resolved here too (resolveWindow).                                      *)
(*                                                                         *)
(* A list of patterns is the set of the names it matches; None in it       *)
(* stands for a pattern that matches no database, so that a list is empty  *)
(* only when none was given.                                               *)
(***************************************************************************)
EXTENDS Integers, FiniteSets

CONSTANTS
  None,         \* no flag, no profile, no target, no bound: the empty string
  Scripts,      \* the names a corpus may hold
  Databases,
  SystemDatabases, Published, Distributors,   \* what the server says of them
  OptIns,       \* the flags of @requires_flag, KnownFlags and ValueFlags
  OptOuts,      \* the flags of @skipped_by_flag
  WindowReaders,\* the two opt-ins whose collectors read the window
  Day, DefaultQueryStoreDays

ASSUME PlanningAssumption ==
  /\ None \notin Scripts \cup Databases \cup OptIns \cup OptOuts
  /\ SystemDatabases \subseteq Databases
  /\ Published \subseteq Databases /\ Distributors \subseteq Databases
  /\ WindowReaders \subseteq OptIns
  /\ OptIns \cap OptOuts = {}
  /\ Day \in Nat \ {0} /\ DefaultQueryStoreDays \in Nat \ {0}

\* A collector on one target: None for an instance-scope collector, and for a
\* skip that covers every target.
unit(s, d) == [script |-> s, target |-> d]

---------------------------------------------------------------------------
(* planScripts *)

inProfile(script, profile) == profile = None \/ profile \in script.profiles

\* A version that could not be read is no evidence of anything.
Unknown == 0
NoCeiling == 0
tooOld(script, server) == server.version # Unknown /\ server.version < script.minVersion
tooNew(script, server) ==
  /\ server.version # Unknown /\ script.maxVersion # NoCeiling
  /\ server.version >= script.maxVersion

Reason(why, what) == [why |-> why, what |-> what]
NoSkip == Reason("none", None)

\* The first gate that keeps a script from running, most actionable first.
skipReason(script, command, server) ==
  IF ~inProfile(script, command.profile) THEN Reason("profile", command.profile)
  ELSE IF script.requires # None /\ script.requires \notin command.on
    THEN Reason("optIn", script.requires)
  ELSE IF script.skippedBy # None /\ script.skippedBy \in command.on
    THEN Reason("optOut", script.skippedBy)
  ELSE IF tooOld(script, server) \/ tooNew(script, server) THEN Reason("version", None)
  ELSE IF script.permissions \cap server.denied # {} THEN Reason("permission", None)
  ELSE NoSkip

lintErrors(corpus) == {s \in DOMAIN corpus : corpus[s].lint}
gated(corpus, command, server) ==
  {s \in DOMAIN corpus \ lintErrors(corpus) : skipReason(corpus[s], command, server) # NoSkip}
runnable(corpus, command, server) ==
  DOMAIN corpus \ (lintErrors(corpus) \cup gated(corpus, command, server))

WideningPurposes(corpus, command, server) ==
  {corpus[s].widened : s \in runnable(corpus, command, server)}

---------------------------------------------------------------------------
(* SelectTargets *)

\* A database that is online, no snapshot, not in single-user mode, and that the
\* login can enter.
readable(command, server) ==
  {d \in Databases : server.state[d] = "open" /\ d \notin command.dbExclude}

firstPass(command, server) ==
  {d \in readable(command, server) \ SystemDatabases :
     command.dbInclude = {} \/ d \in command.dbInclude}

widenSystem(purposes, command, server) ==
  IF "system_databases" \in purposes
    THEN readable(command, server) \cap SystemDatabases ELSE {}

\* The distributor comes back when a published database is still there.
widenReplication(purposes, command, server) ==
  LET included == firstPass(command, server) \cup widenSystem(purposes, command, server)
  IN  IF "replication" \in purposes /\ Published \cap included # {}
        THEN (readable(command, server) \cap Distributors) \ included ELSE {}

SelectTargets(purposes, command, server) ==
  firstPass(command, server)
    \cup widenSystem(purposes, command, server)
    \cup widenReplication(purposes, command, server)

eligibleFolders_anyReadable(widened, purposes, command, server) == readable(command, server)
\* A database widened in is offered only to the scripts it was widened for.
eligibleFolders(widened, purposes, command, server) ==
  firstPass(command, server)
    \cup (IF widened = "system_databases"
            THEN widenSystem(purposes, command, server) ELSE {})
    \cup (IF widened = "replication"
            THEN widenReplication(purposes, command, server) ELSE {})

---------------------------------------------------------------------------
(* planUnits *)

\* QUERY_STORE_DB_INCLUDE narrows a script with a writer, or the comparison's.
narrows_evenUnset(script, command, d) == script.narrowed /\ d \notin command.qsInclude
narrows(script, command, d) ==
  script.narrowed /\ command.qsInclude # {} /\ d \notin command.qsInclude

offered(corpus, command, server, s) ==
  IF corpus[s].perDatabase
    THEN eligibleFolders(corpus[s].widened, WideningPurposes(corpus, command, server),
                         command, server)
    ELSE {None}

unfolded(corpus, command, server) ==
  UNION {{unit(s, d) : d \in offered(corpus, command, server, s)} :
           s \in runnable(corpus, command, server)}

queryStoreSkips(corpus, command, server) ==
  {u \in unfolded(corpus, command, server) :
     u.target # None /\ narrows(corpus[u.script], command, u.target)}

planUnits(corpus, command, server) ==
  unfolded(corpus, command, server) \ queryStoreSkips(corpus, command, server)

\* The skips of the plan, with the reason of each.
planSkips(corpus, command, server) ==
  [u \in {unit(s, None) : s \in gated(corpus, command, server)}
           \cup queryStoreSkips(corpus, command, server) |->
     IF u.target = None THEN skipReason(corpus[u.script], command, server)
     ELSE Reason("queryStoreInclude", None)]

---------------------------------------------------------------------------
(* resolveWindow: instants are hours *)

typed(w) == w.from # None \/ w.to # None

windowTo(w, now) == IF w.days > 0 \/ w.to = None THEN now ELSE w.to
windowFrom(w, now) ==
  IF w.days > 0 THEN now - w.days * Day
  ELSE IF w.from # None THEN w.from
  ELSE windowTo(w, now) - DefaultQueryStoreDays * Day

\* QUERY_STORE_DAYS typed beside a bound, an empty window, and one that ends in
\* the future are refused.
resolves(w, now) ==
  /\ ~(w.days > 0 /\ typed(w))
  /\ windowFrom(w, now) < windowTo(w, now)
  /\ windowTo(w, now) <= now

\* windowForRun: a refusal is fatal only to a run that reads the window.
windowRefused(command, now) ==
  ~resolves(command.window, now) /\ WindowReaders \cap command.on # {}

resolveWindow(w, now) ==
  [resolved |-> resolves(w, now), sliding |-> ~typed(w), days |-> w.days,
   from |-> windowFrom(w, now), to |-> windowTo(w, now)]

=============================================================================
