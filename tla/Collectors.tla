----------------------------- MODULE Collectors -----------------------------
(***************************************************************************)
(* What a unit does with the rows it has read: the document of an ordinary *)
(* collector, or the directory of one of the six writers (collect.go:      *)
(* runUnit, discloseWrites; querystore.go, modules.go, deadlocks.go,       *)
(* blockedprocess.go, plancache.go), all through the run's writer and its  *)
(* byte budget (runfile.go).                                               *)
(*                                                                         *)
(* A writer goes through its rows: each has a reason to be left out, or is *)
(* written, or is refused by the budget, and any write may fail.  The      *)
(* index of the directory is written last, outside the budget.  The        *)
(* manifest then counts and discloses what reached the disk.               *)
(***************************************************************************)
EXTENDS Naturals, Sequences, FiniteSets, FiniteSetsExt

CONSTANTS
  Databases,   \* the targets of the per-database writers
  NoDatabase,  \* the target of an instance-scope unit
  Inputs,      \* the rows that may arrive, for each writer
  Budget,      \* maxRunBytes
  MaxUnits     \* bound: how many units the run has

Detail    == "query-store-detail"
Profiled  == "query-store-profiled"
Modules   == "object-definitions"
Deadlocks == "deadlock-graphs"
Reports   == "blocked-process-reports"
Cached    == "plan-cache-plans"
Document  == "none"                     \* no @writer: one document

PerDatabase == {Detail, Profiled, Modules}
Writers     == PerDatabase \cup {Deadlocks, Reports, Cached, Document}

\* A row as the server has it.  [held]: it holds the content; [big]: above the
\* cap on one file; [past]: its rank is past the cap on files; [odd]: a query
\* with no text, an encrypted module, a report that is not its episode's
\* longest.  [literal]: its text holds a whole plan.  [stem]: what the name becomes.
Row == [held : BOOLEAN, big : BOOLEAN, past : BOOLEAN, odd : BOOLEAN, literal : BOOLEAN,
        stem : Seq(Nat)]

ASSUME CollectorsAssumption ==
  /\ NoDatabase \notin Databases
  /\ Inputs \in [Writers -> SUBSET Seq(Row)]
  /\ \A w \in Writers : \A rows \in Inputs[w] : \A i \in DOMAIN rows : rows[i].big => rows[i].held
  /\ Budget \in Nat /\ MaxUnits \in Nat

VARIABLES
  unit,      \* the unit under way
  disk,      \* the files of its directory
  index,     \* its _index.json, as it was written
  spent,     \* runWriter.spent
  saw,       \* runWriter.sawShowplan
  selected,  \* QueryStoreState.Selected
  collected, \* Manifest.Collected
  listed,    \* the bytes of Manifest.Results
  partial,   \* Manifest.PartialUnits
  done,      \* how many units have ended
  \* history
  kinds,     \* the kinds of content that were ever on the disk, whole
  payload    \* the bytes written under the budget

runVars == <<spent, saw, selected, collected, listed, partial, done, kinds, payload>>
vars == <<unit, disk, index, runVars>>

---------------------------------------------------------------------------
(* The writers: what each does with a row.  The rest of a writer, the loop,  *)
(* the failures and the index, is the same for all and is a unit's, below.   *)

\* What the SQL sends: it nulls what is past a cap, its size beside it, and an
\* encrypted module has no definition.
present(w, row) == /\ row.held /\ ~row.big
                   /\ w \notin {Profiled, Document} => ~row.past
                   /\ w = Modules => ~row.odd

FirstOf(reasons) == IF \E k \in DOMAIN reasons : reasons[k][1]
                    THEN reasons[Min({k \in DOMAIN reasons : reasons[k][1]})][2]
                    ELSE "write"

writeQueryStoreDetail(w, row) ==
  FirstOf(<< <<row.past, "beyond">>, <<~present(w, row) /\ row.big, "too large">>,
             <<~present(w, row), "absent">> >>)

writeQueryStoreProfiled(w, row) ==
  FirstOf(<< <<~present(w, row) /\ row.big, "too large">>, <<~present(w, row), "absent">> >>)

\* Mutant: what did not arrive is what the server does not have.
writeObjectDefinitions_absentFirst(w, row) ==
  FirstOf(<< <<~present(w, row), "absent">>, <<row.odd, "encrypted">>, <<row.past, "beyond">>,
             <<row.big, "too large">> >>)

writeObjectDefinitions(w, row) ==
  FirstOf(<< <<row.odd, "encrypted">>, <<row.past, "beyond">>, <<row.big, "too large">>,
             <<~present(w, row), "absent">> >>)

writeDeadlockGraphs(w, row) ==
  FirstOf(<< <<row.past, "beyond">>, <<row.big, "too large">>, <<~present(w, row), "absent">> >>)

writePlanCachePlans(w, row) ==
  FirstOf(<< <<row.past, "beyond">>, <<row.big, "too large">>, <<~present(w, row), "not rendered">> >>)

writeBlockedProcessReports(w, row) ==
  FirstOf(<< <<row.odd, "in its episode">>, <<row.past, "beyond">>, <<row.big, "too large">>,
             <<~present(w, row), "absent">> >>)

writerFor(w, row) ==
  CASE w = Detail    -> writeQueryStoreDetail(w, row)
    [] w = Profiled  -> writeQueryStoreProfiled(w, row)
    [] w = Modules   -> writeObjectDefinitions(w, row)
    [] w = Deadlocks -> writeDeadlockGraphs(w, row)
    [] w = Cached    -> writePlanCachePlans(w, row)
    [] w = Reports   -> writeBlockedProcessReports(w, row)
    [] OTHER         -> "write"

---------------------------------------------------------------------------
(* Files *)

\* A name already handed out gets the first suffix that makes it new.
moduleFileName(stem, used) ==
  LET suffixes == {n \in 2..(Cardinality(used) + 2) : Append(stem, n) \notin used}
  IN IF stem \notin used THEN stem ELSE Append(stem, Min(suffixes))

\* The files of a row: three for a query of the detail writer, one for any other.
Parts(w) ==
  CASE w = Detail    -> <<"text", "plan", "stats">>
    [] w = Profiled  -> <<"profiled">>
    [] w = Modules   -> <<"definition">>
    [] w = Deadlocks -> <<"graph">>
    [] w = Reports   -> <<"report">>
    [] w = Cached    -> <<"cached plan">>
    [] OTHER         -> <<"document">>

\* A module's file is named after it, any other after its rank.
nameHere(u) ==
  IF u.writer = Modules THEN moduleFileName(u.rows[u.at].stem, u.used) ELSE <<u.at>>
fileName(u) == <<Parts(u.writer)[u.part], nameHere(u)>>

\* Mutant: the stems are counted, not the names handed out.
handsOut_stem(u) == u.used \cup (IF u.writer = Modules THEN {u.rows[u.at].stem} ELSE {})

\* A module's name is handed out whether its file is written or not.
handsOut(u) == u.used \cup (IF u.writer = Modules THEN {nameHere(u)} ELSE {})

Plans == {"plan", "profiled", "cached plan"}

\* What a file holds: any text of the server's may hold a whole plan, a module's
\* definition and a document among them.
Contents(u, i, part) ==
  {part} \cup (IF u.rows[i].literal /\ part \notin Plans \cup {"stats"} THEN {"plan in a text"} ELSE {})

\* Mutant: the look for a plan is for the documents of ordinary collectors.
containsShowplan_documents(contents) ==
  contents \cap Plans # {} \/ {"document", "plan in a text"} \subseteq contents

\* put looks at every payload, whoever wrote it.
containsShowplan(contents) == contents \cap (Plans \cup {"plan in a text"}) # {}

\* Bytes: an empty text has none.
Size(u, i, part) == IF part = "text" /\ u.rows[i].odd THEN 0 ELSE 1
IndexSize == 1

---------------------------------------------------------------------------
(* A unit *)

NoIndex == [there |-> FALSE, named |-> {}, omitted |-> {}, listed |-> 0]
NoUnit  == [pc |-> "none", writer |-> Document, target |-> NoDatabase, rows |-> <<>>, at |-> 1,
            part |-> 1, used |-> {}, named |-> {}, omitted |-> {}, bytes |-> 0, wrote |-> {}, err |-> FALSE,
            unsaid |-> FALSE]

Missing == [delivered |-> FALSE, ids |-> {}]
Nothing == [delivered |-> TRUE, ids |-> {}]

\* Selected is published empty before anything can fail.
publishes(w, t) == IF w = Detail THEN [selected EXCEPT ![t] = Nothing] ELSE selected

\* A guarded read reports the areas it lost; the document is written all the same.
reportedErrors(lost) == partial' = partial + (IF lost THEN 1 ELSE 0)

\* The Query Store is off: an index and nothing else.  The profiled writer has
\* nothing to match when the detail writer selected nothing.
Skips(w, t, off) == (w = Detail /\ off) \/ (w = Profiled /\ selected[t].ids = {})

Begin(w, t, rows, off, lost) ==
  /\ unit.pc = "none" /\ done < MaxUnits
  /\ (w \in PerDatabase) = (t \in Databases)
  /\ lost => w = Document
  /\ off => w = Detail
  /\ w = Document => Len(rows) = 1
  /\ unit' = [NoUnit EXCEPT
       !.pc = IF rows = <<>> \/ Skips(w, t, off) THEN "indexing" ELSE "writing",
       !.writer = w, !.target = t, !.rows = IF Skips(w, t, off) THEN <<>> ELSE rows]
  /\ selected' = publishes(w, t)
  /\ reportedErrors(lost)
  /\ disk' = {} /\ index' = NoIndex
  /\ UNCHANGED <<spent, saw, collected, listed, done, kinds, payload>>

\* A result set is missing, or no writer has the name: nothing is published.
BeginRefused ==
  /\ unit.pc = "none" /\ done < MaxUnits
  /\ done' = done + 1
  /\ UNCHANGED <<unit, disk, index, spent, saw, selected, collected, listed, partial, kinds, payload>>

ThisRow  == unit.rows[unit.at]
ThisPart == Parts(unit.writer)[unit.part]
ThisName == fileName(unit)

\* The profiled writer takes the rows of the ids selected, and records an id
\* with no row; the files of a query that are not its plan always are written.
reasonHere ==
  IF unit.writer = Profiled /\ unit.at \notin selected[unit.target].ids THEN "not asked"
  ELSE IF unit.writer = Detail /\ ThisPart # "plan" THEN "write"
  ELSE writerFor(unit.writer, ThisRow)

\* Mutant: the last row is not the end.
Advance_pastEnd(u) ==
  LET last == u.part = Len(Parts(u.writer))
  IN [u EXCEPT !.part = IF last THEN 1 ELSE @ + 1,
               !.at   = IF last THEN @ + 1 ELSE @,
               !.used = handsOut(u),
               !.pc   = IF last /\ u.at > Len(u.rows)
                        THEN IF u.writer = Document THEN "ended" ELSE "indexing" ELSE @]

\* On to the next file; the selection is published once every query is through.
Advance(u) ==
  LET last == u.part = Len(Parts(u.writer))
  IN [u EXCEPT !.part = IF last THEN 1 ELSE @ + 1,
               !.at   = IF last THEN @ + 1 ELSE @,
               !.used = handsOut(u),
               !.pc   = IF last /\ u.at = Len(u.rows)
                        THEN IF u.writer = Document THEN "ended" ELSE "indexing" ELSE @]

Omitted(u, reason) == [u EXCEPT !.omitted = @ \cup {<<u.at, Parts(u.writer)[u.part], reason>>}]

selects(u) == IF u.writer = Detail /\ u.pc = "indexing"
              THEN [selected EXCEPT ![u.target] = [delivered |-> TRUE, ids |-> DOMAIN u.rows]]
              ELSE selected

\* A row left out says why.
Omits ==
  /\ unit.pc = "writing" /\ reasonHere # "write"
  /\ unit' = Advance(IF reasonHere \in {"in its episode", "not asked"} THEN unit
                     ELSE Omitted(unit, reasonHere))
  /\ selected' = selects(unit')
  /\ UNCHANGED <<disk, index, spent, saw, collected, listed, partial, done, kinds, payload>>

\* A query with no text is omitted and its file is written, empty.
Texted(u) == IF u.writer = Detail /\ Parts(Detail)[u.part] = "text" /\ u.rows[u.at].odd
             THEN Omitted(u, "absent") ELSE u

\* Mutant: the budget is compared before the payload is added.
Fits_before(size) == spent <= Budget

\* The budget is not reached, and this payload does not pass it.
Fits(size) == spent < Budget /\ spent + size <= Budget

\* Mutant: a refusal by the budget is not an omission.
Refused_silently ==
  /\ unit.pc = "writing" /\ reasonHere = "write" /\ unit.writer # Document
  /\ ~Fits(Size(unit, unit.at, ThisPart))
  /\ unit' = Advance(Texted(unit))
  /\ selected' = selects(unit')
  /\ UNCHANGED <<disk, index, spent, saw, collected, listed, partial, done, kinds, payload>>

\* writeFile: the budget refuses, and the refusal is an omission.
Refused ==
  /\ unit.pc = "writing" /\ reasonHere = "write" /\ unit.writer # Document
  /\ ~Fits(Size(unit, unit.at, ThisPart))
  /\ unit' = Advance(Omitted(Texted(unit), "budget"))
  /\ selected' = selects(unit')
  /\ UNCHANGED <<disk, index, spent, saw, collected, listed, partial, done, kinds, payload>>

\* The encoder refuses a document, or runWriter.write does, which asks only
\* whether this payload passes the budget: either is an error.
RefusedDocument ==
  /\ unit.pc = "writing" /\ unit.writer = Document
  /\ unit' = [unit EXCEPT !.pc = "ended", !.err = TRUE]
  /\ UNCHANGED <<disk, index, runVars>>

\* put: the one way to the disk.
Writes ==
  LET size == Size(unit, unit.at, ThisPart)
      contents == Contents(unit, unit.at, ThisPart)
  IN
  /\ unit.pc = "writing" /\ reasonHere = "write"
  /\ IF unit.writer = Document THEN spent + size <= Budget ELSE Fits(size)
  /\ disk' = {f \in disk : f.name # ThisName}
               \cup {[name |-> ThisName, row |-> unit.at, part |-> ThisPart, whole |-> TRUE]}
  /\ spent' = spent + size
  /\ payload' = payload + size
  /\ saw' = (saw \/ containsShowplan(contents))
  /\ kinds' = kinds \cup contents
  /\ unit' = Advance([Texted(unit) EXCEPT !.bytes = @ + size, !.wrote = @ \cup contents,
                                                !.named = @ \cup {<<unit.at, ThisName>>}])
  /\ selected' = selects(unit')
  /\ UNCHANGED <<index, collected, listed, partial, done>>

\* Mutant: a write error leaves the writer at once.
afterFailure_leaves(u) == "ended"

\* fail and abandon: the index is written before the error leaves.
afterFailure(u) == IF u.writer = Document THEN "ended" ELSE "failing"

\* A query is abandoned with the files it got.
abandon(u) == u.named

\* The file may be there, cut, or not at all.
WriteFails ==
  /\ unit.pc = "writing" /\ reasonHere = "write"
  /\ IF unit.writer = Document THEN spent + Size(unit, 1, "document") <= Budget
     ELSE Fits(Size(unit, unit.at, ThisPart))
  /\ \/ disk' = {f \in disk : f.name # ThisName}
                  \cup {[name |-> ThisName, row |-> unit.at, part |-> ThisPart, whole |-> FALSE]}
     \/ disk' = disk
  /\ unit' = [Texted(unit) EXCEPT !.pc = afterFailure(unit), !.err = TRUE, !.named = abandon(unit)]
  /\ UNCHANGED <<index, runVars>>

\* The queries selected for which the plan cache returned nothing.
Unmatched(u) == IF u.writer # Profiled \/ u.pc = "failing" THEN {}
                ELSE {<<i, "profiled", "unmatched">> : i \in selected[u.target].ids \ DOMAIN u.rows}

\* writeUnbudgeted: the index is written last and never refused.
WritesIndex ==
  /\ unit.pc \in {"indexing", "failing"}
  /\ index' = [there |-> TRUE, named |-> unit.named, omitted |-> unit.omitted \cup Unmatched(unit),
               listed |-> IF unit.pc = "failing" THEN unit.at ELSE Len(unit.rows)]
  /\ spent' = spent + IndexSize
  /\ unit' = [unit EXCEPT !.pc = "ended", !.bytes = @ + IndexSize]
  /\ UNCHANGED <<disk, saw, selected, collected, listed, partial, done, kinds, payload>>

\* Its own error is returned, or is a warning beside the one that came first.
IndexFails ==
  /\ unit.pc \in {"indexing", "failing"}
  /\ unit' = [unit EXCEPT !.pc = "ended", !.err = TRUE, !.unsaid = TRUE]
  /\ UNCHANGED <<disk, index, runVars>>

---------------------------------------------------------------------------
(* The end of a unit: the manifest *)

\* Mutant: any plan on the disk is the Query Store's.
planOrigin_any(u) == {"QueryStoreDetail"}

planOrigin(u) == IF u.writer = Cached THEN {"PlanCachePlans"} ELSE {"QueryStoreDetail"}

discloseWrites(u) ==
  (IF saw THEN planOrigin(u) ELSE {})
    \cup (IF u.wrote \cap {"plan", "text", "profiled"} # {} THEN {"QueryStoreDetail"} ELSE {})
    \cup (IF "cached plan" \in u.wrote THEN {"PlanCachePlans"} ELSE {})
    \cup (IF "profiled" \in u.wrote THEN {"QueryStoreProfiledPlans"} ELSE {})
    \cup (IF "definition" \in u.wrote THEN {"ObjectDefinitions"} ELSE {})
    \cup (IF "graph" \in u.wrote THEN {"DeadlockGraphs"} ELSE {})
    \cup (IF "report" \in u.wrote THEN {"BlockedProcessReports"} ELSE {})

\* Mutant: a unit that failed has no entry.
resultEntry_okOnly(u) == IF u.err THEN 0 ELSE u.bytes

\* The entry of a unit, complete or not, with what landed.
resultEntry(u) == u.bytes

End ==
  /\ unit.pc = "ended"
  /\ collected' = collected \cup discloseWrites(unit)
  /\ saw' = FALSE
  /\ listed' = listed + resultEntry(unit)
  /\ done' = done + 1
  /\ unit' = NoUnit /\ disk' = {} /\ index' = NoIndex
  /\ UNCHANGED <<spent, selected, partial, kinds, payload>>

---------------------------------------------------------------------------
(* The specification *)

Init ==
  /\ unit = NoUnit /\ disk = {} /\ index = NoIndex
  /\ spent = 0 /\ saw = FALSE
  /\ selected = [t \in Databases |-> Missing]
  /\ collected = {} /\ listed = 0 /\ partial = 0 /\ done = 0
  /\ kinds = {} /\ payload = 0

Next ==
  \/ \E w \in Writers : \E t \in Databases \cup {NoDatabase} : \E rows \in Inputs[w] :
       \E off, lost \in BOOLEAN : Begin(w, t, rows, off, lost)
  \/ BeginRefused
  \/ Omits \/ Refused \/ RefusedDocument \/ Writes \/ WriteFails
  \/ WritesIndex \/ IndexFails \/ End

Spec == Init /\ [][Next]_vars

---------------------------------------------------------------------------
(* Properties *)

Flags == {"QueryStoreDetail", "PlanCachePlans", "QueryStoreProfiledPlans", "ObjectDefinitions",
          "DeadlockGraphs", "BlockedProcessReports"}
Kinds == {"text", "plan", "stats", "profiled", "definition", "graph", "report", "cached plan",
          "plan in a text", "document"}

\* Every variable has its type.
TypeOK ==
  /\ unit.pc \in {"none", "writing", "indexing", "failing", "ended"}
  /\ unit.writer \in Writers /\ unit.target \in Databases \cup {NoDatabase}
  /\ unit.wrote \subseteq Kinds /\ unit.bytes \in Nat /\ unit.err \in BOOLEAN
  /\ unit.pc = "writing" => unit.at \in DOMAIN unit.rows
  /\ spent \in Nat /\ listed \in Nat /\ payload \in Nat /\ partial \in Nat
  /\ saw \in BOOLEAN /\ done \in 0..MaxUnits
  /\ collected \subseteq Flags /\ kinds \subseteq Kinds
  /\ selected \in [Databases -> [delivered : BOOLEAN, ids : SUBSET Nat]]

Over == unit.pc = "ended"
Whole == {f \in disk : f.whole}

\* No directory is left undescribed: a unit that put a file on the disk leaves an
\* index over it, or an error of the index itself is said (querystore.go:330-345).
DirectoryIsDescribed ==
  Over /\ disk # {} /\ unit.writer # Document => index.there \/ unit.unsaid

\* An index names no file that is not there whole with what its row sent, and
\* leaves out no whole file, whatever failed before it was written and whatever
\* names the rows sanitise to (querystore.go:353-359, modules.go:243).
IndexIsTrue ==
  index.there => index.named = {<<f.row, f.name>> : f \in Whole}

\* A row that has no file says why: nothing is dropped in silence, at the caps, at
\* the budget, or with no match (querystore.go:195-199).
EveryRowSpeaks ==
  index.there /\ ~unit.err /\ unit.pc = "ended" =>
    \A i \in DOMAIN unit.rows : \A k \in DOMAIN Parts(unit.writer) :
      LET part == Parts(unit.writer)[k]
      IN \/ \E file \in index.named : file[1] = i /\ file[2][1] = part
         \/ \E o \in index.omitted : o[1] = i /\ o[2] = part
         \/ unit.writer = Reports /\ unit.rows[i].odd
         \/ unit.writer = Profiled /\ i \notin selected[unit.target].ids

\* An omission states no false fact about the server: what it holds is not said to
\* be absent, and what was left out for its size or rank has that size or rank
\* (querystore.go:26-35, modules.go:196).
ReasonIsTrue ==
  \A o \in unit.omitted :
    LET row == unit.rows[o[1]]
    IN CASE o[3] \in {"absent", "not rendered"} -> o[2] = "text" \/ ~row.held
         [] o[3] = "too large" -> row.held /\ row.big
         [] o[3] = "beyond" -> row.past
         [] o[3] = "encrypted" -> row.odd
         [] OTHER -> TRUE

\* The budget holds for the payloads to the last byte; only indexes pass it, and
\* each is counted (runfile.go:126-131).
PayloadFits == payload <= Budget

\* Between two units the manifest has counted every byte that was written whole,
\* those of units that failed halfway included (collect.go:3138-3150).
SpentIsListed == unit.pc = "none" => listed = spent

\* Between two units the manifest discloses what is on the disk, no less and no
\* more: a plan of the plan cache names its origin, any other is told as the Query
\* Store's, also one that is a literal of a module or a report; a query's text is
\* disclosed with no plan beside it, and a later unit neither answers for an earlier
\* one's plan nor retracts it (collect.go:2098-2133).
Disclosed(kind) ==
  CASE kind \in {"plan", "text", "plan in a text"} -> {"QueryStoreDetail"}
    [] kind = "profiled" -> {"QueryStoreDetail", "QueryStoreProfiledPlans"}
    [] kind = "cached plan" -> {"PlanCachePlans"}
    [] kind = "definition" -> {"ObjectDefinitions"}
    [] kind = "graph" -> {"DeadlockGraphs"}
    [] kind = "report" -> {"BlockedProcessReports"}
    [] OTHER -> {}
DisclosedIsWritten ==
  unit.pc = "none" => collected = UNION {Disclosed(k) : k \in kinds}

\* An index describes its directory, no less and no more, whatever failed under it.
IndexIsSound ==
  /\ DirectoryIsDescribed
  /\ IndexIsTrue
  /\ EveryRowSpeaks
  /\ ReasonIsTrue

\* The manifest counts and discloses what is on the disk, within the budget.
ManifestCountsAll ==
  /\ TypeOK
  /\ PayloadFits
  /\ SpentIsListed
  /\ DisclosedIsWritten
=============================================================================
