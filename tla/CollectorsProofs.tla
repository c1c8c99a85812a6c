-------------------------- MODULE CollectorsProofs ---------------------------
(***************************************************************************)
(* Proofs about Collectors, for any rows, any budget and any number of     *)
(* units: what the manifest counts and discloses, and what an index says,  *)
(* is what is on the disk, whatever was left out, refused or failed.       *)
(***************************************************************************)
EXTENDS Collectors, FiniteSetTheorems, WellFoundedInduction, TLAPS

---------------------------------------------------------------------------
(* The unit *)

\* The types of a unit and of its parts.
Reasons == {"absent", "not rendered", "too large", "beyond", "encrypted", "in its episode",
            "not asked", "budget", "write"}
FileNames == Kinds \X Seq(Nat)
Places == {"none", "writing", "indexing", "failing", "ended"}
Units ==
  [pc : Places, writer : Writers, target : Databases \cup {NoDatabase}, rows : Seq(Row),
   at : Nat \ {0}, part : Nat \ {0}, used : SUBSET Seq(Nat), named : SUBSET (Nat \X FileNames),
   omitted : SUBSET (Nat \X Kinds \X Reasons), bytes : Nat, wrote : SUBSET Kinds,
   err : BOOLEAN, unsaid : BOOLEAN]

\* A unit that writes is at a file of a row.
AtAFile(u) ==
  /\ u.at \in 1..Len(u.rows) /\ u.part \in 1..Len(Parts(u.writer))
  /\ u.writer = Document => Len(u.rows) = 1

\* The files of a row, writer by writer.
LEMMA PartsAre ==
  /\ Parts(Detail) = <<"text", "plan", "stats">> /\ Parts(Profiled) = <<"profiled">>
  /\ Parts(Modules) = <<"definition">> /\ Parts(Deadlocks) = <<"graph">>
  /\ Parts(Reports) = <<"report">> /\ Parts(Cached) = <<"cached plan">>
  /\ Parts(Document) = <<"document">>
BY DEF Parts, Detail, Profiled, Modules, Deadlocks, Reports, Cached, Document

\* The three files of a query.
LEMMA ThreeParts ==
  /\ Len(Parts(Detail)) = 3 /\ Parts(Detail)[1] = "text" /\ Parts(Detail)[2] = "plan"
  /\ Parts(Detail)[3] = "stats"
<1>1. ASSUME NEW p, NEW q, NEW r
      PROVE  Len(<<p, q, r>>) = 3 /\ <<p, q, r>>[1] = p /\ <<p, q, r>>[2] = q /\ <<p, q, r>>[3] = r
  OBVIOUS
<1>2. Parts(Detail) = <<"text", "plan", "stats">>
  BY PartsAre
<1> QED
  BY <1>1, <1>2

\* A row has one to three files, each of a kind.
LEMMA PartsAreFew ==
  ASSUME NEW w \in Writers
  PROVE  Parts(w) \in Seq(Kinds) /\ Len(Parts(w)) \in 1..3 /\ DOMAIN Parts(w) = 1..Len(Parts(w))
<1>1. w \in {Detail, Profiled, Modules, Deadlocks, Reports, Cached, Document}
  BY DEF Writers, PerDatabase
<1>2. Kinds = {"text", "plan", "stats", "profiled", "definition", "graph", "report", "cached plan",
               "plan in a text", "document"}
  BY DEF Kinds
<1>3. ASSUME NEW p \in Kinds PROVE <<p>> \in Seq(Kinds) /\ Len(<<p>>) = 1
  OBVIOUS
<1>4. ASSUME NEW p \in Kinds, NEW q \in Kinds, NEW r \in Kinds
      PROVE  <<p, q, r>> \in Seq(Kinds) /\ Len(<<p, q, r>>) = 3
  OBVIOUS
<1>5. CASE w = Detail
  <2>1. "text" \in Kinds /\ "plan" \in Kinds /\ "stats" \in Kinds
    BY <1>2
  <2>2. Parts(w) = <<"text", "plan", "stats">>
    BY <1>5, PartsAre
  <2> QED
    BY <1>4, <2>1, <2>2
<1>6. CASE w # Detail
  <2>1. \E p \in Kinds : Parts(w) = <<p>>
    BY <1>1, <1>2, <1>6, PartsAre
  <2> QED
    BY <1>3, <2>1
<1> QED
  BY <1>5, <1>6

\* What a unit keeps when it goes on to its next file.
Carried(u, v) ==
  /\ v.writer = u.writer /\ v.target = u.target /\ v.rows = u.rows /\ v.named = u.named
  /\ v.omitted = u.omitted /\ v.bytes = u.bytes /\ v.wrote = u.wrote /\ v.err = u.err
  /\ v.unsaid = u.unsaid

\* Four fields that advance.
Moved(u, p, a, n, q) == [u EXCEPT !.part = p, !.at = a, !.used = n, !.pc = q]

\* They are all that changes.
LEMMA Moving ==
  ASSUME NEW u \in Units, NEW p \in Nat \ {0}, NEW a \in Nat \ {0}, NEW n \in SUBSET Seq(Nat),
         NEW q \in Places
  PROVE  /\ Moved(u, p, a, n, q) \in Units /\ Carried(u, Moved(u, p, a, n, q))
         /\ Moved(u, p, a, n, q).part = p /\ Moved(u, p, a, n, q).at = a
         /\ Moved(u, p, a, n, q).used = n /\ Moved(u, p, a, n, q).pc = q
BY DEF Units, Carried, Moved

\* A unit goes on to the next file of its row, to the next row, or is through.
LEMMA Advancing ==
  ASSUME NEW u \in Units, u.pc = "writing", AtAFile(u), handsOut(u) \in SUBSET Seq(Nat)
  PROVE  /\ Advance(u) \in Units /\ Carried(u, Advance(u)) /\ Advance(u).used = handsOut(u)
         /\ \/ /\ u.part < Len(Parts(u.writer)) /\ Advance(u).pc = "writing"
               /\ Advance(u).at = u.at /\ Advance(u).part = u.part + 1
            \/ /\ u.part = Len(Parts(u.writer)) /\ u.at < Len(u.rows) /\ Advance(u).pc = "writing"
               /\ Advance(u).at = u.at + 1 /\ Advance(u).part = 1
            \/ /\ u.part = Len(Parts(u.writer)) /\ u.at = Len(u.rows)
               /\ Advance(u).pc = IF u.writer = Document THEN "ended" ELSE "indexing"
<1> DEFINE last == u.part = Len(Parts(u.writer))
           p == IF last THEN 1 ELSE u.part + 1
           a == IF last THEN u.at + 1 ELSE u.at
           q == IF last /\ u.at = Len(u.rows)
                THEN IF u.writer = Document THEN "ended" ELSE "indexing" ELSE "writing"
<1>1. Advance(u) = Moved(u, p, a, handsOut(u), q)
  BY DEF Advance, Units, Moved
<1>2. Len(Parts(u.writer)) \in 1..3 /\ u.at \in Nat \ {0} /\ u.part \in Nat \ {0} /\ Len(u.rows) \in Nat
  BY PartsAreFew DEF Units
<1>3. /\ p \in Nat \ {0} /\ a \in Nat \ {0}
      /\ q \in Places
  BY <1>2 DEF Places
<1>4. \/ u.part < Len(Parts(u.writer)) /\ q = "writing" /\ a = u.at /\ p = u.part + 1
      \/ u.part = Len(Parts(u.writer)) /\ u.at < Len(u.rows) /\ q = "writing" /\ a = u.at + 1 /\ p = 1
      \/ /\ u.part = Len(Parts(u.writer)) /\ u.at = Len(u.rows)
         /\ q = IF u.writer = Document THEN "ended" ELSE "indexing"
  BY <1>2 DEF AtAFile
<1> HIDE DEF p, a, q
<1>5. /\ Advance(u) \in Units /\ Carried(u, Advance(u))
      /\ Advance(u).part = p /\ Advance(u).at = a
      /\ Advance(u).used = handsOut(u) /\ Advance(u).pc = q
  BY <1>1, <1>3, Moving
<1> QED
  BY <1>4, <1>5

---------------------------------------------------------------------------
(* Names *)

Less == {r \in Nat \X Nat : r[1] < r[2]}

\* Numbers that differ are ordered, and from below.
LEMMA LessIsWellFounded == IsWellFoundedOn(Less, Nat)
BY NatLessThanWellFounded DEF OpToRel, Less

\* Numbers have a least one.
LEMMA Smallest ==
  ASSUME NEW S \in SUBSET Nat, S # {}
  PROVE  \E x \in S : \A y \in S : x <= y
<1>1. PICK x \in S : \A y \in S : <<y, x>> \notin Less
  BY LessIsWellFounded, WFMin
<1>2. \A y \in S : ~(y < x)
  BY <1>1 DEF Less
<1> QED
  BY <1>1, <1>2

\* A name handed out is one of the file system's, and new to the directory.
LEMMA NewName ==
  ASSUME NEW stem \in Seq(Nat), NEW used \in SUBSET Seq(Nat), IsFiniteSet(used)
  PROVE  /\ moduleFileName(stem, used) \in Seq(Nat)
         /\ moduleFileName(stem, used) \notin used
<1> DEFINE c == Cardinality(used)
           S == 2..(c + 2)
           suffixes == {n \in S : Append(stem, n) \notin used}
<1>1. c \in Nat
  BY FS_CardinalityType
<1>2. IsFiniteSet(S) /\ Cardinality(S) = c + 1
  <2>1. 2 \in Int /\ c + 2 \in Int /\ ~(2 > c + 2) /\ (c + 2) - 2 + 1 = c + 1
    BY <1>1
  <2>2. IsFiniteSet(2..(c + 2))
        /\ Cardinality(2..(c + 2)) = IF 2 > c + 2 THEN 0 ELSE (c + 2) - 2 + 1
    BY <2>1, FS_Interval
  <2> QED
    BY <2>1, <2>2
<1>3. suffixes # {}
  <2> SUFFICES ASSUME \A n \in S : Append(stem, n) \in used PROVE FALSE
    OBVIOUS
  <2> DEFINE f == [n \in S |-> Append(stem, n)]
  <2>1. f \in [S -> used]
    OBVIOUS
  <2>2. \E x, y \in S : x # y /\ f[x] = f[y]
    <3>1. Cardinality(used) < Cardinality(S)
      BY <1>1, <1>2
    <3> HIDE DEF f, S
    <3> QED
      BY <1>2, <2>1, <3>1, FS_PigeonHole
  <2>3. \A x, y \in S : Append(stem, x) = Append(stem, y) => x = y
    <3> SUFFICES ASSUME NEW x \in S, NEW y \in S, Append(stem, x) = Append(stem, y) PROVE x = y
      OBVIOUS
    <3>1. x \in Nat /\ y \in Nat
      BY <1>1
    <3>2. Append(stem, x)[Len(stem) + 1] = x /\ Append(stem, y)[Len(stem) + 1] = y
      BY <3>1
    <3> QED
      BY <3>2
  <2> QED
    BY <2>2, <2>3
<1>4. suffixes \subseteq Nat
  BY <1>1
<1>5. Min(suffixes) \in suffixes
  <2> HIDE DEF suffixes
  <2>1. \E x \in suffixes : \A y \in suffixes : x <= y
    BY <1>3, <1>4, Smallest
  <2> QED
    BY <2>1 DEF Min
<1>6. \A n \in suffixes : Append(stem, n) \in Seq(Nat) /\ Append(stem, n) \notin used
  BY <1>4
<1>7. moduleFileName(stem, used) = IF stem \notin used THEN stem ELSE Append(stem, Min(suffixes))
  BY DEF moduleFileName
<1> HIDE DEF suffixes
<1> QED
  BY <1>5, <1>6, <1>7

---------------------------------------------------------------------------
(* Reasons *)

\* The reason is the first that holds.
LEMMA FirstHolds ==
  ASSUME NEW reasons, DOMAIN reasons \subseteq Nat
  PROVE  \/ FirstOf(reasons) = "write"
         \/ \E k \in DOMAIN reasons : /\ FirstOf(reasons) = reasons[k][2] /\ reasons[k][1]
                                      /\ \A l \in DOMAIN reasons : l < k => ~reasons[l][1]
<1> DEFINE S == {k \in DOMAIN reasons : reasons[k][1]}
<1>1. CASE S = {}
  BY <1>1 DEF FirstOf
<1>2. CASE S # {}
  <2>1. S \in SUBSET Nat
    OBVIOUS
  <2>2. Min(S) \in S /\ \A y \in S : Min(S) <= y
    <3> HIDE DEF S
    <3>1. \E x \in S : \A y \in S : x <= y
      BY <1>2, <2>1, Smallest
    <3> QED
      BY <3>1 DEF Min
  <2>3. FirstOf(reasons) = reasons[Min(S)][2]
    BY <1>2 DEF FirstOf
  <2>4. \A l \in DOMAIN reasons : l < Min(S) => l \notin S
    <3> HIDE DEF S
    <3> SUFFICES ASSUME NEW l \in S, l < Min(S) PROVE FALSE
      OBVIOUS
    <3>1. l \in Nat /\ Min(S) \in Nat /\ Min(S) <= l
      BY <2>1, <2>2
    <3> QED
      BY <3>1
  <2> QED
    BY <2>2, <2>3, <2>4
<1> QED
  BY <1>1, <1>2

\* [r] is the first of two reasons that holds, or none.
TwoOf(a, b, x, y, r) ==
  \/ r = "write"
  \/ a /\ r = x
  \/ ~a /\ b /\ r = y

\* The reason is the first of two.
LEMMA TwoReasons ==
  ASSUME NEW a \in BOOLEAN, NEW b \in BOOLEAN,
         NEW x, NEW y
  PROVE  TwoOf(a, b, x, y,
             FirstOf(<< <<a, x>>, <<b, y>> >>))
<1> DEFINE t == << <<a, x>>, <<b, y>> >>
<1>1. /\ DOMAIN t = {1, 2}
      /\ t[1][1] = a /\ t[2][1] = b
      /\ t[1][2] = x /\ t[2][2] = y
  OBVIOUS
<1>2. DOMAIN t \subseteq Nat
  BY <1>1
<1> HIDE DEF t
<1>3. \/ FirstOf(t) = "write"
      \/ \E k \in DOMAIN t : FirstOf(t) = t[k][2] /\ t[k][1] /\ \A l \in DOMAIN t : l < k => ~t[l][1]
  BY <1>2, FirstHolds
<1>4. \A k \in DOMAIN t : \/ k = 1
                          \/ k = 2 /\ 1 \in DOMAIN t /\ 1 < k
  BY <1>1
<1>5. \/ FirstOf(t) = "write"
      \/ a /\ FirstOf(t) = x
      \/ ~a /\ b /\ FirstOf(t) = y
  BY <1>1, <1>3, <1>4, Zenon
<1> QED
  BY <1>5 DEF t, TwoOf

\* [r] is the first of three reasons that holds, or none.
ThreeOf(a, b, c, x, y, z, r) ==
  \/ r = "write"
  \/ a /\ r = x
  \/ ~a /\ b /\ r = y
  \/ ~a /\ ~b /\ c /\ r = z

\* The reason is the first of three.
LEMMA ThreeReasons ==
  ASSUME NEW a \in BOOLEAN, NEW b \in BOOLEAN, NEW c \in BOOLEAN,
         NEW x, NEW y, NEW z
  PROVE  ThreeOf(a, b, c, x, y, z,
             FirstOf(<< <<a, x>>, <<b, y>>, <<c, z>> >>))
<1> DEFINE t == << <<a, x>>, <<b, y>>, <<c, z>> >>
<1>1. /\ DOMAIN t = {1, 2, 3}
      /\ t[1][1] = a /\ t[2][1] = b /\ t[3][1] = c
      /\ t[1][2] = x /\ t[2][2] = y /\ t[3][2] = z
  OBVIOUS
<1>2. DOMAIN t \subseteq Nat
  BY <1>1
<1> HIDE DEF t
<1>3. \/ FirstOf(t) = "write"
      \/ \E k \in DOMAIN t : FirstOf(t) = t[k][2] /\ t[k][1] /\ \A l \in DOMAIN t : l < k => ~t[l][1]
  BY <1>2, FirstHolds
<1>4. \A k \in DOMAIN t : \/ k = 1
                          \/ k = 2 /\ 1 \in DOMAIN t /\ 1 < k
                          \/ k = 3 /\ 1 \in DOMAIN t /\ 1 < k /\ 2 \in DOMAIN t /\ 2 < k
  BY <1>1
<1>5. \/ FirstOf(t) = "write"
      \/ a /\ FirstOf(t) = x
      \/ ~a /\ b /\ FirstOf(t) = y
      \/ ~a /\ ~b /\ c /\ FirstOf(t) = z
  BY <1>1, <1>3, <1>4, Zenon
<1> QED
  BY <1>5 DEF t, ThreeOf

\* [r] is the first of four reasons that holds, or none.
FourOf(a, b, c, d, x, y, z, w, r) ==
  \/ r = "write"
  \/ a /\ r = x
  \/ ~a /\ b /\ r = y
  \/ ~a /\ ~b /\ c /\ r = z
  \/ ~a /\ ~b /\ ~c /\ d /\ r = w

\* The reason is the first of four.
LEMMA FourReasons ==
  ASSUME NEW a \in BOOLEAN, NEW b \in BOOLEAN, NEW c \in BOOLEAN, NEW d \in BOOLEAN,
         NEW x, NEW y, NEW z, NEW w
  PROVE  FourOf(a, b, c, d, x, y, z, w,
             FirstOf(<< <<a, x>>, <<b, y>>, <<c, z>>, <<d, w>> >>))
<1> DEFINE t == << <<a, x>>, <<b, y>>, <<c, z>>, <<d, w>> >>
<1>1. /\ DOMAIN t = {1, 2, 3, 4}
      /\ t[1][1] = a /\ t[2][1] = b /\ t[3][1] = c /\ t[4][1] = d
      /\ t[1][2] = x /\ t[2][2] = y /\ t[3][2] = z /\ t[4][2] = w
  OBVIOUS
<1>2. DOMAIN t \subseteq Nat
  BY <1>1
<1> HIDE DEF t
<1>3. \/ FirstOf(t) = "write"
      \/ \E k \in DOMAIN t : FirstOf(t) = t[k][2] /\ t[k][1] /\ \A l \in DOMAIN t : l < k => ~t[l][1]
  BY <1>2, FirstHolds
<1>4. \A k \in DOMAIN t : \/ k = 1
                          \/ k = 2 /\ 1 \in DOMAIN t /\ 1 < k
                          \/ k = 3 /\ 1 \in DOMAIN t /\ 1 < k /\ 2 \in DOMAIN t /\ 2 < k
                          \/ k = 4 /\ 1 \in DOMAIN t /\ 1 < k /\ 2 \in DOMAIN t /\ 2 < k
                             /\ 3 \in DOMAIN t /\ 3 < k
  BY <1>1
<1>5. \/ FirstOf(t) = "write"
      \/ a /\ FirstOf(t) = x
      \/ ~a /\ b /\ FirstOf(t) = y
      \/ ~a /\ ~b /\ c /\ FirstOf(t) = z
      \/ ~a /\ ~b /\ ~c /\ d /\ FirstOf(t) = w
  BY <1>1, <1>3, <1>4, Zenon
<1> QED
  BY <1>5 DEF t, FourOf

\* What a reason says of the row it is given for.
Honest(w, row, reason) ==
  /\ reason \in Reasons \ {"not asked", "budget"}
  /\ reason \in {"absent", "not rendered"} => ~row.held
  /\ reason = "too large" => row.big
  /\ reason = "beyond" => row.past
  /\ reason = "encrypted" => row.odd
  /\ reason = "in its episode" => w = Reports /\ row.odd

\* Each writer has its own way with a row.
LEMMA WriterIs ==
  ASSUME NEW row
  PROVE  /\ writerFor(Detail, row) = writeQueryStoreDetail(Detail, row)
         /\ writerFor(Profiled, row) = writeQueryStoreProfiled(Profiled, row)
         /\ writerFor(Modules, row) = writeObjectDefinitions(Modules, row)
         /\ writerFor(Deadlocks, row) = writeDeadlockGraphs(Deadlocks, row)
         /\ writerFor(Reports, row) = writeBlockedProcessReports(Reports, row)
         /\ writerFor(Cached, row) = writePlanCachePlans(Cached, row)
         /\ writerFor(Document, row) = "write"
BY DEF writerFor, Detail, Profiled, Modules, Deadlocks, Reports, Cached, Document

\* What has arrived, writer by writer.
LEMMA PresentIs ==
  ASSUME NEW row \in Row
  PROVE  /\ \A w : present(w, row) \in BOOLEAN
         /\ \A w : present(w, row) => row.held /\ ~row.big
         /\ \A w : row.held /\ ~row.big /\ ~row.past /\ (w = Modules => ~row.odd) => present(w, row)
         /\ row.held /\ ~row.big => present(Profiled, row)
BY DEF present, Profiled, Modules, Row

\* No writer gives a reason that is false of the row.
LEMMA WritersAreHonest ==
  ASSUME NEW w \in Writers, NEW row \in Row
  PROVE  Honest(w, row, writerFor(w, row))
<1>1. /\ row.past \in BOOLEAN /\ row.big \in BOOLEAN /\ row.held \in BOOLEAN /\ row.odd \in BOOLEAN
  BY DEF Row
<1> DEFINE Says(r) == \/ r = "write"
                      \/ r \in {"absent", "not rendered"} /\ ~row.held
                      \/ r = "too large" /\ row.big
                      \/ r = "beyond" /\ row.past
                      \/ r = "encrypted" /\ row.odd
                      \/ r = "in its episode" /\ w = Reports /\ row.odd
<1>2. \A r : Says(r) => Honest(w, row, r)
  BY DEF Honest, Reasons
<1>3. Modules \notin {Detail, Profiled, Deadlocks, Reports, Cached, Document}
  BY DEF Detail, Profiled, Modules, Deadlocks, Reports, Cached, Document
<1>10. CASE w = Detail
  <2>1. writeQueryStoreDetail(Detail, row) =
          FirstOf(<< <<row.past, "beyond">>, <<~present(Detail, row) /\ row.big, "too large">>,
                     <<~present(Detail, row), "absent">> >>)
    BY DEF writeQueryStoreDetail
  <2>2. /\ (row.past) \in BOOLEAN
        /\ (~present(Detail, row) /\ row.big) \in BOOLEAN
        /\ (~present(Detail, row)) \in BOOLEAN
    BY <1>1, PresentIs
  <2>3. ThreeOf(row.past, ~present(Detail, row) /\ row.big, ~present(Detail, row),
              "beyond", "too large", "absent",
              writeQueryStoreDetail(Detail, row))
    BY <2>1, <2>2, ThreeReasons, ZenonT(60)
  <2>4. Says(writeQueryStoreDetail(Detail, row))
    BY <1>1, <1>3, <1>10, <2>1, <2>3, PresentIs DEF ThreeOf
  <2> QED
    BY <1>2, <1>10, <2>4, WriterIs
<1>11. CASE w = Profiled
  <2>1. writeQueryStoreProfiled(Profiled, row) =
          FirstOf(<< <<~present(Profiled, row) /\ row.big, "too large">>,
                     <<~present(Profiled, row), "absent">> >>)
    BY DEF writeQueryStoreProfiled
  <2>2. /\ (~present(Profiled, row) /\ row.big) \in BOOLEAN
        /\ (~present(Profiled, row)) \in BOOLEAN
    BY <1>1, PresentIs
  <2>3. TwoOf(~present(Profiled, row) /\ row.big, ~present(Profiled, row),
              "too large", "absent",
              writeQueryStoreProfiled(Profiled, row))
    BY <2>1, <2>2, TwoReasons, Zenon
  <2>4. Says(writeQueryStoreProfiled(Profiled, row))
    BY <1>1, <1>3, <1>11, <2>1, <2>3, PresentIs DEF TwoOf
  <2> QED
    BY <1>2, <1>11, <2>4, WriterIs
<1>12. CASE w = Modules
  <2>1. writeObjectDefinitions(Modules, row) =
          FirstOf(<< <<row.odd, "encrypted">>, <<row.past, "beyond">>,
                     <<row.big, "too large">>, <<~present(Modules, row), "absent">> >>)
    BY DEF writeObjectDefinitions
  <2>2. /\ (row.odd) \in BOOLEAN
        /\ (row.past) \in BOOLEAN
        /\ (row.big) \in BOOLEAN
        /\ (~present(Modules, row)) \in BOOLEAN
    BY <1>1, PresentIs
  <2>3. FourOf(row.odd, row.past, row.big, ~present(Modules, row),
              "encrypted", "beyond", "too large", "absent",
              writeObjectDefinitions(Modules, row))
    <3>1. FourOf(row.odd, row.past, row.big, ~present(Modules, row),
              "encrypted", "beyond", "too large", "absent",
              FirstOf(<< <<row.odd, "encrypted">>, <<row.past, "beyond">>,
                         <<row.big, "too large">>, <<~present(Modules, row), "absent">> >>))
      BY <2>2, FourReasons, Zenon
    <3> QED
      BY <2>1, <3>1
  <2>4. Says(writeObjectDefinitions(Modules, row))
    BY <1>1, <1>3, <1>12, <2>1, <2>3, PresentIs DEF FourOf
  <2> QED
    BY <1>2, <1>12, <2>4, WriterIs
<1>13. CASE w = Deadlocks
  <2>1. writeDeadlockGraphs(Deadlocks, row) =
          FirstOf(<< <<row.past, "beyond">>, <<row.big, "too large">>,
                     <<~present(Deadlocks, row), "absent">> >>)
    BY DEF writeDeadlockGraphs
  <2>2. /\ (row.past) \in BOOLEAN
        /\ (row.big) \in BOOLEAN
        /\ (~present(Deadlocks, row)) \in BOOLEAN
    BY <1>1, PresentIs
  <2>3. ThreeOf(row.past, row.big, ~present(Deadlocks, row),
              "beyond", "too large", "absent",
              writeDeadlockGraphs(Deadlocks, row))
    BY <2>1, <2>2, ThreeReasons, ZenonT(60)
  <2>4. Says(writeDeadlockGraphs(Deadlocks, row))
    BY <1>1, <1>3, <1>13, <2>1, <2>3, PresentIs DEF ThreeOf
  <2> QED
    BY <1>2, <1>13, <2>4, WriterIs
<1>14. CASE w = Reports
  <2>1. writeBlockedProcessReports(Reports, row) =
          FirstOf(<< <<row.odd, "in its episode">>, <<row.past, "beyond">>,
                     <<row.big, "too large">>, <<~present(Reports, row), "absent">> >>)
    BY DEF writeBlockedProcessReports
  <2>2. /\ (row.odd) \in BOOLEAN
        /\ (row.past) \in BOOLEAN
        /\ (row.big) \in BOOLEAN
        /\ (~present(Reports, row)) \in BOOLEAN
    BY <1>1, PresentIs
  <2>3. FourOf(row.odd, row.past, row.big, ~present(Reports, row),
              "in its episode", "beyond", "too large", "absent",
              writeBlockedProcessReports(Reports, row))
    <3>1. FourOf(row.odd, row.past, row.big, ~present(Reports, row),
              "in its episode", "beyond", "too large", "absent",
              FirstOf(<< <<row.odd, "in its episode">>, <<row.past, "beyond">>,
                         <<row.big, "too large">>, <<~present(Reports, row), "absent">> >>))
      BY <2>2, FourReasons, Zenon
    <3> QED
      BY <2>1, <3>1
  <2>4. Says(writeBlockedProcessReports(Reports, row))
    BY <1>1, <1>3, <1>14, <2>1, <2>3, PresentIs DEF FourOf
  <2> QED
    BY <1>2, <1>14, <2>4, WriterIs
<1>15. CASE w = Cached
  <2>1. writePlanCachePlans(Cached, row) =
          FirstOf(<< <<row.past, "beyond">>, <<row.big, "too large">>,
                     <<~present(Cached, row), "not rendered">> >>)
    BY DEF writePlanCachePlans
  <2>2. /\ (row.past) \in BOOLEAN
        /\ (row.big) \in BOOLEAN
        /\ (~present(Cached, row)) \in BOOLEAN
    BY <1>1, PresentIs
  <2>3. ThreeOf(row.past, row.big, ~present(Cached, row),
              "beyond", "too large", "not rendered",
              writePlanCachePlans(Cached, row))
    BY <2>1, <2>2, ThreeReasons, ZenonT(60)
  <2>4. Says(writePlanCachePlans(Cached, row))
    BY <1>1, <1>3, <1>15, <2>1, <2>3, PresentIs DEF ThreeOf
  <2> QED
    BY <1>2, <1>15, <2>4, WriterIs
<1>16. CASE w = Document
  BY <1>2, <1>16, WriterIs
<1> QED
  BY <1>10, <1>11, <1>12, <1>13, <1>14, <1>15, <1>16 DEF Writers, PerDatabase

---------------------------------------------------------------------------
(* The inductive invariant *)

Files == [name : FileNames, row : Nat, part : Kinds, whole : BOOLEAN]

\* Every variable has its type, and between two units nothing is left of one.
Typed ==
  /\ unit \in Units /\ IsFiniteSet(unit.used)
  /\ disk \subseteq Files
  /\ spent \in Nat /\ listed \in Nat /\ payload \in Nat /\ partial \in Nat
  /\ saw \in BOOLEAN /\ done \in 0..MaxUnits
  /\ collected \subseteq Flags /\ kinds \subseteq Kinds
  /\ selected \in [Databases -> [delivered : BOOLEAN, ids : SUBSET Nat]]
  /\ unit.pc = "none" => unit = NoUnit /\ disk = {} /\ index = NoIndex
  /\ unit.pc = "writing" => AtAFile(unit)
  /\ unit.pc # "none" => done < MaxUnits

\* What is spent is listed, or is the unit's under way.
Counted == spent = listed + unit.bytes /\ payload <= spent /\ payload <= Budget

\* What each writer may put on the disk.
KindsOf(w) ==
  CASE w = Detail    -> {"text", "plan", "stats", "plan in a text"}
    [] w = Profiled  -> {"profiled"}
    [] w = Modules   -> {"definition", "plan in a text"}
    [] w = Deadlocks -> {"graph", "plan in a text"}
    [] w = Reports   -> {"report", "plan in a text"}
    [] w = Cached    -> {"cached plan"}
    [] OTHER         -> {"document", "plan in a text"}

Tell(ks) == UNION {Disclosed(k) : k \in ks}

\* What has to be disclosed is, or will be with the unit under way.
Told ==
  /\ unit.wrote \subseteq KindsOf(unit.writer)
  /\ saw <=> containsShowplan(unit.wrote)
  /\ Tell(kinds) = collected \cup Tell(unit.wrote)

\* The files named are those that are whole, and the next name is a new one.
Named ==
  /\ unit.named = {<<f.row, f.name>> : f \in Whole}
  /\ unit.pc = "writing" =>
       \A f \in disk :
         IF unit.writer = Modules THEN f.name[2] \in unit.used
         ELSE /\ f.name = <<f.part, <<f.row>>>>
              /\ \/ f.row < unit.at
                 \/ f.row = unit.at /\ \E k \in 1..(unit.part - 1) : f.part = Parts(unit.writer)[k]

\* An index is the last thing a unit writes, and only its error does without one.
Indexed ==
  /\ index.there => unit.pc = "ended" /\ index.named = unit.named /\ unit.omitted \subseteq index.omitted
  /\ unit.pc = "failing" => unit.err
  /\ DirectoryIsDescribed

\* The file [k] of the row [i] is there, or is said not to be, or needs no word.
Speaks(i, k) ==
  LET part == Parts(unit.writer)[k]
  IN \/ \E file \in unit.named : file[1] = i /\ file[2][1] = part
     \/ \E o \in unit.omitted : o[1] = i /\ o[2] = part
     \/ unit.writer = Reports /\ unit.rows[i].odd
     \/ unit.writer = Profiled /\ i \notin selected[unit.target].ids

\* Every file the unit is past has had its word.
Spoken ==
  /\ unit.pc = "writing" =>
       \A i \in DOMAIN unit.rows : \A k \in DOMAIN Parts(unit.writer) :
         i < unit.at \/ (i = unit.at /\ k < unit.part) => Speaks(i, k)
  /\ unit.pc = "indexing" =>
       \A i \in DOMAIN unit.rows : \A k \in DOMAIN Parts(unit.writer) : Speaks(i, k)
  /\ EveryRowSpeaks

\* The rows are some that were asked for, and no reason given for one is false.
Reasoned ==
  /\ \A i \in DOMAIN unit.rows : unit.rows[i].big => unit.rows[i].held
  /\ ReasonIsTrue

IInv == Typed /\ Counted /\ Told /\ Named /\ Indexed /\ Spoken /\ Reasoned

---------------------------------------------------------------------------
(* Going on to the next file *)

\* The part of a row a unit is at is one of its kinds.
LEMMA PartHere ==
  ASSUME NEW u \in Units, AtAFile(u)
  PROVE  /\ Parts(u.writer)[u.part] \in Kinds /\ u.writer \in Writers
         /\ u.at \in DOMAIN u.rows /\ u.rows[u.at] \in Row /\ u.at \in Nat \ {0}
         /\ u.part \in DOMAIN Parts(u.writer) /\ u.part \in Nat \ {0}
<1>1. u.writer \in Writers /\ u.rows \in Seq(Row) /\ u.at \in Nat \ {0} /\ u.part \in Nat \ {0}
  BY DEF Units
<1>2. /\ Parts(u.writer) \in Seq(Kinds) /\ Len(Parts(u.writer)) \in 1..3
      /\ DOMAIN Parts(u.writer) = 1..Len(Parts(u.writer))
  BY <1>1, PartsAreFew
<1>3. u.part \in 1..Len(Parts(u.writer)) /\ u.at \in 1..Len(u.rows)
  BY DEF AtAFile
<1>4. u.at \in DOMAIN u.rows /\ u.rows[u.at] \in Row
  BY <1>1, <1>3
<1>5. Parts(u.writer)[u.part] \in Kinds
  BY <1>2, <1>3
<1> QED
  BY <1>1, <1>2, <1>3, <1>4, <1>5

\* The name of the file a unit is at is one the directory has not handed out.
LEMMA NameHere ==
  ASSUME NEW u \in Units, AtAFile(u), IsFiniteSet(u.used)
  PROVE  /\ fileName(u) \in FileNames
         /\ fileName(u)[1] = Parts(u.writer)[u.part] /\ fileName(u)[2] = nameHere(u)
         /\ u.writer # Modules => nameHere(u) = <<u.at>> /\ handsOut(u) = u.used
         /\ u.writer = Modules => nameHere(u) \notin u.used /\ handsOut(u) = u.used \cup {nameHere(u)}
         /\ handsOut(u) \in SUBSET Seq(Nat) /\ IsFiniteSet(handsOut(u))
<1>1. Parts(u.writer)[u.part] \in Kinds /\ u.rows[u.at] \in Row /\ u.at \in Nat
  BY PartHere
<1>2. u.used \in SUBSET Seq(Nat)
  BY DEF Units
<1>3. u.rows[u.at].stem \in Seq(Nat)
  BY <1>1 DEF Row
<1>4. /\ u.writer # Modules => nameHere(u) = <<u.at>> /\ handsOut(u) = u.used
      /\ u.writer = Modules => nameHere(u) \notin u.used /\ handsOut(u) = u.used \cup {nameHere(u)}
      /\ nameHere(u) \in Seq(Nat)
  <2>1. CASE u.writer = Modules
    <3>1. nameHere(u) = moduleFileName(u.rows[u.at].stem, u.used)
      BY <2>1 DEF nameHere
    <3>2. nameHere(u) \in Seq(Nat) /\ nameHere(u) \notin u.used
      BY <1>2, <1>3, <3>1, NewName
    <3> QED
      BY <2>1, <3>2 DEF handsOut
  <2>2. CASE u.writer # Modules
    <3>1. nameHere(u) = <<u.at>> /\ handsOut(u) = u.used
      BY <2>2 DEF nameHere, handsOut
    <3> QED
      BY <1>1, <2>2, <3>1
  <2> QED
    BY <2>1, <2>2
<1>5. handsOut(u) \in SUBSET Seq(Nat) /\ IsFiniteSet(handsOut(u))
  <2>1. CASE u.writer = Modules
    <3>1. IsFiniteSet(u.used \cup {nameHere(u)})
      BY FS_AddElement
    <3> QED
      BY <1>2, <1>4, <2>1, <3>1
  <2>2. CASE u.writer # Modules
    BY <1>2, <1>4, <2>2
  <2> QED
    BY <2>1, <2>2
<1>6. fileName(u) = <<Parts(u.writer)[u.part], nameHere(u)>>
  BY DEF fileName
<1> QED
  BY <1>1, <1>4, <1>5, <1>6 DEF FileNames

\* [v] is the unit at the same file, with more said of it.
Same(v) ==
  /\ v \in Units /\ v.pc = unit.pc /\ v.writer = unit.writer /\ v.target = unit.target
  /\ v.rows = unit.rows /\ v.at = unit.at /\ v.part = unit.part /\ v.used = unit.used
  /\ v.err = unit.err /\ v.unsaid = unit.unsaid

\* Where the next file is.
Next3 ==
  \/ /\ unit.part < Len(Parts(unit.writer)) /\ unit'.pc = "writing"
     /\ unit'.at = unit.at /\ unit'.part = unit.part + 1
  \/ /\ unit.part = Len(Parts(unit.writer)) /\ unit.at < Len(unit.rows) /\ unit'.pc = "writing"
     /\ unit'.at = unit.at + 1 /\ unit'.part = 1
  \/ /\ unit.part = Len(Parts(unit.writer)) /\ unit.at = Len(unit.rows)
     /\ unit'.pc = IF unit.writer = Document THEN "ended" ELSE "indexing"

Onward ==
  /\ unit.pc = "writing" /\ unit' \in Units
  /\ unit'.writer = unit.writer /\ unit'.target = unit.target /\ unit'.rows = unit.rows
  /\ unit'.err = unit.err /\ unit'.unsaid = unit.unsaid /\ unit'.used = handsOut(unit)
  /\ Next3

\* A unit goes on with what was said of its file.
LEMMA GoesOn ==
  ASSUME Typed, unit.pc = "writing", NEW v, Same(v), unit' = Advance(v)
  PROVE  /\ Onward
         /\ unit'.bytes = v.bytes /\ unit'.wrote = v.wrote /\ unit'.named = v.named
         /\ unit'.omitted = v.omitted
<1>1. AtAFile(unit) /\ unit \in Units /\ IsFiniteSet(unit.used)
  BY DEF Typed
<1>2. AtAFile(v) /\ v \in Units /\ v.pc = "writing"
  BY <1>1 DEF Same, AtAFile
<1>3. handsOut(v) = handsOut(unit)
  BY DEF Same, handsOut, nameHere
<1>4. handsOut(v) \in SUBSET Seq(Nat)
  BY <1>1, <1>3, NameHere
<1>5. /\ Advance(v) \in Units /\ Carried(v, Advance(v)) /\ Advance(v).used = handsOut(v)
      /\ \/ /\ v.part < Len(Parts(v.writer)) /\ Advance(v).pc = "writing"
            /\ Advance(v).at = v.at /\ Advance(v).part = v.part + 1
         \/ /\ v.part = Len(Parts(v.writer)) /\ v.at < Len(v.rows) /\ Advance(v).pc = "writing"
            /\ Advance(v).at = v.at + 1 /\ Advance(v).part = 1
         \/ /\ v.part = Len(Parts(v.writer)) /\ v.at = Len(v.rows)
            /\ Advance(v).pc = IF v.writer = Document THEN "ended" ELSE "indexing"
  BY <1>2, <1>4, Advancing
<1>6. Next3
  BY <1>5 DEF Same, Next3
<1> QED
  BY <1>3, <1>5, <1>6 DEF Same, Onward, Carried

\* An omission is all that is added.
LEMMA OmittedIs ==
  ASSUME NEW u \in Units, AtAFile(u), NEW reason \in Reasons
  PROVE  /\ Omitted(u, reason) \in Units
         /\ Omitted(u, reason).omitted = u.omitted \cup {<<u.at, Parts(u.writer)[u.part], reason>>}
         /\ Omitted(u, reason).pc = u.pc /\ Omitted(u, reason).writer = u.writer
         /\ Omitted(u, reason).target = u.target /\ Omitted(u, reason).rows = u.rows
         /\ Omitted(u, reason).at = u.at /\ Omitted(u, reason).part = u.part
         /\ Omitted(u, reason).used = u.used /\ Omitted(u, reason).named = u.named
         /\ Omitted(u, reason).bytes = u.bytes /\ Omitted(u, reason).wrote = u.wrote
         /\ Omitted(u, reason).err = u.err /\ Omitted(u, reason).unsaid = u.unsaid
<1> DEFINE o == <<u.at, Parts(u.writer)[u.part], reason>>
<1>1. o \in Nat \X Kinds \X Reasons
  BY PartHere
<1>2. Omitted(u, reason) = [u EXCEPT !.omitted = u.omitted \cup {o}]
  BY DEF Omitted
<1> HIDE DEF o
<1>3. u.omitted \cup {o} \in SUBSET (Nat \X Kinds \X Reasons)
  BY <1>1 DEF Units
<1> QED
  BY <1>2, <1>3 DEF Units, o

\* What is said of a file that was dealt with.
TrueOf(row, part, reason) ==
  CASE reason \in {"absent", "not rendered"} -> part = "text" \/ ~row.held
    [] reason = "too large" -> row.held /\ row.big
    [] reason = "beyond" -> row.past
    [] reason = "encrypted" -> row.odd
    [] OTHER -> TRUE

Added(os) ==
  /\ unit.omitted \subseteq os
  /\ \A o \in os \ unit.omitted : o[1] = unit.at /\ o[2] = ThisPart /\ TrueOf(ThisRow, o[2], o[3])

\* A writer's reason is a true one.
LEMMA HonestIsTrue ==
  ASSUME NEW w, NEW row, row.big => row.held, NEW part, NEW reason, Honest(w, row, reason)
  PROVE  TrueOf(row, part, reason)
BY DEF Honest, TrueOf

---------------------------------------------------------------------------
(* The three ways on *)

\* The reason found for a file, when there is one.
LEMMA ReasonIs ==
  ASSUME Typed, unit.pc = "writing"
  PROVE  \/ reasonHere = "write"
         \/ reasonHere = "not asked" /\ unit.writer = Profiled
            /\ unit.at \notin selected[unit.target].ids
         \/ Honest(unit.writer, ThisRow, reasonHere)
<1>1. unit.writer \in Writers /\ ThisRow \in Row
  BY PartHere DEF Typed, ThisRow
<1>2. Honest(unit.writer, ThisRow, writerFor(unit.writer, ThisRow))
  BY <1>1, WritersAreHonest
<1> QED
  BY <1>2 DEF reasonHere

\* A selection changes in the detail writer's units only.
LEMMA SelectsIs ==
  ASSUME NEW u, u.writer # Detail
  PROVE  selects(u) = selected
BY DEF selects

\* A file left out: it has its word, or needs none.
LEMMA OmitsIs ==
  ASSUME Typed, Reasoned, Omits
  PROVE  /\ Onward /\ Added(unit'.omitted)
         /\ unit'.bytes = unit.bytes /\ unit'.wrote = unit.wrote /\ unit'.named = unit.named
         /\ \A i, k : i = unit.at /\ k = unit.part => Speaks(i, k)'
<1>1. unit \in Units /\ AtAFile(unit) /\ unit.pc = "writing" /\ reasonHere # "write"
  BY DEF Typed, Omits
<1>2. ThisPart \in Kinds /\ unit.at \in DOMAIN unit.rows /\ ThisRow \in Row
  BY <1>1, PartHere DEF ThisPart, ThisRow
<1>3. \/ reasonHere = "not asked" /\ unit.writer = Profiled
         /\ unit.at \notin selected[unit.target].ids
      \/ Honest(unit.writer, ThisRow, reasonHere)
  BY <1>1, ReasonIs
<1>4. CASE reasonHere \in {"in its episode", "not asked"}
  <2>1. unit' = Advance(unit) /\ Same(unit)
    BY <1>1, <1>4 DEF Omits, Same
  <2>2. /\ Onward /\ unit'.bytes = unit.bytes /\ unit'.wrote = unit.wrote /\ unit'.named = unit.named
        /\ unit'.omitted = unit.omitted
    BY <1>1, <2>1, GoesOn
  <2>3. \/ unit'.writer = Reports /\ unit'.rows[unit.at].odd
        \/ unit'.writer = Profiled /\ unit.at \notin selected'[unit'.target].ids
    <3>1. CASE reasonHere = "in its episode"
      BY <1>3, <2>2, <3>1 DEF Honest, Onward, ThisRow
    <3>2. CASE reasonHere = "not asked"
      <4>1. unit.writer = Profiled /\ unit.at \notin selected[unit.target].ids
        BY <1>3, <3>2 DEF Honest
      <4>2. unit'.writer = Profiled /\ unit'.writer # Detail /\ unit'.target = unit.target
        BY <2>2, <4>1 DEF Onward, Profiled, Detail
      <4>3. selected' = selected
        BY <4>2, SelectsIs DEF Omits
      <4> QED
        BY <4>1, <4>2, <4>3
    <3> QED
      BY <1>4, <3>1, <3>2
  <2> QED
    BY <2>2, <2>3 DEF Added, Speaks
<1>5. CASE reasonHere \notin {"in its episode", "not asked"}
  <2> DEFINE v == Omitted(unit, reasonHere)
             o == <<unit.at, ThisPart, reasonHere>>
  <2>1. Honest(unit.writer, ThisRow, reasonHere) /\ reasonHere \in Reasons
    BY <1>3, <1>5 DEF Honest
  <2>2. /\ Same(v) /\ v.omitted = unit.omitted \cup {o}
        /\ v.bytes = unit.bytes /\ v.wrote = unit.wrote /\ v.named = unit.named
    BY <1>1, <2>1, OmittedIs DEF Same, ThisPart
  <2>3. unit' = Advance(v)
    BY <1>5 DEF Omits
  <2> HIDE DEF v
  <2>4. /\ Onward /\ unit'.bytes = unit.bytes /\ unit'.wrote = unit.wrote /\ unit'.named = unit.named
        /\ unit'.omitted = unit.omitted \cup {o}
    BY <1>1, <2>2, <2>3, GoesOn
  <2>5. TrueOf(ThisRow, ThisPart, reasonHere)
    <3>1. ThisRow.big => ThisRow.held
      BY <1>2 DEF Reasoned, ThisRow
    <3> QED
      BY <2>1, <3>1, HonestIsTrue
  <2>6. Added(unit'.omitted)
    BY <2>4, <2>5 DEF Added
  <2>7. o \in unit'.omitted /\ o[1] = unit.at /\ o[2] = Parts(unit'.writer)[unit.part]
    BY <2>4 DEF Onward, ThisPart
  <2> QED
    BY <2>4, <2>6, <2>7 DEF Speaks
<1> QED
  BY <1>4, <1>5

\* A query with no text says so, and is written.
LEMMA TextedIs ==
  ASSUME NEW u \in Units, AtAFile(u)
  PROVE  /\ Texted(u) \in Units
         /\ \/ Texted(u).omitted = u.omitted
            \/ /\ Parts(u.writer)[u.part] = "text"
               /\ Texted(u).omitted = u.omitted \cup {<<u.at, "text", "absent">>}
         /\ Texted(u).pc = u.pc /\ Texted(u).writer = u.writer
         /\ Texted(u).target = u.target /\ Texted(u).rows = u.rows
         /\ Texted(u).at = u.at /\ Texted(u).part = u.part
         /\ Texted(u).used = u.used /\ Texted(u).named = u.named
         /\ Texted(u).bytes = u.bytes /\ Texted(u).wrote = u.wrote
         /\ Texted(u).err = u.err /\ Texted(u).unsaid = u.unsaid
<1>1. CASE Texted(u) = u
  BY <1>1
<1>2. CASE Texted(u) # u
  <2>1. Parts(u.writer)[u.part] = "text" /\ Texted(u) = Omitted(u, "absent")
    BY <1>2 DEF Texted
  <2>2. "absent" \in Reasons
    BY DEF Reasons
  <2> QED
    BY <2>1, <2>2, OmittedIs
<1> QED
  BY <1>1, <1>2

\* What the file itself says is true, and is of this file.
LEMMA TextedAdds ==
  ASSUME unit \in Units, AtAFile(unit)
  PROVE  /\ Same(Texted(unit)) /\ Added(Texted(unit).omitted) /\ AtAFile(Texted(unit))
         /\ Texted(unit).bytes = unit.bytes /\ Texted(unit).wrote = unit.wrote
         /\ Texted(unit).named = unit.named
<1>1. TrueOf(ThisRow, "text", "absent")
  BY DEF TrueOf
<1>2. Added(Texted(unit).omitted)
  BY <1>1, TextedIs DEF Added, ThisPart
<1> QED
  BY <1>2, TextedIs DEF Same, AtAFile

\* A file the budget refuses: it says so.
LEMMA RefusedIs ==
  ASSUME Typed, Refused
  PROVE  /\ Onward /\ Added(unit'.omitted)
         /\ unit'.bytes = unit.bytes /\ unit'.wrote = unit.wrote /\ unit'.named = unit.named
         /\ \A i, k : i = unit.at /\ k = unit.part => Speaks(i, k)'
<1> DEFINE t == Texted(unit)
           v == Omitted(t, "budget")
           o == <<unit.at, ThisPart, "budget">>
<1>1. unit \in Units /\ AtAFile(unit) /\ unit.pc = "writing"
  BY DEF Typed, Refused
<1>2. /\ Same(t) /\ Added(t.omitted) /\ AtAFile(t)
      /\ t.bytes = unit.bytes /\ t.wrote = unit.wrote /\ t.named = unit.named
  BY <1>1, TextedAdds
<1>3. unit' = Advance(v)
  BY DEF Refused
<1>4. "budget" \in Reasons
  BY DEF Reasons
<1> HIDE DEF t
<1>5. /\ Same(v) /\ v.omitted = t.omitted \cup {o}
      /\ v.bytes = t.bytes /\ v.wrote = t.wrote /\ v.named = t.named
  BY <1>2, <1>4, OmittedIs DEF Same, ThisPart
<1> HIDE DEF v
<1>6. /\ Onward /\ unit'.bytes = unit.bytes /\ unit'.wrote = unit.wrote /\ unit'.named = unit.named
      /\ unit'.omitted = t.omitted \cup {o}
  BY <1>1, <1>2, <1>3, <1>5, GoesOn
<1>7. TrueOf(ThisRow, ThisPart, "budget")
  BY DEF TrueOf
<1>8. Added(unit'.omitted)
  BY <1>2, <1>6, <1>7 DEF Added
<1>9. o \in unit'.omitted /\ o[1] = unit.at /\ o[2] = Parts(unit'.writer)[unit.part]
  BY <1>6 DEF Onward, ThisPart
<1> QED
  BY <1>6, <1>8, <1>9 DEF Speaks

\* Three fields of a file written.
Filed(u, b, w, n) == [u EXCEPT !.bytes = b, !.wrote = w, !.named = n]

\* They are all that changes.
LEMMA FiledIs ==
  ASSUME NEW u \in Units, NEW b \in Nat, NEW w \in SUBSET Kinds, NEW n \in SUBSET (Nat \X FileNames)
  PROVE  /\ Filed(u, b, w, n) \in Units /\ Filed(u, b, w, n).bytes = b
         /\ Filed(u, b, w, n).wrote = w /\ Filed(u, b, w, n).named = n
         /\ Filed(u, b, w, n).omitted = u.omitted
         /\ Filed(u, b, w, n).pc = u.pc /\ Filed(u, b, w, n).writer = u.writer
         /\ Filed(u, b, w, n).target = u.target /\ Filed(u, b, w, n).rows = u.rows
         /\ Filed(u, b, w, n).at = u.at /\ Filed(u, b, w, n).part = u.part
         /\ Filed(u, b, w, n).used = u.used
         /\ Filed(u, b, w, n).err = u.err /\ Filed(u, b, w, n).unsaid = u.unsaid
BY DEF Filed, Units

\* What each writer may put on the disk.
LEMMA KindsAre ==
  /\ KindsOf(Detail) = {"text", "plan", "stats", "plan in a text"}
  /\ KindsOf(Profiled) = {"profiled"} /\ KindsOf(Cached) = {"cached plan"}
  /\ KindsOf(Modules) = {"definition", "plan in a text"}
  /\ KindsOf(Deadlocks) = {"graph", "plan in a text"}
  /\ KindsOf(Reports) = {"report", "plan in a text"}
  /\ KindsOf(Document) = {"document", "plan in a text"}
BY DEF KindsOf, Detail, Profiled, Modules, Deadlocks, Reports, Cached, Document

\* The contents and the size of a file.
LEMMA KindHere ==
  ASSUME unit \in Units, AtAFile(unit)
  PROVE  /\ Contents(unit, unit.at, ThisPart) \subseteq KindsOf(unit.writer)
         /\ Contents(unit, unit.at, ThisPart) \subseteq Kinds
         /\ Size(unit, unit.at, ThisPart) \in Nat
         /\ ThisPart \in Kinds
<1>1. unit.writer \in {Detail, Profiled, Modules, Deadlocks, Reports, Cached, Document}
  BY DEF Units, Writers, PerDatabase
<1>2. unit.part \in 1..Len(Parts(unit.writer)) /\ ThisPart = Parts(unit.writer)[unit.part]
  BY DEF AtAFile, ThisPart
<1>3. \/ Contents(unit, unit.at, ThisPart) = {ThisPart}
      \/ /\ ThisPart \notin {"profiled", "cached plan"}
         /\ Contents(unit, unit.at, ThisPart) = {ThisPart, "plan in a text"}
  BY DEF Contents, Plans
<1>4. /\ ThisPart \in KindsOf(unit.writer)
      /\ ThisPart \notin {"profiled", "cached plan"} => "plan in a text" \in KindsOf(unit.writer)
  <2>2. ASSUME NEW p, Parts(unit.writer) = <<p>> PROVE ThisPart = p
    <3>1. Len(Parts(unit.writer)) = 1 /\ Parts(unit.writer)[1] = p
      BY <2>2
    <3>2. unit.part = 1
      BY <1>2, <3>1
    <3> QED
      BY <1>2, <3>1, <3>2
  <2>3. CASE unit.writer = Profiled
    <3>1. ThisPart = "profiled"
      BY <2>2, <2>3, PartsAre
    <3> QED
      BY <2>3, <3>1, KindsAre
  <2>4. CASE unit.writer = Modules
    <3>1. ThisPart = "definition"
      BY <2>2, <2>4, PartsAre
    <3> QED
      BY <2>4, <3>1, KindsAre
  <2>5. CASE unit.writer = Deadlocks
    <3>1. ThisPart = "graph"
      BY <2>2, <2>5, PartsAre
    <3> QED
      BY <2>5, <3>1, KindsAre
  <2>6. CASE unit.writer = Reports
    <3>1. ThisPart = "report"
      BY <2>2, <2>6, PartsAre
    <3> QED
      BY <2>6, <3>1, KindsAre
  <2>7. CASE unit.writer = Cached
    <3>1. ThisPart = "cached plan"
      BY <2>2, <2>7, PartsAre
    <3> QED
      BY <2>7, <3>1, KindsAre
  <2>8. CASE unit.writer = Document
    <3>1. ThisPart = "document"
      BY <2>2, <2>8, PartsAre
    <3> QED
      BY <2>8, <3>1, KindsAre
  <2>9. CASE unit.writer = Detail
    <3>2. unit.part \in {1, 2, 3}
      BY <1>2, <2>9, ThreeParts
    <3>3. ThisPart \in {"text", "plan", "stats"}
      BY <1>2, <2>9, <3>2, ThreeParts
    <3> QED
      BY <2>9, <3>3, KindsAre
  <2> QED
    BY <1>1, <2>3, <2>4, <2>5, <2>6, <2>7, <2>8, <2>9
<1>5. \A w \in Writers : KindsOf(w) \subseteq Kinds
  BY DEF KindsOf, Detail, Profiled, Modules, Deadlocks, Reports, Cached, Document, Kinds
<1>6. Size(unit, unit.at, ThisPart) \in {0, 1}
  BY DEF Size
<1>7. unit.writer \in Writers
  BY DEF Units
<1>8. Contents(unit, unit.at, ThisPart) \subseteq KindsOf(unit.writer)
  BY <1>3, <1>4
<1>9. KindsOf(unit.writer) \subseteq Kinds
  BY <1>5, <1>7
<1>10. ThisPart \in Kinds /\ Contents(unit, unit.at, ThisPart) \subseteq Kinds
  BY <1>4, <1>8, <1>9
<1>11. Size(unit, unit.at, ThisPart) \in Nat
  BY <1>6
<1> QED
  BY <1>8, <1>10, <1>11, Zenon

\* The file that is written.
ThisFile == [name |-> ThisName, row |-> unit.at, part |-> ThisPart, whole |-> TRUE]
ThisSize == Size(unit, unit.at, ThisPart)
ThisContents == Contents(unit, unit.at, ThisPart)

\* A file written: it is named.
LEMMA WritesIs ==
  ASSUME Typed, Writes
  PROVE  /\ Onward /\ Added(unit'.omitted)
         /\ unit'.bytes = unit.bytes + ThisSize /\ unit'.wrote = unit.wrote \cup ThisContents
         /\ unit'.named = unit.named \cup {<<unit.at, ThisName>>}
         /\ \A i, k : i = unit.at /\ k = unit.part => Speaks(i, k)'
<1> DEFINE t == Texted(unit)
           v == Filed(t, unit.bytes + ThisSize, unit.wrote \cup ThisContents,
                      unit.named \cup {<<unit.at, ThisName>>})
<1>1. unit \in Units /\ AtAFile(unit) /\ unit.pc = "writing" /\ IsFiniteSet(unit.used)
  BY DEF Typed, Writes
<1>2. /\ Same(t) /\ Added(t.omitted) /\ AtAFile(t)
      /\ t.bytes = unit.bytes /\ t.wrote = unit.wrote /\ t.named = unit.named
  BY <1>1, TextedAdds
<1>3. unit' = Advance(v)
  BY <1>2 DEF Writes, Filed, ThisSize, ThisContents
<1>4. /\ unit.bytes + ThisSize \in Nat /\ unit.wrote \cup ThisContents \in SUBSET Kinds
      /\ unit.named \cup {<<unit.at, ThisName>>} \in SUBSET (Nat \X FileNames)
      /\ ThisName[1] = ThisPart
  <2>1. ThisSize \in Nat /\ ThisContents \subseteq Kinds
    BY <1>1, KindHere DEF ThisSize, ThisContents
  <2>2. ThisName \in FileNames /\ ThisName[1] = ThisPart
    BY <1>1, NameHere DEF ThisName, ThisPart
  <2>3. unit.at \in Nat
    BY <1>1, PartHere
  <2>4. /\ unit.bytes \in Nat /\ unit.wrote \in SUBSET Kinds
        /\ unit.named \in SUBSET (Nat \X FileNames)
    BY <1>1 DEF Units
  <2> QED
    BY <2>1, <2>2, <2>3, <2>4
<1> HIDE DEF t
<1>5. /\ v \in Units /\ v.omitted = t.omitted /\ v.bytes = unit.bytes + ThisSize
      /\ v.wrote = unit.wrote \cup ThisContents
      /\ v.named = unit.named \cup {<<unit.at, ThisName>>} /\ Same(v)
  BY <1>2, <1>4, FiledIs DEF Same
<1> HIDE DEF v
<1>6. /\ Onward /\ unit'.bytes = unit.bytes + ThisSize /\ unit'.wrote = unit.wrote \cup ThisContents
      /\ unit'.named = unit.named \cup {<<unit.at, ThisName>>} /\ unit'.omitted = t.omitted
  BY <1>1, <1>3, <1>5, GoesOn
<1>7. \E file \in unit'.named : file[1] = unit.at /\ file[2][1] = Parts(unit'.writer)[unit.part]
  <2>1. <<unit.at, ThisName>> \in unit'.named
    BY <1>6
  <2>2. ThisName[1] = Parts(unit'.writer)[unit.part]
    BY <1>4, <1>6 DEF Onward, ThisPart
  <2> QED
    BY <2>1, <2>2
<1> QED
  BY <1>2, <1>6, <1>7 DEF Speaks

---------------------------------------------------------------------------
(* Types *)

\* A file is on the disk, whole or cut.
LEMMA FileIs ==
  ASSUME Typed, unit.pc = "writing", NEW b \in BOOLEAN
  PROVE  [name |-> ThisName, row |-> unit.at, part |-> ThisPart, whole |-> b] \in Files
<1>1. unit \in Units /\ AtAFile(unit) /\ IsFiniteSet(unit.used)
  BY DEF Typed
<1>2. ThisName \in FileNames
  BY <1>1, NameHere DEF ThisName
<1>3. unit.at \in Nat /\ ThisPart \in Kinds
  BY <1>1, PartHere DEF ThisPart
<1> QED
  BY <1>2, <1>3 DEF Files

\* A unit that goes on is at a file, or is through.
LEMMA OnwardTyped ==
  ASSUME Typed, Onward
  PROVE  /\ unit' \in Units /\ IsFiniteSet(unit'.used) /\ unit'.pc # "none" /\ unit'.pc # "failing"
         /\ unit'.pc = "writing" => AtAFile(unit')
<1>1. unit \in Units /\ AtAFile(unit) /\ IsFiniteSet(unit.used)
  BY DEF Typed, Onward
<1>2. IsFiniteSet(unit'.used)
  BY <1>1, NameHere DEF Onward
<1>3. Len(Parts(unit.writer)) \in 1..3 /\ unit.rows \in Seq(Row)
  BY <1>1, PartsAreFew DEF Units
<1>4. unit'.pc = "writing" => unit'.at \in 1..Len(unit.rows) /\ unit'.part \in 1..Len(Parts(unit.writer))
  BY <1>1, <1>3 DEF Onward, Next3, AtAFile
<1>5. unit'.pc \in {"writing", "ended", "indexing"}
  BY DEF Onward, Next3
<1> QED
  BY <1>1, <1>2, <1>4, <1>5 DEF Onward, AtAFile

\* A selection keeps its type.
LEMMA SelectedTyped ==
  ASSUME Typed, NEW u \in Units
  PROVE  selects(u) \in [Databases -> [delivered : BOOLEAN, ids : SUBSET Nat]]
<1>1. selected \in [Databases -> [delivered : BOOLEAN, ids : SUBSET Nat]]
  BY DEF Typed
<1>2. DOMAIN u.rows \in SUBSET Nat
  BY DEF Units
<1>3. [delivered |-> TRUE, ids |-> DOMAIN u.rows] \in [delivered : BOOLEAN, ids : SUBSET Nat]
  BY <1>2
<1>4. ASSUME NEW x \in [delivered : BOOLEAN, ids : SUBSET Nat]
      PROVE  [selected EXCEPT ![u.target] = x]
               \in [Databases -> [delivered : BOOLEAN, ids : SUBSET Nat]]
  BY <1>1
<1> QED
  BY <1>1, <1>3, <1>4 DEF selects

\* Three fields of a unit that fails, two of one that closes.
Failed(u, p, n) == [u EXCEPT !.pc = p, !.err = TRUE, !.named = n]
Closed(u, b) == [u EXCEPT !.pc = "ended", !.bytes = b]

\* The three of a failure are all that changes.
LEMMA FailedIs ==
  ASSUME NEW u \in Units, NEW p \in Places, NEW n \in SUBSET (Nat \X FileNames)
  PROVE  /\ Failed(u, p, n) \in Units /\ Failed(u, p, n).pc = p /\ Failed(u, p, n).err
         /\ Failed(u, p, n).named = n /\ Failed(u, p, n).used = u.used
         /\ Failed(u, p, n).writer = u.writer /\ Failed(u, p, n).target = u.target
         /\ Failed(u, p, n).rows = u.rows /\ Failed(u, p, n).bytes = u.bytes
         /\ Failed(u, p, n).wrote = u.wrote /\ Failed(u, p, n).omitted = u.omitted
         /\ Failed(u, p, n).unsaid = u.unsaid
BY DEF Failed, Units

\* The two of a unit that closes are all that changes.
LEMMA ClosedIs ==
  ASSUME NEW u \in Units, NEW b \in Nat
  PROVE  /\ Closed(u, b) \in Units /\ Closed(u, b).pc = "ended" /\ Closed(u, b).bytes = b
         /\ Closed(u, b).named = u.named /\ Closed(u, b).used = u.used /\ Closed(u, b).err = u.err
         /\ Closed(u, b).writer = u.writer /\ Closed(u, b).target = u.target
         /\ Closed(u, b).rows = u.rows /\ Closed(u, b).wrote = u.wrote
         /\ Closed(u, b).omitted = u.omitted /\ Closed(u, b).unsaid = u.unsaid
BY DEF Closed, Units, Places

\* A file that fails: the unit is at its end, or has its index to write.
LEMMA WriteFailsIs ==
  ASSUME Typed, WriteFails
  PROVE  /\ unit.pc = "writing" /\ unit' \in Units /\ unit'.err
         /\ unit'.pc = IF unit.writer = Document THEN "ended" ELSE "failing"
         /\ unit'.writer = unit.writer /\ unit'.target = unit.target /\ unit'.rows = unit.rows
         /\ unit'.used = unit.used /\ unit'.named = unit.named /\ unit'.bytes = unit.bytes
         /\ unit'.wrote = unit.wrote /\ unit'.unsaid = unit.unsaid /\ Added(unit'.omitted)
<1> DEFINE t == Texted(unit)
<1>1. unit \in Units /\ AtAFile(unit) /\ unit.pc = "writing"
  BY DEF Typed, WriteFails
<1>2. /\ Same(t) /\ Added(t.omitted) /\ t.bytes = unit.bytes /\ t.wrote = unit.wrote
  BY <1>1, TextedAdds
<1>3. afterFailure(unit) = (IF unit.writer = Document THEN "ended" ELSE "failing")
      /\ afterFailure(unit) \in Places
  BY DEF afterFailure, Places
<1>4. abandon(unit) = unit.named /\ unit.named \in SUBSET (Nat \X FileNames)
  BY <1>1 DEF abandon, Units
<1>5. unit' = Failed(t, afterFailure(unit), abandon(unit))
  BY DEF WriteFails, Failed
<1> HIDE DEF t
<1>6. t \in Units
  BY <1>2 DEF Same
<1>7. /\ unit' \in Units /\ unit'.pc = afterFailure(unit) /\ unit'.err
      /\ unit'.named = unit.named /\ unit'.used = t.used /\ unit'.writer = t.writer
      /\ unit'.target = t.target /\ unit'.rows = t.rows /\ unit'.bytes = t.bytes
      /\ unit'.wrote = t.wrote /\ unit'.omitted = t.omitted /\ unit'.unsaid = t.unsaid
  <2>1. unit' = Failed(t, afterFailure(unit), unit.named)
    BY <1>4, <1>5
  <2> DEFINE p == afterFailure(unit)
             n == unit.named
  <2>2. p \in Places /\ n \in SUBSET (Nat \X FileNames) /\ unit' = Failed(t, p, n)
    BY <1>3, <1>4, <2>1
  <2>3. /\ unit' \in Units /\ unit'.pc = p /\ unit'.err
        /\ unit'.named = n /\ unit'.used = t.used /\ unit'.writer = t.writer
        /\ unit'.target = t.target /\ unit'.rows = t.rows /\ unit'.bytes = t.bytes
        /\ unit'.wrote = t.wrote /\ unit'.omitted = t.omitted /\ unit'.unsaid = t.unsaid
    <3> HIDE DEF p, n
    <3> DEFINE v == Failed(t, p, n)
    <3>1. /\ v \in Units /\ v.pc = p /\ v.err /\ v.named = n /\ v.used = t.used
          /\ v.writer = t.writer /\ v.target = t.target /\ v.rows = t.rows /\ v.bytes = t.bytes
          /\ v.wrote = t.wrote /\ v.omitted = t.omitted /\ v.unsaid = t.unsaid
      BY <1>6, <2>2, FailedIs
    <3>2. unit' = v
      BY <2>2
    <3> HIDE DEF v
    <3> QED
      BY <3>1, <3>2
  <2> QED
    BY <2>3
<1> QED
  BY <1>1, <1>2, <1>3, <1>7 DEF Same

\* The index is written: the unit is at its end.
LEMMA WritesIndexIs ==
  ASSUME Typed, WritesIndex
  PROVE  /\ unit' \in Units /\ unit'.pc = "ended" /\ unit'.bytes = unit.bytes + 1
         /\ unit'.writer = unit.writer /\ unit'.target = unit.target /\ unit'.rows = unit.rows
         /\ unit'.used = unit.used /\ unit'.named = unit.named /\ unit'.wrote = unit.wrote
         /\ unit'.omitted = unit.omitted /\ unit'.err = unit.err /\ unit'.unsaid = unit.unsaid
         /\ spent' = spent + 1
<1>1. unit \in Units /\ unit.bytes + 1 \in Nat
  BY DEF Typed, Units
<1>2. unit' = Closed(unit, unit.bytes + 1) /\ spent' = spent + 1
  BY DEF WritesIndex, Closed, IndexSize
<1> QED
  BY <1>1, <1>2, ClosedIs

\* A unit that begins has done nothing yet.
LEMMA BeginIs ==
  ASSUME NEW w \in Writers, NEW t \in Databases \cup {NoDatabase}, NEW rows \in Inputs[w],
         NEW off \in BOOLEAN, NEW lost \in BOOLEAN, Begin(w, t, rows, off, lost)
  PROVE  /\ unit' \in Units /\ unit'.pc \in {"writing", "indexing"} /\ unit'.used = {}
         /\ unit'.named = {} /\ unit'.omitted = {} /\ unit'.bytes = 0 /\ unit'.wrote = {}
         /\ unit'.err = FALSE /\ unit'.at = 1 /\ unit'.part = 1 /\ unit'.writer = w
         /\ unit'.rows = <<>> \/ unit'.rows = rows
         /\ unit'.pc = "writing" => AtAFile(unit')
         /\ unit'.pc = "indexing" => unit'.rows = <<>>
         /\ \A i \in DOMAIN unit'.rows : unit'.rows[i].big => unit'.rows[i].held
<1>1. rows \in Seq(Row) /\ \A i \in DOMAIN rows : rows[i].big => rows[i].held
  BY CollectorsAssumption
<1> DEFINE q == IF rows = <<>> \/ Skips(w, t, off) THEN "indexing" ELSE "writing"
           s == IF Skips(w, t, off) THEN <<>> ELSE rows
<1>2. unit' = [pc |-> q, writer |-> w, target |-> t, rows |-> s, at |-> 1, part |-> 1, used |-> {},
               named |-> {}, omitted |-> {}, bytes |-> 0, wrote |-> {}, err |-> FALSE,
               unsaid |-> FALSE]
  BY DEF Begin, NoUnit
<1>3. /\ s \in Seq(Row) /\ (s = <<>> \/ s = rows) /\ q \in {"writing", "indexing"} /\ q \in Places
      /\ q = "indexing" => s = <<>>
      /\ q = "writing" => s = rows /\ rows # <<>>
  BY <1>1 DEF Places
<1> HIDE DEF q, s
<1>4. unit' \in Units
  BY <1>2, <1>3 DEF Units
<1>5. ASSUME q = "writing" PROVE AtAFile(unit')
  <2>1. Len(rows) \in Nat /\ Len(rows) # 0
    BY <1>1, <1>3, <1>5
  <2>2. Len(Parts(w)) \in 1..3
    BY PartsAreFew
  <2>3. w = Document => Len(rows) = 1
    BY DEF Begin
  <2> QED
    BY <1>2, <1>3, <1>5, <2>1, <2>2, <2>3, SMTT(30) DEF AtAFile
<1>6. \A i \in DOMAIN s : s[i].big => s[i].held
  BY <1>1, <1>3
<1> QED
  BY <1>2, <1>3, <1>4, <1>5, <1>6

\* No step leaves a variable without its type.
LEMMA TypedKept ==
  ASSUME Typed, Reasoned, Next
  PROVE  Typed'
<1> USE DEF Typed
<1>a. unit \in Units
  OBVIOUS
<1>1. ASSUME Onward, disk' \subseteq Files, selected' = selects(unit'), spent' \in Nat, payload' \in Nat,
             saw' \in BOOLEAN, kinds' \subseteq Kinds,
             UNCHANGED <<listed, partial, done, collected>>
      PROVE  Typed'
  <2>1. /\ unit' \in Units /\ IsFiniteSet(unit'.used) /\ unit'.pc # "none"
        /\ unit'.pc = "writing" => AtAFile(unit')
    BY <1>1, OnwardTyped
  <2>2. selects(unit') \in [Databases -> [delivered : BOOLEAN, ids : SUBSET Nat]]
    BY <2>1, SelectedTyped
  <2>3. unit.pc = "writing" /\ done < MaxUnits
    BY <1>1 DEF Onward
  <2> QED
    BY <1>1, <2>1, <2>2, <2>3
<1>2. CASE Omits
  BY <1>1, <1>2, OmitsIs DEF Omits
<1>3. CASE Refused
  BY <1>1, <1>3, RefusedIs DEF Refused
<1>4. CASE Writes
  <2>1. Onward
    BY <1>4, WritesIs
  <2>2. unit.pc = "writing" /\ AtAFile(unit)
    BY <1>4 DEF Writes
  <2>3. ThisFile \in Files
    BY <2>2, FileIs DEF ThisFile
  <2>4. ThisSize \in Nat /\ ThisContents \subseteq Kinds
    BY <2>2, KindHere DEF ThisSize, ThisContents
  <2>5. spent' \in Nat /\ payload' \in Nat
    BY <1>4, <2>4 DEF Writes, ThisSize
  <2>6. kinds' \subseteq Kinds
    BY <1>4, <2>4 DEF Writes, ThisContents
  <2>7. disk' \subseteq Files
    BY <1>4, <2>3 DEF Writes, ThisFile
  <2>8. saw' \in BOOLEAN
    <3>1. containsShowplan(ThisContents) \in BOOLEAN
      BY DEF containsShowplan
    <3> QED
      BY <1>4, <3>1 DEF Writes, ThisContents
  <2>9. selected' = selects(unit') /\ UNCHANGED <<listed, partial, done, collected>>
    BY <1>4 DEF Writes
  <2> QED
    BY <1>1, <2>1, <2>5, <2>6, <2>7, <2>8, <2>9
<1>5. CASE RefusedDocument
  <2>1. unit' \in Units /\ unit'.pc = "ended" /\ unit'.used = unit.used
    BY <1>a, <1>5 DEF RefusedDocument, Units, Places
  <2> QED
    BY <1>5, <2>1 DEF RefusedDocument, runVars
<1>6. CASE WriteFails
  <2>1. unit.pc = "writing" /\ AtAFile(unit)
    BY <1>6 DEF WriteFails
  <2>2. [name |-> ThisName, row |-> unit.at, part |-> ThisPart, whole |-> FALSE] \in Files
    BY <2>1, FileIs
  <2>3. disk' \subseteq Files
    BY <1>6, <2>2 DEF WriteFails
  <2>4. unit' \in Units /\ unit'.pc \in {"ended", "failing"} /\ unit'.used = unit.used
    BY <1>6, WriteFailsIs
  <2> QED
    BY <1>6, <2>1, <2>3, <2>4 DEF WriteFails, runVars
<1>7. CASE WritesIndex
  BY <1>7, WritesIndexIs DEF WritesIndex
<1>8. CASE IndexFails
  <2>1. unit' \in Units /\ unit'.pc = "ended" /\ unit'.used = unit.used
    BY <1>a, <1>8 DEF IndexFails, Units, Places
  <2> QED
    BY <1>8, <2>1 DEF IndexFails, runVars
<1>9. NoUnit \in Units /\ IsFiniteSet(NoUnit.used) /\ NoUnit.pc = "none"
  <2>1. NoUnit \in Units
    BY DEF NoUnit, Units, Places, Writers
  <2>2. NoUnit.used = {} /\ NoUnit.pc = "none"
    BY DEF NoUnit
  <2> QED
    BY <2>1, <2>2, FS_EmptySet
<1>10. CASE End
  <2>1. discloseWrites(unit) \subseteq Flags
    BY DEF discloseWrites, planOrigin, Flags
  <2>2. resultEntry(unit) \in Nat
    BY <1>a DEF resultEntry, Units
  <2>3. done' \in 0..MaxUnits
    BY <1>10, CollectorsAssumption DEF End
  <2>4. /\ unit' = NoUnit /\ disk' = {} /\ index' = NoIndex /\ saw' = FALSE
        /\ collected' \subseteq Flags /\ listed' \in Nat
        /\ UNCHANGED <<spent, selected, partial, kinds, payload>>
    BY <1>10, <2>1, <2>2 DEF End
  <2>5. NoUnit.pc # "writing"
    BY <1>9
  <2> QED
    BY <1>9, <2>3, <2>4, <2>5
<1>11. CASE BeginRefused
  BY <1>11, CollectorsAssumption DEF BeginRefused
<1>12. ASSUME NEW w \in Writers, NEW t \in Databases \cup {NoDatabase}, NEW rows \in Inputs[w],
             NEW off \in BOOLEAN, NEW lost \in BOOLEAN, Begin(w, t, rows, off, lost)
      PROVE  Typed'
  <2>1. /\ unit' \in Units /\ unit'.pc \in {"writing", "indexing"} /\ IsFiniteSet(unit'.used)
        /\ unit'.pc = "writing" => AtAFile(unit')
    <3>1. /\ unit' \in Units /\ unit'.pc \in {"writing", "indexing"} /\ unit'.used = {}
          /\ unit'.pc = "writing" => AtAFile(unit')
      BY <1>12, BeginIs, ZenonT(60)
    <3> QED
      BY <3>1, FS_EmptySet
  <2>2. publishes(w, t) \in [Databases -> [delivered : BOOLEAN, ids : SUBSET Nat]]
    <3>1. Nothing \in [delivered : BOOLEAN, ids : SUBSET Nat]
      BY DEF Nothing
    <3> QED
      BY <3>1 DEF publishes
  <2>3. partial' \in Nat
    BY <1>12 DEF Begin, reportedErrors
  <2>4. /\ disk' = {} /\ done' = done /\ done < MaxUnits /\ selected' = publishes(w, t)
        /\ UNCHANGED <<spent, saw, collected, listed, kinds, payload>>
    BY <1>12 DEF Begin
  <2> QED
    BY <2>1, <2>2, <2>3, <2>4
<1> HIDE DEF Typed
<1> QED
  BY <1>2, <1>3, <1>4, <1>5, <1>6, <1>7, <1>8, <1>10, <1>11, <1>12 DEF Next

---------------------------------------------------------------------------
(* What is counted *)

\* A unit that ends with an error keeps all it had.
LEMMA EndedIs ==
  ASSUME Typed, RefusedDocument \/ IndexFails
  PROVE  /\ unit' \in Units /\ unit'.pc = "ended" /\ unit'.err
         /\ unit'.writer = unit.writer /\ unit'.target = unit.target /\ unit'.rows = unit.rows
         /\ unit'.used = unit.used /\ unit'.named = unit.named /\ unit'.bytes = unit.bytes
         /\ unit'.wrote = unit.wrote /\ unit'.omitted = unit.omitted
         /\ IndexFails => unit'.unsaid
         /\ RefusedDocument => unit.writer = Document
<1>1. unit \in Units
  BY DEF Typed
<1>2. CASE RefusedDocument
  BY <1>1, <1>2 DEF RefusedDocument, IndexFails, Units, Places
<1>3. CASE IndexFails /\ ~RefusedDocument
  BY <1>1, <1>3 DEF IndexFails, Units, Places
<1> QED
  BY <1>2, <1>3

\* Between two units nothing is left of one.
LEMMA NoUnitIs ==
  /\ NoUnit.bytes = 0 /\ NoUnit.wrote = {} /\ NoUnit.named = {} /\ NoUnit.omitted = {}
  /\ NoUnit.pc = "none" /\ NoUnit.rows = <<>> /\ NoUnit.err = FALSE
BY DEF NoUnit

\* What is spent is listed or the unit's, and the payloads fit.
LEMMA CountedKept ==
  ASSUME Typed, Reasoned, Counted, Next
  PROVE  Counted'
<1> USE DEF Counted
<1>1. /\ spent \in Nat /\ listed \in Nat /\ payload \in Nat /\ Budget \in Nat /\ unit.bytes \in Nat
      /\ unit \in Units
  BY CollectorsAssumption DEF Typed, Units
<1>2. CASE Omits \/ Refused
  <2>1. unit'.bytes = unit.bytes
    BY <1>2, OmitsIs, RefusedIs
  <2> QED
    BY <1>2, <2>1 DEF Omits, Refused
<1>3. CASE Writes
  <2>1. unit'.bytes = unit.bytes + ThisSize
    BY <1>3, WritesIs
  <2>2. ThisSize \in Nat
    BY <1>3, KindHere DEF Typed, Writes, ThisSize
  <2>3. spent' = spent + ThisSize /\ payload' = payload + ThisSize /\ listed' = listed
    BY <1>3 DEF Writes, ThisSize
  <2>4. spent + ThisSize <= Budget
    BY <1>3 DEF Writes, Fits, ThisSize
  <2> QED
    BY <1>1, <2>1, <2>2, <2>3, <2>4
<1>4. CASE RefusedDocument \/ IndexFails
  <2>1. unit'.bytes = unit.bytes
    BY <1>4, EndedIs
  <2> QED
    BY <1>4, <2>1 DEF RefusedDocument, IndexFails, runVars
<1>5. CASE WriteFails
  <2>1. unit'.bytes = unit.bytes
    BY <1>5, WriteFailsIs
  <2> QED
    BY <1>5, <2>1 DEF WriteFails, runVars
<1>6. CASE WritesIndex
  <2>1. unit'.bytes = unit.bytes + 1 /\ spent' = spent + 1
    BY <1>6, WritesIndexIs
  <2> QED
    BY <1>1, <1>6, <2>1 DEF WritesIndex
<1>7. CASE End
  <2>1. listed' = listed + unit.bytes /\ unit'.bytes = 0
    BY <1>7, NoUnitIs DEF End, resultEntry
  <2> QED
    BY <1>1, <1>7, <2>1 DEF End
<1>8. CASE BeginRefused
  BY <1>8 DEF BeginRefused
<1>9. ASSUME NEW w \in Writers, NEW t \in Databases \cup {NoDatabase}, NEW rows \in Inputs[w],
             NEW off \in BOOLEAN, NEW lost \in BOOLEAN, Begin(w, t, rows, off, lost)
      PROVE  Counted'
  <2>1. unit'.bytes = 0
    BY <1>9, BeginIs
  <2>2. unit.bytes = 0
    BY <1>9, NoUnitIs DEF Begin, Typed
  <2> QED
    BY <1>9, <2>1, <2>2 DEF Begin
<1> HIDE DEF Counted
<1> QED
  BY <1>2, <1>3, <1>4, <1>5, <1>6, <1>7, <1>8, <1>9 DEF Next

---------------------------------------------------------------------------
(* What is disclosed *)

\* What each kind of content has disclosed.
LEMMA DisclosedIs ==
  /\ Disclosed("plan") = {"QueryStoreDetail"} /\ Disclosed("text") = {"QueryStoreDetail"}
  /\ Disclosed("plan in a text") = {"QueryStoreDetail"}
  /\ Disclosed("profiled") = {"QueryStoreDetail", "QueryStoreProfiledPlans"}
  /\ Disclosed("cached plan") = {"PlanCachePlans"}
  /\ Disclosed("definition") = {"ObjectDefinitions"} /\ Disclosed("graph") = {"DeadlockGraphs"}
  /\ Disclosed("report") = {"BlockedProcessReports"}
  /\ Disclosed("stats") = {} /\ Disclosed("document") = {}
BY DEF Disclosed

\* What is added has its own disclosures, and no other.
LEMMA TellMore ==
  ASSUME NEW ks, NEW more
  PROVE  /\ Tell(ks \cup more) = Tell(ks) \cup Tell(more) /\ Tell({}) = {}
         /\ \A k : Tell({k}) = Disclosed(k)
BY DEF Tell

\* A unit discloses what it wrote: a plan is its writer's, whoever saw it.
LEMMA Disclosing ==
  ASSUME unit \in Units, Told
  PROVE  discloseWrites(unit) = Tell(unit.wrote)
<1>1. unit.writer \in {Detail, Profiled, Modules, Deadlocks, Reports, Cached, Document}
  BY DEF Units, Writers, PerDatabase
<1>2. /\ unit.wrote \subseteq KindsOf(unit.writer)
      /\ saw <=> \E k \in unit.wrote : k \in {"plan", "profiled", "cached plan", "plan in a text"}
  BY DEF Told, containsShowplan, Plans
<1>3. \A k \in unit.wrote : Disclosed(k) \subseteq Tell(unit.wrote)
  BY DEF Tell
<1>4. planOrigin(unit) = IF unit.writer = Cached THEN {"PlanCachePlans"} ELSE {"QueryStoreDetail"}
  BY DEF planOrigin
<1>5. ASSUME NEW k \in {"definition", "graph", "report", "document"},
             unit.wrote \subseteq {k, "plan in a text"}
      PROVE  Tell(unit.wrote) = (IF k \in unit.wrote THEN Disclosed(k) ELSE {})
                                \cup (IF saw THEN {"QueryStoreDetail"} ELSE {})
  <2> DEFINE p == "plan in a text"
             ks == unit.wrote
  <2>1. saw <=> p \in ks
    BY <1>2, <1>5
  <2>2. k # p /\ (ks = {} \/ ks = {k} \/ ks = {p} \/ ks = {k} \cup {p})
    BY <1>5
  <2>3. Tell({k}) = Disclosed(k) /\ Tell({p}) = {"QueryStoreDetail"}
        /\ Tell({}) = {} /\ Tell({k} \cup {p}) = Disclosed(k) \cup {"QueryStoreDetail"}
    <3>1. Tell({k} \cup {p}) = Tell({k}) \cup Tell({p})
      BY TellMore
    <3>2. Tell({k}) = Disclosed(k) /\ Tell({p}) = Disclosed(p) /\ Tell({}) = {}
      BY TellMore
    <3> QED
      BY <3>1, <3>2, DisclosedIs
  <2> HIDE DEF p
  <2>4. CASE ks = {}
    BY <2>1, <2>3, <2>4
  <2>5. CASE ks = {k}
    BY <2>1, <2>2, <2>3, <2>5
  <2>6. CASE ks = {p}
    BY <2>1, <2>2, <2>3, <2>6
  <2>7. CASE ks = {k} \cup {p}
    BY <2>1, <2>2, <2>3, <2>7
  <2> QED
    BY <2>2, <2>4, <2>5, <2>6, <2>7
<1>a. ASSUME NEW k, unit.wrote \subseteq {k}
      PROVE  \/ unit.wrote = {} /\ Tell(unit.wrote) = {}
             \/ unit.wrote = {k} /\ Tell(unit.wrote) = Disclosed(k)
  <2>1. unit.wrote = {} \/ unit.wrote = {k}
    BY <1>a
  <2> QED
    BY <2>1, TellMore
<1>6. CASE unit.writer = Profiled
  <2>1. \/ unit.wrote = {} /\ Tell(unit.wrote) = {}
        \/ /\ unit.wrote = {"profiled"}
           /\ Tell(unit.wrote) = {"QueryStoreDetail", "QueryStoreProfiledPlans"}
    BY <1>2, <1>a, <1>6, KindsAre, DisclosedIs
  <2>2. Profiled # Cached
    BY DEF Profiled, Cached
  <2> QED
    BY <1>2, <1>4, <1>6, <2>1, <2>2 DEF discloseWrites
<1>7. CASE unit.writer = Modules
  <2>1. Tell(unit.wrote) = (IF "definition" \in unit.wrote THEN {"ObjectDefinitions"} ELSE {})
                           \cup (IF saw THEN {"QueryStoreDetail"} ELSE {})
    BY <1>2, <1>5, <1>7, KindsAre, DisclosedIs
  <2>2. unit.wrote \subseteq {"definition", "plan in a text"} /\ Modules # Cached
    BY <1>2, <1>7, KindsAre DEF Modules, Cached
  <2> QED
    BY <1>2, <1>4, <1>7, <2>1, <2>2 DEF discloseWrites
<1>8. CASE unit.writer = Deadlocks
  <2>1. Tell(unit.wrote) = (IF "graph" \in unit.wrote THEN {"DeadlockGraphs"} ELSE {})
                           \cup (IF saw THEN {"QueryStoreDetail"} ELSE {})
    BY <1>2, <1>5, <1>8, KindsAre, DisclosedIs
  <2>2. unit.wrote \subseteq {"graph", "plan in a text"} /\ Deadlocks # Cached
    BY <1>2, <1>8, KindsAre DEF Deadlocks, Cached
  <2> QED
    BY <1>2, <1>4, <1>8, <2>1, <2>2 DEF discloseWrites
<1>9. CASE unit.writer = Reports
  <2>1. Tell(unit.wrote) = (IF "report" \in unit.wrote THEN {"BlockedProcessReports"} ELSE {})
                           \cup (IF saw THEN {"QueryStoreDetail"} ELSE {})
    BY <1>2, <1>5, <1>9, KindsAre, DisclosedIs
  <2>2. unit.wrote \subseteq {"report", "plan in a text"} /\ Reports # Cached
    BY <1>2, <1>9, KindsAre DEF Reports, Cached
  <2> QED
    BY <1>2, <1>4, <1>9, <2>1, <2>2 DEF discloseWrites
<1>10. CASE unit.writer = Cached
  <2>1. \/ unit.wrote = {} /\ Tell(unit.wrote) = {}
        \/ unit.wrote = {"cached plan"} /\ Tell(unit.wrote) = {"PlanCachePlans"}
    BY <1>2, <1>a, <1>10, KindsAre, DisclosedIs
  <2> QED
    BY <1>2, <1>4, <1>10, <2>1 DEF discloseWrites
<1>11. CASE unit.writer = Detail
  <2>1. unit.wrote \subseteq {"text", "plan", "stats", "plan in a text"} /\ Detail # Cached
    BY <1>2, <1>11, KindsAre DEF Detail, Cached
  <2>2. Tell(unit.wrote) = IF unit.wrote \cap {"plan", "text", "plan in a text"} # {}
                           THEN {"QueryStoreDetail"} ELSE {}
    <3>1. \A k \in unit.wrote :
            Disclosed(k) = IF k \in {"plan", "text", "plan in a text"} THEN {"QueryStoreDetail"} ELSE {}
      BY <2>1, DisclosedIs
    <3> QED
      BY <3>1, ZenonT(60) DEF Tell
  <2> QED
    BY <1>2, <1>4, <1>11, <2>1, <2>2 DEF discloseWrites
<1>12. CASE unit.writer = Document
  <2>1. unit.wrote \subseteq {"document", "plan in a text"} /\ Document # Cached
    BY <1>2, <1>12, KindsAre DEF Document, Cached
  <2>2. Tell(unit.wrote) = IF saw THEN {"QueryStoreDetail"} ELSE {}
    <3>1. Tell(unit.wrote) = (IF "document" \in unit.wrote THEN Disclosed("document") ELSE {})
                             \cup (IF saw THEN {"QueryStoreDetail"} ELSE {})
      BY <1>5, <2>1
    <3> QED
      BY <3>1, DisclosedIs
  <2> QED
    BY <1>2, <1>4, <1>12, <2>1, <2>2 DEF discloseWrites
<1> QED
  BY <1>1, <1>6, <1>7, <1>8, <1>9, <1>10, <1>11, <1>12

\* What has to be disclosed is, or will be.
LEMMA ToldKept ==
  ASSUME Typed, Reasoned, Told, Next
  PROVE  Told'
<1>1. unit \in Units /\ saw \in BOOLEAN
  BY DEF Typed
<1>2. ASSUME unit'.wrote = unit.wrote, unit'.writer = unit.writer,
             UNCHANGED <<saw, kinds, collected>>
      PROVE  Told'
  BY <1>2 DEF Told, Tell
<1>3. CASE Omits \/ Refused
  <2>1. unit'.wrote = unit.wrote /\ unit'.writer = unit.writer
    BY <1>3, OmitsIs, RefusedIs DEF Onward
  <2> QED
    BY <1>2, <1>3, <2>1 DEF Omits, Refused
<1>4. CASE Writes
  <2>1. unit'.wrote = unit.wrote \cup ThisContents /\ unit'.writer = unit.writer
    BY <1>4, WritesIs DEF Onward
  <2>2. ThisContents \subseteq KindsOf(unit.writer)
    BY <1>4, KindHere DEF Typed, Writes, ThisContents
  <2>3. /\ kinds' = kinds \cup ThisContents /\ collected' = collected
        /\ saw' = (saw \/ containsShowplan(ThisContents))
    BY <1>4 DEF Writes, ThisContents
  <2>4. unit'.wrote \subseteq KindsOf(unit'.writer)
    BY <2>1, <2>2 DEF Told
  <2>5. saw' <=> containsShowplan(unit'.wrote)
    BY <2>1, <2>3 DEF Told, containsShowplan
  <2>6. Tell(kinds') = collected' \cup Tell(unit'.wrote)
    <3>1. Tell(kinds') = Tell(kinds) \cup Tell(ThisContents)
      BY <2>3, TellMore
    <3>2. Tell(unit'.wrote) = Tell(unit.wrote) \cup Tell(ThisContents)
      BY <2>1, TellMore
    <3> QED
      BY <2>3, <3>1, <3>2 DEF Told
  <2> QED
    BY <2>4, <2>5, <2>6 DEF Told, Tell
<1>5. CASE RefusedDocument \/ IndexFails
  <2>1. unit'.wrote = unit.wrote /\ unit'.writer = unit.writer
    BY <1>5, EndedIs
  <2> QED
    BY <1>2, <1>5, <2>1 DEF RefusedDocument, IndexFails, runVars
<1>6. CASE WriteFails
  <2>1. unit'.wrote = unit.wrote /\ unit'.writer = unit.writer
    BY <1>6, WriteFailsIs
  <2> QED
    BY <1>2, <1>6, <2>1 DEF WriteFails, runVars
<1>7. CASE WritesIndex
  <2>1. unit'.wrote = unit.wrote /\ unit'.writer = unit.writer
    BY <1>7, WritesIndexIs
  <2> QED
    BY <1>2, <1>7, <2>1 DEF WritesIndex
<1>8. ASSUME unit'.wrote = {}, saw' = FALSE, kinds' = kinds, Tell(kinds) = collected'
      PROVE  Told'
  <2>1. Tell({}) = {}
    BY TellMore
  <2> QED
    BY <1>8, <2>1 DEF Told, Tell, containsShowplan
<1>9. CASE End
  <2>1. collected' = collected \cup Tell(unit.wrote)
    BY <1>1, <1>9, Disclosing DEF End
  <2>2. unit'.wrote = {} /\ saw' = FALSE /\ kinds' = kinds
    BY <1>9, NoUnitIs DEF End
  <2>3. Tell(kinds) = collected'
    BY <2>1 DEF Told
  <2> QED
    BY <1>8, <2>2, <2>3
<1>10. CASE BeginRefused
  BY <1>2, <1>10 DEF BeginRefused
<1>11. ASSUME NEW w \in Writers, NEW t \in Databases \cup {NoDatabase}, NEW rows \in Inputs[w],
             NEW off \in BOOLEAN, NEW lost \in BOOLEAN, Begin(w, t, rows, off, lost)
      PROVE  Told'
  <2>1. unit'.wrote = {} /\ saw' = saw /\ kinds' = kinds /\ collected' = collected
    BY <1>11, BeginIs DEF Begin
  <2>2. unit.wrote = {}
    BY <1>11, NoUnitIs DEF Begin, Typed
  <2>3. saw = FALSE
    BY <1>1, <2>2 DEF Told, containsShowplan
  <2>4. Tell(kinds) = collected
    BY <2>2, TellMore DEF Told
  <2> QED
    BY <1>8, <2>1, <2>3, <2>4
<1> QED
  BY <1>3, <1>4, <1>5, <1>6, <1>7, <1>9, <1>10, <1>11 DEF Next

---------------------------------------------------------------------------
(* What is named *)

\* The files of a row differ.
LEMMA PartsDiffer ==
  ASSUME NEW w \in Writers, NEW j \in 1..Len(Parts(w)), NEW k \in 1..Len(Parts(w)),
         Parts(w)[j] = Parts(w)[k]
  PROVE  j = k
<1>1. CASE w = Detail
  <2>2. /\ Len(Parts(w)) = 3 /\ Parts(w)[1] = "text" /\ Parts(w)[2] = "plan" /\ Parts(w)[3] = "stats"
    BY <1>1, ThreeParts
  <2>3. j \in {1, 2, 3} /\ k \in {1, 2, 3}
    BY <2>2
  <2> QED
    BY <2>2, <2>3
<1>2. CASE w # Detail
  <2>1. w \in {Profiled, Modules, Deadlocks, Reports, Cached, Document}
    BY <1>2 DEF Writers, PerDatabase
  <2>2. \E p : Parts(w) = <<p>>
    BY <2>1, PartsAre
  <2>3. Len(Parts(w)) = 1
    BY <2>2
  <2> QED
    BY <2>3
<1> QED
  BY <1>1, <1>2

\* The file a unit is at is not on the disk yet.
LEMMA NameIsNew ==
  ASSUME Typed, Named, unit.pc = "writing"
  PROVE  \A f \in disk : f.name # ThisName
<1>1. unit \in Units /\ AtAFile(unit) /\ IsFiniteSet(unit.used)
  BY DEF Typed
<1>2. ThisName[1] = ThisPart /\ ThisName[2] = nameHere(unit)
  BY <1>1, NameHere DEF ThisName, ThisPart
<1> SUFFICES ASSUME NEW f \in disk, f.name = ThisName PROVE FALSE
  OBVIOUS
<1>3. CASE unit.writer = Modules
  <2>1. nameHere(unit) \notin unit.used
    BY <1>1, <1>3, NameHere
  <2>2. f.name[2] \in unit.used
    BY <1>3 DEF Named
  <2> QED
    BY <1>2, <2>1, <2>2
<1>4. CASE unit.writer # Modules
  <2>1. nameHere(unit) = <<unit.at>>
    BY <1>1, <1>4, NameHere
  <2>2. /\ f.name = <<f.part, <<f.row>>>>
        /\ \/ f.row < unit.at
           \/ f.row = unit.at /\ \E k \in 1..(unit.part - 1) : f.part = Parts(unit.writer)[k]
    BY <1>4 DEF Named
  <2>3. f.part = ThisPart /\ <<f.row>> = <<unit.at>>
    BY <1>2, <2>1, <2>2
  <2>4. f.row = unit.at
    BY <2>3
  <2>5. unit.at \in Nat /\ unit.part \in 1..Len(Parts(unit.writer)) /\ unit.writer \in Writers
    BY <1>1 DEF Units, AtAFile
  <2>6. Len(Parts(unit.writer)) \in Nat
    BY <2>5, PartsAreFew
  <2>7. PICK k \in 1..(unit.part - 1) : f.part = Parts(unit.writer)[k]
    BY <2>2, <2>4, <2>5
  <2>8. k \in 1..Len(Parts(unit.writer)) /\ k # unit.part
    BY <2>5, <2>6, <2>7
  <2> QED
    BY <2>3, <2>5, <2>7, <2>8, PartsDiffer DEF ThisPart
<1> QED
  BY <1>3, <1>4

\* A file behind stays behind.
Behind(f) ==
  IF unit.writer = Modules THEN f.name[2] \in unit.used
  ELSE /\ f.name = <<f.part, <<f.row>>>>
       /\ \/ f.row < unit.at
          \/ f.row = unit.at /\ \E k \in 1..(unit.part - 1) : f.part = Parts(unit.writer)[k]

\* The files behind, and the one just written, are behind the next place.
LEMMA StaysBehind ==
  ASSUME Typed, Onward, unit'.pc = "writing", NEW f \in Files, Behind(f) \/ f = ThisFile
  PROVE  Behind(f)'
<1>1. unit \in Units /\ AtAFile(unit) /\ IsFiniteSet(unit.used) /\ unit.writer \in Writers
  BY DEF Typed, Onward, Units
<1>2. /\ ThisFile.name = ThisName /\ ThisFile.row = unit.at /\ ThisFile.part = ThisPart
      /\ ThisName = <<ThisPart, nameHere(unit)>>
  BY DEF ThisFile, ThisName, fileName, ThisPart
<1>3. CASE unit.writer = Modules
  <2>1. handsOut(unit) = unit.used \cup {nameHere(unit)}
    BY <1>1, <1>3, NameHere
  <2>2. unit'.writer = Modules /\ unit'.used = handsOut(unit)
    BY <1>3 DEF Onward
  <2>3. CASE f = ThisFile
    BY <1>2, <2>1, <2>2, <2>3 DEF Behind
  <2>4. CASE Behind(f)
    BY <1>3, <2>1, <2>2, <2>4 DEF Behind
  <2> QED
    BY <2>3, <2>4
<1>4. CASE unit.writer # Modules
  <2>1. nameHere(unit) = <<unit.at>>
    BY <1>1, <1>4, NameHere
  <2>2. unit'.writer = unit.writer
    BY DEF Onward
  <2>3. f.name = <<f.part, <<f.row>>>>
    BY <1>2, <1>4, <2>1 DEF Behind
  <2>4. \/ f.row < unit.at
        \/ f.row = unit.at /\ \E k \in 1..unit.part : f.part = Parts(unit.writer)[k]
    <3>1. unit.part \in Nat \ {0}
      BY <1>1 DEF Units
    <3>2. CASE f = ThisFile
      <4>1. f.row = unit.at /\ f.part = Parts(unit.writer)[unit.part]
        BY <1>2, <3>2 DEF ThisPart
      <4> QED
        BY <3>1, <4>1
    <3>3. CASE Behind(f)
      BY <1>4, <3>1, <3>3 DEF Behind
    <3> QED
      BY <3>2, <3>3
  <2>5. f.row \in Nat /\ unit.at \in Nat /\ unit.part \in Nat
    BY <1>1 DEF Files, Units
  <2>6. \/ unit'.at = unit.at /\ unit'.part = unit.part + 1
        \/ unit'.at = unit.at + 1 /\ unit'.part = 1
    BY DEF Onward, Next3
  <2>7. \/ f.row < unit'.at
        \/ f.row = unit'.at /\ \E k \in 1..(unit'.part - 1) : f.part = Parts(unit.writer)[k]
    <3>1. CASE unit'.at = unit.at /\ unit'.part = unit.part + 1
      <4>1. unit'.part - 1 = unit.part
        BY <2>5, <3>1
      <4> QED
        BY <2>4, <3>1, <4>1
    <3>2. CASE unit'.at = unit.at + 1
      BY <2>4, <2>5, <3>2
    <3> QED
      BY <2>6, <3>1, <3>2
  <2> QED
    BY <1>4, <2>2, <2>3, <2>7 DEF Behind
<1> QED
  BY <1>3, <1>4

\* The same, in those words.
LEMMA NamedIs ==
  Named <=> /\ unit.named = {<<f.row, f.name>> : f \in Whole}
            /\ unit.pc = "writing" => \A f \in disk : Behind(f)
BY DEF Named, Behind

\* The files named are those that are whole.
LEMMA NamedKept ==
  ASSUME Typed, Reasoned, Named, Next
  PROVE  Named'
<1>1. /\ unit.named = {<<f.row, f.name>> : f \in Whole} /\ disk \subseteq Files
      /\ unit.pc = "writing" => \A f \in disk : Behind(f)
  BY NamedIs DEF Typed
<1>2. ASSUME unit'.named = unit.named, Whole' = Whole, unit'.pc # "writing"
      PROVE  Named'
  BY <1>1, <1>2 DEF Named
<1>3. CASE Omits \/ Refused
  <2>1. Onward /\ unit'.named = unit.named
    BY <1>3, OmitsIs, RefusedIs
  <2>2. disk' = disk
    BY <1>3 DEF Omits, Refused
  <2>3. unit'.named = {<<f.row, f.name>> : f \in Whole'}
    BY <1>1, <2>1, <2>2 DEF Whole
  <2>4. ASSUME unit'.pc = "writing", NEW f \in disk PROVE Behind(f)'
    BY <1>1, <2>1, <2>4, StaysBehind DEF Onward
  <2> QED
    BY <2>2, <2>3, <2>4 DEF Named, Behind
<1>4. CASE Writes
  <2>1. Onward /\ unit'.named = unit.named \cup {<<unit.at, ThisName>>}
    BY <1>4, WritesIs
  <2>2. unit.pc = "writing"
    BY <1>4 DEF Writes
  <2>3. disk' = disk \cup {ThisFile}
    BY <1>4, <2>2, NameIsNew DEF Writes, ThisFile
  <2>4. ThisFile.whole /\ ThisFile.row = unit.at /\ ThisFile.name = ThisName
    BY DEF ThisFile
  <2>5. Whole' = Whole \cup {ThisFile}
    BY <2>3, <2>4 DEF Whole
  <2>6. unit'.named = {<<f.row, f.name>> : f \in Whole'}
    BY <1>1, <2>1, <2>4, <2>5
  <2>7. ThisFile \in Files
    BY <2>2, FileIs DEF ThisFile
  <2>8. ASSUME unit'.pc = "writing", NEW f \in disk' PROVE Behind(f)'
    <3>1. f \in Files /\ (Behind(f) \/ f = ThisFile)
      BY <1>1, <2>2, <2>3, <2>7, <2>8
    <3> QED
      BY <2>1, <2>8, <3>1, StaysBehind
  <2> QED
    BY <2>6, <2>8 DEF Named, Behind
<1>5. CASE WriteFails
  <2>1. unit'.named = unit.named /\ unit'.pc # "writing" /\ unit.pc = "writing"
    BY <1>5, WriteFailsIs
  <2> DEFINE cut == [name |-> ThisName, row |-> unit.at, part |-> ThisPart, whole |-> FALSE]
  <2>2. disk' = disk \cup {cut} \/ disk' = disk
    BY <1>5, <2>1, NameIsNew DEF WriteFails
  <2>3. ~cut.whole
    OBVIOUS
  <2> HIDE DEF cut
  <2>4. Whole' = Whole
    BY <2>2, <2>3 DEF Whole
  <2> QED
    BY <1>2, <2>1, <2>4
<1>6. CASE RefusedDocument \/ IndexFails
  <2>1. unit'.named = unit.named /\ unit'.pc = "ended"
    BY <1>6, EndedIs
  <2> QED
    BY <1>2, <1>6, <2>1 DEF RefusedDocument, IndexFails, Whole
<1>7. CASE WritesIndex
  <2>1. unit'.named = unit.named /\ unit'.pc = "ended"
    BY <1>7, WritesIndexIs
  <2> QED
    BY <1>2, <1>7, <2>1 DEF WritesIndex, Whole
<1>8. ASSUME unit'.named = {}, disk' = {} PROVE Named'
  BY <1>8 DEF Named, Whole
<1>9. CASE End
  BY <1>8, <1>9, NoUnitIs DEF End
<1>10. CASE BeginRefused
  BY <1>10 DEF BeginRefused, Named, Whole
<1>11. ASSUME NEW w \in Writers, NEW t \in Databases \cup {NoDatabase}, NEW rows \in Inputs[w],
             NEW off \in BOOLEAN, NEW lost \in BOOLEAN, Begin(w, t, rows, off, lost)
      PROVE  Named'
  BY <1>8, <1>11, BeginIs DEF Begin
<1> QED
  BY <1>3, <1>4, <1>5, <1>6, <1>7, <1>9, <1>10, <1>11 DEF Next

---------------------------------------------------------------------------
(* What is described *)

\* An index is the last thing a unit writes.
LEMMA IndexedKept ==
  ASSUME Typed, Reasoned, Indexed, Next
  PROVE  Indexed'
<1> USE DEF Indexed, DirectoryIsDescribed, Over
<1>1. CASE Omits \/ Refused \/ Writes
  <2>1. Onward /\ index' = index
    BY <1>1, OmitsIs, RefusedIs, WritesIs DEF Omits, Refused, Writes
  <2>2. ~index.there /\ unit'.pc # "failing" /\ (unit'.pc = "ended" => unit'.writer = Document)
    BY <2>1 DEF Onward, Next3
  <2> QED
    BY <2>1, <2>2
<1>2. CASE WriteFails
  <2>1. index' = index /\ unit'.err /\ (unit'.pc = "ended" => unit'.writer = Document)
        /\ unit.pc = "writing"
    BY <1>2, WriteFailsIs DEF WriteFails
  <2> QED
    BY <2>1
<1>3. CASE RefusedDocument \/ IndexFails
  <2>1. /\ unit'.pc = "ended" /\ unit.pc # "ended" /\ index' = index
        /\ unit'.unsaid \/ unit'.writer = Document
    BY <1>3, EndedIs DEF RefusedDocument, IndexFails
  <2> QED
    BY <2>1
<1>4. CASE WritesIndex
  <2>1. unit'.pc = "ended" /\ unit'.named = unit.named /\ unit'.omitted = unit.omitted
    BY <1>4, WritesIndexIs
  <2>2. index'.there /\ index'.named = unit.named /\ unit.omitted \subseteq index'.omitted
    BY <1>4 DEF WritesIndex
  <2> QED
    BY <2>1, <2>2
<1>5. CASE End
  <2>1. unit'.pc = "none" /\ ~index'.there
    BY <1>5, NoUnitIs DEF End, NoIndex
  <2> QED
    BY <2>1
<1>6. CASE BeginRefused
  BY <1>6 DEF BeginRefused
<1>7. ASSUME NEW w \in Writers, NEW t \in Databases \cup {NoDatabase}, NEW rows \in Inputs[w],
             NEW off \in BOOLEAN, NEW lost \in BOOLEAN, Begin(w, t, rows, off, lost)
      PROVE  Indexed'
  <2>1. unit'.pc \in {"writing", "indexing"} /\ ~index'.there
    BY <1>7, BeginIs DEF Begin, NoIndex
  <2> QED
    BY <2>1
<1> HIDE DEF Indexed, DirectoryIsDescribed, Over
<1> QED
  BY <1>1, <1>2, <1>3, <1>4, <1>5, <1>6, <1>7 DEF Next

---------------------------------------------------------------------------
(* What is said of every row *)

\* The word a file had stays said.
LEMMA StaysSaid ==
  ASSUME Typed, Onward, unit.named \subseteq unit'.named, unit.omitted \subseteq unit'.omitted,
         selected' = selects(unit'), NEW i, NEW k, Speaks(i, k)
  PROVE  Speaks(i, k)'
<1>1. unit'.writer = unit.writer /\ unit'.rows = unit.rows /\ unit'.target = unit.target
  BY DEF Onward
<1>2. unit.writer = Profiled => selected' = selected
  <2>1. Profiled # Detail
    BY DEF Profiled, Detail
  <2> QED
    BY <1>1, <2>1, SelectsIs
<1> QED
  BY <1>1, <1>2 DEF Speaks

\* Every file the unit is past has had its word.
LEMMA SpokenKept ==
  ASSUME Typed, Reasoned, Indexed, Spoken, Next
  PROVE  Spoken'
<1>1. ASSUME unit'.pc \notin {"writing", "indexing"}, ~index'.there PROVE Spoken'
  BY <1>1 DEF Spoken, EveryRowSpeaks
<1>2. CASE Omits \/ Refused \/ Writes
  <2>1. /\ Onward /\ unit.named \subseteq unit'.named /\ unit.omitted \subseteq unit'.omitted
        /\ \A i, k : i = unit.at /\ k = unit.part => Speaks(i, k)'
    BY <1>2, OmitsIs, RefusedIs, WritesIs DEF Added
  <2>2. selected' = selects(unit') /\ index' = index
    BY <1>2 DEF Omits, Refused, Writes
  <2>3. \A i, k : Speaks(i, k) => Speaks(i, k)'
    BY <2>1, <2>2, StaysSaid
  <2>4. ~index'.there
    BY <2>1, <2>2 DEF Indexed, Onward
  <2>5. /\ unit \in Units /\ unit.writer \in Writers /\ unit.rows \in Seq(Row)
        /\ unit.pc = "writing" /\ AtAFile(unit)
    BY <2>1 DEF Onward, Typed, Units
  <2>6. /\ Len(Parts(unit.writer)) \in Nat /\ DOMAIN Parts(unit.writer) = 1..Len(Parts(unit.writer))
        /\ DOMAIN unit.rows = 1..Len(unit.rows) /\ Len(unit.rows) \in Nat
        /\ unit.at \in Nat /\ unit.part \in Nat
    BY <2>5, PartsAreFew DEF Units
  <2>7. ASSUME NEW i \in DOMAIN unit.rows, NEW k \in DOMAIN Parts(unit.writer),
               i < unit.at \/ (i = unit.at /\ k <= unit.part)
        PROVE  Speaks(i, k)'
    <3>1. CASE i = unit.at /\ k = unit.part
      BY <2>1, <3>1
    <3>2. CASE ~(i = unit.at /\ k = unit.part)
      <4>1. i < unit.at \/ (i = unit.at /\ k < unit.part)
        BY <2>6, <2>7, <3>2
      <4> QED
        BY <2>3, <2>5, <4>1 DEF Spoken
    <3> QED
      BY <3>1, <3>2
  <2>8. ASSUME unit'.pc = "writing", NEW i \in DOMAIN unit.rows, NEW k \in DOMAIN Parts(unit.writer),
               i < unit'.at \/ (i = unit'.at /\ k < unit'.part)
        PROVE  i < unit.at \/ (i = unit.at /\ k <= unit.part)
    <3>1. i \in Nat /\ k \in Nat /\ k <= Len(Parts(unit.writer))
      BY <2>6
    <3>2. CASE unit'.at = unit.at /\ unit'.part = unit.part + 1
      BY <2>6, <2>8, <3>1, <3>2
    <3>3. CASE unit'.at = unit.at + 1 /\ unit'.part = 1 /\ unit.part = Len(Parts(unit.writer))
      BY <2>6, <2>8, <3>1, <3>3
    <3> QED
      BY <2>1, <2>8, <3>2, <3>3 DEF Onward, Next3
  <2>9. ASSUME unit'.pc = "indexing", NEW i \in DOMAIN unit.rows, NEW k \in DOMAIN Parts(unit.writer)
        PROVE  i < unit.at \/ (i = unit.at /\ k <= unit.part)
    <3>1. unit.part = Len(Parts(unit.writer)) /\ unit.at = Len(unit.rows)
      BY <2>1, <2>9 DEF Onward, Next3
    <3> QED
      BY <2>6, <3>1
  <2>10. unit'.rows = unit.rows /\ unit'.writer = unit.writer
    BY <2>1 DEF Onward
  <2> QED
    BY <2>4, <2>7, <2>8, <2>9, <2>10 DEF Spoken, EveryRowSpeaks
<1>3. CASE WriteFails
  <2>1. unit'.pc \in {"ended", "failing"} /\ ~index'.there
    BY <1>3, WriteFailsIs DEF WriteFails, Indexed
  <2> QED
    BY <1>1, <2>1
<1>4. CASE RefusedDocument \/ IndexFails
  <2>1. unit'.pc = "ended" /\ ~index'.there
    BY <1>4, EndedIs DEF RefusedDocument, IndexFails, Indexed
  <2> QED
    BY <1>1, <2>1
<1>5. CASE WritesIndex
  <2>1. /\ unit'.pc = "ended" /\ unit'.err = unit.err /\ unit'.writer = unit.writer
        /\ unit'.rows = unit.rows /\ unit'.target = unit.target
    BY <1>5, WritesIndexIs
  <2>2. /\ index'.named = unit.named /\ unit.omitted \subseteq index'.omitted /\ selected' = selected
    BY <1>5 DEF WritesIndex
  <2>3. ~unit.err => unit.pc = "indexing"
    BY <1>5 DEF WritesIndex, Indexed
  <2>4. ASSUME ~unit.err, NEW i \in DOMAIN unit.rows, NEW k \in DOMAIN Parts(unit.writer)
        PROVE  Speaks(i, k)
    BY <2>3, <2>4 DEF Spoken
  <2>5. EveryRowSpeaks'
    BY <2>1, <2>2, <2>4 DEF EveryRowSpeaks, Speaks
  <2> QED
    BY <2>1, <2>5 DEF Spoken
<1>6. CASE End
  <2>1. unit'.pc = "none" /\ ~index'.there
    BY <1>6, NoUnitIs DEF End, NoIndex
  <2> QED
    BY <1>1, <2>1
<1>7. CASE BeginRefused
  <2>1. unit.pc = "none" /\ unit' = unit /\ index' = index
    BY <1>7 DEF BeginRefused
  <2> QED
    BY <1>1, <2>1 DEF Indexed
<1>8. ASSUME NEW w \in Writers, NEW t \in Databases \cup {NoDatabase}, NEW rows \in Inputs[w],
             NEW off \in BOOLEAN, NEW lost \in BOOLEAN, Begin(w, t, rows, off, lost)
      PROVE  Spoken'
  <2>1. /\ unit' \in Units /\ unit'.at = 1 /\ unit'.part = 1
        /\ unit'.pc = "indexing" => unit'.rows = <<>>
    BY <1>8, BeginIs
  <2>2. ~index'.there
    BY <1>8 DEF Begin, NoIndex
  <2>3. unit'.rows \in Seq(Row) /\ unit'.writer \in Writers
    BY <2>1 DEF Units
  <2>4. \A i \in DOMAIN unit'.rows : ~(i < 1)
    BY <2>3
  <2>5. \A k \in DOMAIN Parts(unit'.writer) : ~(k < 1)
    BY <2>3, PartsAreFew
  <2>6. unit'.pc = "indexing" => DOMAIN unit'.rows = {}
    BY <2>1
  <2> QED
    BY <2>1, <2>2, <2>4, <2>5, <2>6 DEF Spoken, EveryRowSpeaks
<1> QED
  BY <1>2, <1>3, <1>4, <1>5, <1>6, <1>7, <1>8 DEF Next

---------------------------------------------------------------------------
(* What the reasons say *)

\* The property, reason by reason.
LEMMA ReasonsAre ==
  ReasonIsTrue <=> \A o \in unit.omitted : TrueOf(unit.rows[o[1]], o[2], o[3])
BY DEF ReasonIsTrue, TrueOf

\* No reason given is false of its row.
LEMMA ReasonedKept ==
  ASSUME Typed, Reasoned, Next
  PROVE  Reasoned'
<1>1. /\ \A i \in DOMAIN unit.rows : unit.rows[i].big => unit.rows[i].held
      /\ \A o \in unit.omitted : TrueOf(unit.rows[o[1]], o[2], o[3])
  BY ReasonsAre DEF Reasoned
<1>2. ASSUME /\ \A i \in DOMAIN unit'.rows : unit'.rows[i].big => unit'.rows[i].held
             /\ \A o \in unit'.omitted : TrueOf(unit'.rows[o[1]], o[2], o[3])
      PROVE  Reasoned'
  BY <1>2 DEF Reasoned, ReasonIsTrue, TrueOf
<1>3. ASSUME unit'.rows = unit.rows, Added(unit'.omitted) PROVE Reasoned'
  <2>1. \A o \in unit'.omitted : TrueOf(unit'.rows[o[1]], o[2], o[3])
    BY <1>1, <1>3 DEF Added, ThisRow
  <2> QED
    BY <1>1, <1>2, <1>3, <2>1
<1>4. CASE Omits \/ Refused \/ Writes
  BY <1>3, <1>4, OmitsIs, RefusedIs, WritesIs DEF Onward
<1>5. CASE WriteFails
  BY <1>3, <1>5, WriteFailsIs
<1>6. CASE RefusedDocument \/ IndexFails
  BY <1>1, <1>2, <1>6, EndedIs
<1>7. CASE WritesIndex
  BY <1>1, <1>2, <1>7, WritesIndexIs
<1>8. CASE End
  <2>1. unit'.rows = <<>> /\ unit'.omitted = {}
    BY <1>8, NoUnitIs DEF End
  <2> QED
    BY <1>2, <2>1
<1>9. CASE BeginRefused
  BY <1>1, <1>2, <1>9 DEF BeginRefused
<1>10. ASSUME NEW w \in Writers, NEW t \in Databases \cup {NoDatabase}, NEW rows \in Inputs[w],
             NEW off \in BOOLEAN, NEW lost \in BOOLEAN, Begin(w, t, rows, off, lost)
      PROVE  Reasoned'
  BY <1>2, <1>10, BeginIs
<1> QED
  BY <1>4, <1>5, <1>6, <1>7, <1>8, <1>9, <1>10 DEF Next

---------------------------------------------------------------------------
(* The theorems *)

\* Nothing is spent, said or disclosed before the first unit.
LEMMA InitInv == Init => IInv
<1> SUFFICES ASSUME Init PROVE IInv
  OBVIOUS
<1> USE DEF Init
<1>1. /\ unit = NoUnit /\ disk = {} /\ index = NoIndex /\ ~index.there
      /\ unit.bytes = 0 /\ unit.wrote = {} /\ unit.named = {} /\ unit.omitted = {}
      /\ unit.pc = "none" /\ unit.rows = <<>> /\ unit.used = {}
  BY DEF NoUnit, NoIndex
<1>2. Typed
  <2>1. NoUnit \in Units
    BY DEF NoUnit, Units, Places, Writers
  <2>2. selected \in [Databases -> [delivered : BOOLEAN, ids : SUBSET Nat]]
    BY DEF Missing
  <2>3. IsFiniteSet(unit.used)
    BY <1>1, FS_EmptySet
  <2> QED
    <3>1. /\ spent = 0 /\ listed = 0 /\ payload = 0 /\ partial = 0 /\ saw = FALSE
          /\ 0 \in 0..MaxUnits /\ done = 0 /\ collected = {} /\ kinds = {}
      BY CollectorsAssumption
    <3>2. /\ spent \in Nat /\ listed \in Nat /\ payload \in Nat /\ partial \in Nat
          /\ done \in 0..MaxUnits
      BY <3>1
    <3>3. saw \in BOOLEAN /\ collected \subseteq Flags /\ kinds \subseteq Kinds
      BY <3>1
    <3>4. unit.pc # "writing" /\ disk \subseteq Files
      BY <1>1
    <3> HIDE DEF Init
    <3> QED
      BY <1>1, <2>1, <2>2, <2>3, <3>2, <3>3, <3>4 DEF Typed
<1>3. Counted
  BY <1>1, CollectorsAssumption DEF Counted
<1>4. Told
  BY <1>1, TellMore DEF Told, containsShowplan
<1>5. Named
  BY <1>1 DEF Named, Whole
<1>6. Indexed
  BY <1>1 DEF Indexed, DirectoryIsDescribed, Over
<1>7. Spoken
  BY <1>1 DEF Spoken, EveryRowSpeaks
<1>8. Reasoned
  BY <1>1 DEF Reasoned, ReasonIsTrue
<1> QED
  BY <1>2, <1>3, <1>4, <1>5, <1>6, <1>7, <1>8 DEF IInv

\* The invariant is inductive.
LEMMA StepInv == IInv /\ [Next]_vars => IInv'
<1> SUFFICES ASSUME IInv, [Next]_vars PROVE IInv'
  OBVIOUS
<1>1. CASE Next
  BY <1>1, TypedKept, CountedKept, ToldKept, NamedKept, IndexedKept, SpokenKept, ReasonedKept DEF IInv
<1>2. CASE UNCHANGED vars
  <2> USE <1>2 DEF vars, runVars, IInv
  <2>1. Typed'
    BY DEF Typed
  <2>2. Counted'
    BY DEF Counted
  <2>3. Told'
    BY DEF Told, Tell
  <2>4. Named'
    BY DEF Named, Whole
  <2>5. Indexed'
    BY DEF Indexed, DirectoryIsDescribed, Over
  <2>6. Spoken'
    BY DEF Spoken, Speaks, EveryRowSpeaks
  <2>7. Reasoned'
    BY DEF Reasoned, ReasonIsTrue
  <2> QED
    BY <2>1, <2>2, <2>3, <2>4, <2>5, <2>6, <2>7
<1> QED
  BY <1>1, <1>2

\* The manifest counts every byte written whole and discloses what is on the
\* disk, within the budget, for any rows, any budget and any number of units.
THEOREM ManifestCounts == Spec => []ManifestCountsAll
<1>1. IInv => ManifestCountsAll
  <2> SUFFICES ASSUME IInv PROVE ManifestCountsAll
    OBVIOUS
  <2>1. Typed /\ Counted /\ Told
    BY DEF IInv
  <2>2. unit.pc = "none" => unit.bytes = 0 /\ unit.wrote = {}
    BY <2>1, NoUnitIs DEF Typed
  <2>3. PayloadFits /\ SpentIsListed
    BY <2>1, <2>2 DEF Counted, Typed, PayloadFits, SpentIsListed
  <2>4. DisclosedIsWritten
    <3>1. Tell({}) = {}
      BY TellMore
    <3> QED
      BY <2>1, <2>2, <3>1 DEF Told, Tell, DisclosedIsWritten
  <2>5. unit.pc = "writing" => unit.at \in DOMAIN unit.rows
    BY <2>1, PartHere DEF Typed
  <2>6. TypeOK
    BY <2>1, <2>5 DEF Typed, Units, Places, TypeOK
  <2> QED
    BY <2>3, <2>4, <2>6 DEF ManifestCountsAll
<1> QED
  BY <1>1, InitInv, StepInv, PTL DEF Spec

\* An index describes its directory, no less and no more, whatever was left out,
\* refused or failed, and whatever names the rows sanitise to.
THEOREM IndexSound == Spec => []IndexIsSound
<1>1. IInv => IndexIsSound
  <2> SUFFICES ASSUME IInv PROVE IndexIsSound
    OBVIOUS
  <2>1. IndexIsTrue
    BY DEF IInv, Named, Indexed, IndexIsTrue
  <2>2. DirectoryIsDescribed /\ EveryRowSpeaks /\ ReasonIsTrue
    BY DEF IInv, Indexed, Spoken, Reasoned
  <2> QED
    BY <2>1, <2>2 DEF IndexIsSound
<1> QED
  BY <1>1, InitInv, StepInv, PTL DEF Spec

=============================================================================
