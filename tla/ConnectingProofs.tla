---------------------------- MODULE ConnectingProofs ----------------------------
(* Proofs about Connecting, for any size of the pool, any number of attempts    *)
(* and of tries: whoever gives up, and whenever, no socket and no slot is lost, *)
(* no connection is closed under its caller, and no deadline is blamed for      *)
(* another.                                                                     *)
EXTENDS Connecting, FiniteSetTheorems, TLAPS

-----------------------------------------------------------------------------
(* The inductive invariant *)

Empty  == {"idle", "asking", "queued", "lookup", "dialing"}
Loaded == {"handed", "returning", "dialed", "login"}

\* An attempt holds a connection from the dial, or the pool, to its answer's reception.
Holds(a) ==
  \/ inner[a] \in Loaded
  \/ inner[a] = "answer" /\ cur[a] # None
  \/ inner[a] = "over" /\ got[a] = "conn"

\* Somebody knows of the socket.
Located(c) ==
  \/ c \in held \cup free
  \/ c = opener.busy
  \/ \E a \in Attempts : Holds(a) /\ cur[a] = c

\* Where the goroutine of an attempt is tells what it has, and an abandoned attempt is
\* neither waited for nor holds a record.
Place(a) ==
  /\ inner[a] \in Empty => cur[a] = None /\ tries[a] < MaxTries
  /\ inner[a] \in Loaded => cur[a] # None
  /\ inner[a] \in {"dialed", "login"} => By(cur[a]) = a
  /\ got[a] # "empty" => inner[a] = "over"
  /\ got[a] = "conn" => cur[a] # None
  /\ outer[a] = "idle" => inner[a] = "idle"
  /\ abandoned[a] => outer[a] \notin {"idle", "waiting", "returned"} /\ conns[a] = {}
  /\ a \in requests => inner[a] = "queued"
  /\ \A c \in conns[a] : By(c) = a /\ sock[c] # "none"
Places == \A a \in Attempts : Place(a)

\* A socket is dialed once, under a number that was never used.
Fresh ==
  /\ \A c \in Sockets : Located(c) => sock[c] # "none"
  /\ \A c \in Sockets : By(c) \in Attempts /\ c[2] > tries[By(c)] => sock[c] = "none"
  /\ \A c \in Sockets : By(c) = Opener /\ c[2] > opener.n => sock[c] = "none"

\* A connection is in one place.
AtOnce(c) ==
  /\ ~(c \in held /\ c \in free)
  /\ c = opener.busy => c \notin held \cup free
  /\ \A a \in Attempts : Holds(a) /\ cur[a] = c => c \notin held \cup free /\ c # opener.busy
  /\ \A a, b \in Attempts : Holds(a) /\ cur[a] = c /\ Holds(b) /\ cur[b] = c => a = b
Distinct ==
  /\ \A c \in Sockets : AtOnce(c)
  /\ opener.busy # None => By(opener.busy) = Opener

\* What an attempt dialed and is open it has recorded, or is about to.
Recorded ==
  \A c \in Sockets : By(c) \in Attempts /\ sock[c] = "open" =>
    c \in conns[By(c)] \/ (inner[By(c)] = "dialed" /\ cur[By(c)] = c)

Known == \A c \in Sockets : sock[c] = "open" => Located(c)

\* Only an abandoned attempt's sockets are closed where somebody knows of them.
Alive ==
  \A c \in Sockets : By(c) \in Attempts /\ ~abandoned[By(c)] /\ Located(c) => sock[c] = "open"

\* A deadline is answered when one has passed.
Ended(a) == clock[a].passed \/ clock[a].fired \/ clock[a].spent
\* Nothing changes the reason of a goroutine that is over.
TimedOut(a) == inner[a] = "over" /\ why[a] = "timeout"
Reasons ==
  \A a \in Attempts :
    /\ why[a] = "deadline" => Ended(a)
    /\ outer[a] = "judging" => Ended(a) \/ TimedOut(a)
Blamed == \A a \in blamed : clock[a].spent \/ TimedOut(a)

Where == Fresh /\ Known /\ Alive

IInv ==
  /\ TypeOK /\ SlotsAddUp /\ Places /\ Distinct /\ Recorded /\ Where
  /\ Reasons /\ Blamed

-----------------------------------------------------------------------------
(* Sets *)

Taking == {a \in Attempts : TakesSlot(a)}

\* Sockets are numbered, and nobody's socket is None.
LEMMA SocketFacts ==
  /\ None \notin Sockets
  /\ Opener \notin Attempts
  /\ \A a \in Attempts : \A k \in 1..MaxTries :
       <<a, k>> \in Sockets /\ By(<<a, k>>) = a /\ <<a, k>>[2] = k
  /\ \A k \in 1..MaxRefills :
       <<Opener, k>> \in Sockets /\ By(<<Opener, k>>) = Opener /\ <<Opener, k>>[2] = k
  /\ \A c \in Sockets : c = <<By(c), c[2]>> /\ c[2] \in Nat
<1> USE ConnectingAssumption DEF Sockets, Attempts, Opener, By
<1>1. Sockets \subseteq Nat \X Nat
  OBVIOUS
<1> QED
  BY <1>1

\* Attempts and sockets are finite in number.
LEMMA Finite == IsFiniteSet(Attempts) /\ IsFiniteSet(Sockets)
<1>1. IsFiniteSet(Attempts) /\ IsFiniteSet(1..MaxTries) /\ IsFiniteSet(1..MaxRefills)
  BY ConnectingAssumption, FS_Interval DEF Attempts
<1>2. IsFiniteSet({Opener})
  BY FS_Singleton
<1>3. IsFiniteSet(Attempts \X (1..MaxTries)) /\ IsFiniteSet({Opener} \X (1..MaxRefills))
  BY <1>1, <1>2, FS_Product
<1> QED
  BY <1>1, <1>3, FS_Union DEF Sockets

\* What is counted can be.
LEMMA Counting ==
  ASSUME TypeOK
  PROVE  /\ IsFiniteSet(free) /\ Cardinality(free) \in Nat
         /\ IsFiniteSet(held) /\ Cardinality(held) \in Nat
         /\ IsFiniteSet(requests) /\ Cardinality(requests) \in Nat
         /\ IsFiniteSet(Taking) /\ Cardinality(Taking) \in Nat
<1>1. free \subseteq Sockets /\ held \subseteq Sockets /\ requests \subseteq Attempts
      /\ Taking \subseteq Attempts
  BY DEF TypeOK, Taking
<1> QED
  BY <1>1, Finite, FS_Subset, FS_CardinalityType

\* The same after a step.
LEMMA CountingNext ==
  ASSUME TypeOK'
  PROVE  /\ Cardinality(free') \in Nat /\ Cardinality(held') \in Nat
         /\ Cardinality(requests') \in Nat /\ Cardinality(Taking') \in Nat
<1>1. free' \subseteq Sockets /\ held' \subseteq Sockets /\ requests' \subseteq Attempts
      /\ Taking' \subseteq Attempts
  BY DEF TypeOK, Taking
<1> QED
  BY <1>1, Finite, FS_Subset, FS_CardinalityType

\* One element more.
LEMMA OneMore ==
  ASSUME NEW S, NEW x, IsFiniteSet(S), x \notin S
  PROVE  Cardinality(S \cup {x}) = Cardinality(S) + 1
BY FS_AddElement

\* One element less.
LEMMA OneLess ==
  ASSUME NEW S, NEW x, IsFiniteSet(S), x \in S
  PROVE  Cardinality(S \ {x}) = Cardinality(S) - 1
BY FS_RemoveElement

\* A slot that comes back is promised to a request, or is free.
LEMMA WantedType ==
  ASSUME NEW open \in 0..MaxOpen, NEW asking, Cardinality(asking) \in Nat
  PROVE  Wanted(open, asking) \in Nat /\ open + Wanted(open, asking) <= MaxOpen
BY ConnectingAssumption DEF Wanted

\* The open sockets are known, in the words of the property.
LEMMA KnownIsProperty ==
  ASSUME TypeOK, Places, Known
  PROVE  OpenSocketsAreKnown
<1> SUFFICES ASSUME NEW c \in Sockets, sock[c] = "open"
             PROVE  \/ c \in held \cup free \cup {opener.busy}
                    \/ \E a \in Attempts : Carries(a, c) \/ Channel(a, c)
  BY DEF OpenSocketsAreKnown
<1>1. Located(c)
  BY DEF Known
<1>2. CASE \E a \in Attempts : Holds(a) /\ cur[a] = c
  BY <1>2 DEF Holds, Loaded, Carries, Channel
<1> QED
  BY <1>1, <1>2 DEF Located

-----------------------------------------------------------------------------
(* What keeps the parts of the invariant *)

\* The sockets' part holds when none is dialed, those that are let go are not open,
\* and those that are closed are let go or an abandoned attempt's.
LEMMA WhereKept ==
  ASSUME Where, opener'.n = opener.n, tries' = tries,
         \A c \in Sockets : Located(c)' => Located(c),
         \A c \in Sockets : Located(c) /\ ~Located(c)' => sock'[c] # "open",
         \A c \in Sockets :
           \/ sock'[c] = sock[c]
           \/ /\ sock[c] # "none" /\ sock'[c] = "closed"
              /\ Located(c)' => By(c) \notin Attempts \/ abandoned'[By(c)],
         \A a \in Attempts : abandoned[a] => abandoned'[a]
  PROVE  Where'
<1>1. Fresh'
  BY DEF Where, Fresh
<1>2. Known'
  BY DEF Where, Known
<1>3. Alive'
  <2> SUFFICES ASSUME NEW c \in Sockets, By(c) \in Attempts, ~abandoned'[By(c)], Located(c)'
               PROVE  sock'[c] = "open"
    BY DEF Alive
  <2>1. sock[c] = "open"
    BY DEF Where, Alive
  <2> QED
    BY <2>1
<1> QED
  BY <1>1, <1>2, <1>3 DEF Where

\* Holders that stay the same keep what they hold.
LEMMA SameHolders ==
  ASSUME UNCHANGED <<held, free>>, opener'.busy = opener.busy,
         \A b \in Attempts : Holds(b)' <=> Holds(b),
         \A b \in Attempts : Holds(b) => cur'[b] = cur[b]
  PROVE  /\ \A c \in Sockets : Located(c)' <=> Located(c)
         /\ Distinct => Distinct'
<1>1. \A c \in Sockets : Located(c)' <=> Located(c)
  BY DEF Located
<1>2. \A c \in Sockets : AtOnce(c) => AtOnce(c)'
  BY DEF AtOnce
<1>3. Distinct => Distinct'
  BY <1>2 DEF Distinct
<1> QED
  BY <1>1, <1>3

\* A step that moves one connection leaves every other in its place.
Without(c) ==
  /\ held' \ {c} = held \ {c}
  /\ free' \ {c} = free \ {c}
  /\ \A x \in Sockets : x # c => (opener'.busy = x <=> opener.busy = x)
  /\ \A b \in Attempts : \A x \in Sockets :
       x # c => (Holds(b)' /\ cur'[b] = x <=> Holds(b) /\ cur[b] = x)

\* A connection that is put in one place is still in one place only.
LEMMA OneMoves ==
  ASSUME Distinct, NEW c \in Sockets, Without(c), AtOnce(c)',
         opener'.busy # None => By(opener'.busy) = Opener
  PROVE  Distinct' /\ \A x \in Sockets : x # c => (Located(x)' <=> Located(x))
<1>1. ASSUME NEW x \in Sockets, x # c
      PROVE  /\ x \in held' <=> x \in held
             /\ x \in free' <=> x \in free
             /\ opener'.busy = x <=> opener.busy = x
             /\ \A b \in Attempts : Holds(b)' /\ cur'[b] = x <=> Holds(b) /\ cur[b] = x
  BY <1>1 DEF Without
<1>2. ASSUME NEW x \in Sockets, x # c PROVE AtOnce(x)'
  <2>1. AtOnce(x)
    BY DEF Distinct
  <2> QED
    BY <1>1, <1>2, <2>1 DEF AtOnce
<1>3. ASSUME NEW x \in Sockets, x # c PROVE Located(x)' <=> Located(x)
  BY <1>1, <1>3 DEF Located
<1> QED
  BY <1>2, <1>3 DEF Distinct

\* The attempts that take a slot, one less, one more, or one for another.
LEMMA TakingLess ==
  ASSUME TypeOK, NEW a \in Attempts, TakesSlot(a), ~TakesSlot(a)',
         \A b \in Attempts : b # a => (TakesSlot(b)' <=> TakesSlot(b))
  PROVE  Cardinality(Taking)' = Cardinality(Taking) - 1
<1>1. Taking' = Taking \ {a} /\ a \in Taking
  BY DEF Taking
<1> QED
  BY <1>1, Counting, OneLess

\* One more attempt takes a slot: the count grows by one.
LEMMA TakingMore ==
  ASSUME TypeOK, NEW a \in Attempts, ~TakesSlot(a), TakesSlot(a)',
         \A b \in Attempts : b # a => (TakesSlot(b)' <=> TakesSlot(b))
  PROVE  Cardinality(Taking)' = Cardinality(Taking) + 1
<1>1. Taking' = Taking \cup {a} /\ a \notin Taking
  BY DEF Taking
<1> QED
  BY <1>1, Counting, OneMore

\* A slot that passes from one attempt to another leaves the count as it was.
LEMMA TakingSwap ==
  ASSUME TypeOK, NEW a \in Attempts, NEW r \in Attempts, a # r,
         TakesSlot(a), ~TakesSlot(a)', ~TakesSlot(r), TakesSlot(r)',
         \A b \in Attempts : b \notin {a, r} => (TakesSlot(b)' <=> TakesSlot(b))
  PROVE  Cardinality(Taking)' = Cardinality(Taking)
<1>1. Taking' = (Taking \ {a}) \cup {r} /\ a \in Taking /\ r \notin Taking \ {a}
  BY DEF Taking
<1>2. Cardinality(Taking \ {a}) = Cardinality(Taking) - 1 /\ IsFiniteSet(Taking \ {a})
  BY <1>1, Counting, FS_RemoveElement
<1>3. Cardinality((Taking \ {a}) \cup {r}) = Cardinality(Taking \ {a}) + 1
  BY <1>1, <1>2, OneMore
<1> QED
  BY <1>1, <1>2, <1>3, Counting

\* A step that moves no connection, no slot and no socket.
LEMMA Quiet ==
  ASSUME IInv, UNCHANGED <<tries, conns, abandoned, cur, sock, numOpen, free, opener, held>>,
         \A b \in Attempts : TakesSlot(b)' <=> TakesSlot(b),
         \A b \in Attempts : Holds(b)' <=> Holds(b),
         \A b \in Attempts : inner'[b] = "dialed" <=> inner[b] = "dialed"
  PROVE  SlotsAddUp' /\ Distinct' /\ Recorded' /\ Where'
<1>1. SlotsAddUp'
  <2>1. Taking' = Taking
    BY DEF Taking
  <2> QED
    BY <2>1 DEF SlotsAddUp, Taking, IInv
<1>2. (\A c \in Sockets : Located(c)' <=> Located(c)) /\ Distinct'
  BY SameHolders DEF IInv
<1>3. Recorded'
  BY DEF Recorded, IInv
<1>4. Where'
  BY <1>2, WhereKept DEF IInv
<1> QED
  BY <1>1, <1>2, <1>3, <1>4

\* A goroutine that is over keeps its reason, so a step that blames nobody and gives
\* or judges a deadline only where one has passed leaves every reason right.
LEMMA ReasonsKept ==
  ASSUME IInv, clock' = clock, blamed' = blamed,
         \A b \in Attempts : inner[b] = "over" => inner'[b] = "over" /\ why'[b] = why[b],
         \A b \in Attempts : why'[b] = "deadline" => why[b] = "deadline" \/ Ended(b),
         \A b \in Attempts :
           outer'[b] = "judging" => outer[b] = "judging" \/ Ended(b) \/ TimedOut(b)
  PROVE  Reasons' /\ Blamed'
<1>1. \A b \in Attempts : TimedOut(b) => TimedOut(b)'
  BY DEF TimedOut
<1>2. \A b \in Attempts : Ended(b)' <=> Ended(b)
  BY DEF Ended
<1>3. Reasons'
  BY <1>1, <1>2 DEF IInv, Reasons
<1>4. blamed \subseteq Attempts /\ \A b \in blamed : clock[b].spent \/ TimedOut(b)
  BY DEF IInv, TypeOK, Blamed
<1>5. \A b \in blamed : clock'[b].spent \/ TimedOut(b)'
  BY <1>1, <1>4
<1> QED
  BY <1>3, <1>5 DEF Blamed

-----------------------------------------------------------------------------
(* Steps that move nothing *)

\* The contexts: only clock changes, and what has passed has passed.
LEMMA ClockStep ==
  ASSUME IInv, NEW a \in Attempts, DeadlinePasses(a) \/ CallerEnds(a) \/ BudgetEnds(a)
  PROVE  IInv'
<1>1. UNCHANGED <<outer, inner, late, got, cur, why, tries, conns, abandoned, blamed, sock,
                  numOpen, free, requests, opener, held>>
  BY DEF DeadlinePasses, CallerEnds, BudgetEnds, poolVars
<1>2. /\ clock' \in [Attempts -> [passed : BOOLEAN, fired : BOOLEAN, spent : BOOLEAN]]
      /\ \A b \in Attempts : /\ clock[b].passed => clock'[b].passed
                             /\ clock[b].fired => clock'[b].fired
                             /\ clock[b].spent => clock'[b].spent
  <2> DEFINE R == [passed : BOOLEAN, fired : BOOLEAN, spent : BOOLEAN]
  <2>1. clock \in [Attempts -> R]
    BY DEF IInv, TypeOK
  <2>2. CASE DeadlinePasses(a)
    <3>1. clock' = [clock EXCEPT ![a].passed = TRUE]
      BY <2>2 DEF DeadlinePasses
    <3>2. clock' \in [Attempts -> R]
      BY <2>1, <3>1
    <3>3. clock'[a] = [clock[a] EXCEPT !.passed = TRUE] /\ \A b \in Attempts : b # a => clock'[b] = clock[b]
      BY <2>1, <3>1
    <3>4. /\ clock[a].passed => clock'[a].passed
          /\ clock[a].fired => clock'[a].fired
          /\ clock[a].spent => clock'[a].spent
      BY <2>1, <3>3
    <3> QED
      BY <3>2, <3>3, <3>4, Zenon
  <2>3. CASE CallerEnds(a)
    <3>1. clock' = [clock EXCEPT ![a].fired = TRUE]
      BY <2>3 DEF CallerEnds
    <3>2. clock' \in [Attempts -> R]
      BY <2>1, <3>1
    <3>3. clock'[a] = [clock[a] EXCEPT !.fired = TRUE] /\ \A b \in Attempts : b # a => clock'[b] = clock[b]
      BY <2>1, <3>1
    <3>4. /\ clock[a].passed => clock'[a].passed
          /\ clock[a].fired => clock'[a].fired
          /\ clock[a].spent => clock'[a].spent
      BY <2>1, <3>3
    <3> QED
      BY <3>2, <3>3, <3>4, Zenon
  <2>4. CASE BudgetEnds(a)
    <3>1. clock' = [clock EXCEPT ![a].spent = TRUE]
      BY <2>4 DEF BudgetEnds
    <3>2. clock' \in [Attempts -> R]
      BY <2>1, <3>1
    <3>3. clock'[a] = [clock[a] EXCEPT !.spent = TRUE] /\ \A b \in Attempts : b # a => clock'[b] = clock[b]
      BY <2>1, <3>1
    <3>4. /\ clock[a].passed => clock'[a].passed
          /\ clock[a].fired => clock'[a].fired
          /\ clock[a].spent => clock'[a].spent
      BY <2>1, <3>3
    <3> QED
      BY <3>2, <3>3, <3>4, Zenon
  <2> QED
    BY <2>2, <2>3, <2>4
<1>3. TypeOK'
  BY <1>1, <1>2 DEF IInv, TypeOK
<1>4. \A b \in Attempts : (TakesSlot(b)' <=> TakesSlot(b)) /\ (Holds(b)' <=> Holds(b))
                          /\ (Place(b)' <=> Place(b))
  BY <1>1 DEF TakesSlot, Holds, Place
<1>5. Places'
  BY <1>4 DEF Places, IInv
<1>6. SlotsAddUp' /\ Distinct' /\ Recorded' /\ Where'
  BY <1>1, <1>4, Quiet
<1>7. Reasons'
  BY <1>1, <1>2 DEF Reasons, Ended, TimedOut, IInv
<1>8. Blamed'
  <2>1. \A b \in Attempts : TimedOut(b)' <=> TimedOut(b)
    BY <1>1 DEF TimedOut
  <2> QED
    BY <1>1, <1>2, <2>1 DEF Blamed, IInv, TypeOK
<1> QED
  BY <1>3, <1>5, <1>6, <1>7, <1>8 DEF IInv

\* The goroutine of an attempt moves on with what it has.
Moves == {<<"idle", "asking">>, <<"asking", "answer">>, <<"asking", "queued">>,
          <<"queued", "answer">>, <<"handed", "answer">>, <<"handed", "returning">>,
          <<"lookup", "dialing">>, <<"login", "answer">>}

\* An attempt that goes from one place to the next, holding no connection, keeps IInv.
LEMMA MoveStep ==
  ASSUME IInv, NEW a \in Attempts, NEW to,
         <<inner[a], to>> \in Moves, inner' = [inner EXCEPT ![a] = to],
         \/ outer' = outer /\ inner[a] # "idle"
         \/ outer[a] = "idle" /\ outer' = [outer EXCEPT ![a] = "waiting"],
         \/ why' = why
         \/ (clock[a].fired \/ clock[a].spent) /\ why' = [why EXCEPT ![a] = "deadline"],
         \/ requests' = requests \cup {a} /\ to = "queued"
         \/ requests' = requests \ {a}
         \/ requests' = requests /\ inner[a] # "queued",
         UNCHANGED <<late, got, cur, tries, conns, abandoned, clock, blamed, sock, numOpen,
                     free, opener, held>>
  PROVE  IInv'
<1>1. TypeOK'
  <2>1. to \in Inners /\ outer' \in [Attempts -> Outers] /\ requests' \subseteq Attempts
    BY SMTT(30) DEF IInv, TypeOK, Moves, Inners, Outers
  <2>2. why' \in [Attempts -> {"deadline", "timeout", "other", "abandoned"}]
    BY DEF IInv, TypeOK
  <2> QED
    BY <2>1, <2>2 DEF IInv, TypeOK
<1>2. \A b \in Attempts : b # a => inner'[b] = inner[b] /\ outer'[b] = outer[b]
                                    /\ (b \in requests' <=> b \in requests)
  BY DEF IInv, TypeOK
<1>3. inner'[a] = to /\ got[a] = "empty" /\ Place(a)
  BY DEF IInv, TypeOK, Places, Place, Moves
<1>4. \/ outer'[a] = outer[a] /\ inner[a] # "idle"
      \/ outer[a] = "idle" /\ outer'[a] = "waiting"
  BY DEF IInv, TypeOK
<1>5. a \in requests' => to = "queued"
  BY <1>3 DEF Place, Moves
<1>6. Places'
  <2>1. ASSUME NEW b \in Attempts, b # a PROVE Place(b)'
    BY <1>2, <2>1 DEF IInv, Places, Place
  <2>2. Place(a)'
    BY <1>3, <1>4, <1>5 DEF Place, Moves, Empty, Loaded
  <2> QED
    BY <2>1, <2>2 DEF Places
<1>7. \A b \in Attempts :
        /\ TakesSlot(b)' <=> TakesSlot(b)
        /\ Holds(b)' <=> Holds(b)
        /\ inner'[b] = "dialed" <=> inner[b] = "dialed"
  <2>1. ASSUME NEW b \in Attempts, b # a
        PROVE  /\ TakesSlot(b)' <=> TakesSlot(b)
               /\ Holds(b)' <=> Holds(b)
               /\ inner'[b] = "dialed" <=> inner[b] = "dialed"
    BY <1>2, <2>1 DEF TakesSlot, Holds
  <2>2. /\ TakesSlot(a)' <=> TakesSlot(a)
        /\ Holds(a)' <=> Holds(a)
        /\ inner'[a] = "dialed" <=> inner[a] = "dialed"
    BY <1>3 DEF TakesSlot, Holds, Moves, Place, Empty, Loaded
  <2> QED
    BY <2>1, <2>2
<1>8. SlotsAddUp' /\ Distinct' /\ Recorded' /\ Where'
  BY <1>7, Quiet
<1>9. Reasons' /\ Blamed'
  <2>1. \A b \in Attempts : why'[b] = "deadline" => why[b] = "deadline" \/ Ended(b)
    BY DEF IInv, TypeOK, Ended
  <2>2. \A b \in Attempts : outer'[b] = "judging" => outer[b] = "judging"
    BY <1>2, <1>4
  <2>3. inner[a] # "over"
    BY DEF Moves
  <2>4. \A b \in Attempts : inner[b] = "over" => inner'[b] = "over" /\ why'[b] = why[b]
    BY <2>3 DEF IInv, TypeOK
  <2> QED
    BY <2>1, <2>2, <2>4, ReasonsKept
<1> QED
  BY <1>1, <1>6, <1>8, <1>9 DEF IInv

\* An attempt begins, waits its turn, looks up, logs in: nothing moves.
LEMMA StartStep ==
  ASSUME IInv, NEW a \in Attempts, Start(a)
  PROVE  IInv'
<1>1. inner[a] = "idle"
  BY DEF Start, IInv, Places, Place
<1>2. <<inner[a], "asking">> \in Moves
  BY <1>1 DEF Moves
<1>3. /\ outer[a] = "idle" /\ outer' = [outer EXCEPT ![a] = "waiting"]
      /\ inner' = [inner EXCEPT ![a] = "asking"]
      /\ UNCHANGED <<why, requests, late, got, cur, tries, conns, abandoned, clock, blamed,
                     sock, numOpen, free, opener, held>>
  BY DEF Start, poolVars
<1> QED
  BY <1>1, <1>2, <1>3, MoveStep

\* The steps of an attempt that waits its turn keep IInv.
LEMMA WaitSteps ==
  ASSUME IInv, NEW a \in Attempts,
         LeavesQueue(a) \/ TakesHanded(a) \/ LeavesHanded(a) \/ LogsIn(a)
  PROVE  IInv'
<1> DEFINE Still == UNCHANGED <<outer, late, got, cur, tries, conns, abandoned, clock, blamed,
                                sock, numOpen, free, opener, held>>
<1>1. CASE LeavesQueue(a)
  <2>1. <<inner[a], "answer">> \in Moves /\ inner[a] # "idle"
    BY <1>1 DEF LeavesQueue, Moves
  <2>2. /\ inner' = [inner EXCEPT ![a] = "answer"] /\ requests' = requests \ {a}
        /\ clock[a].fired \/ clock[a].spent
        /\ why' = [why EXCEPT ![a] = "deadline"]
        /\ Still
    BY <1>1 DEF LeavesQueue, Dead
  <2> QED
    BY <2>1, <2>2, MoveStep
<1>2. CASE TakesHanded(a)
  <2>1. <<inner[a], "answer">> \in Moves /\ inner[a] \notin {"idle", "queued"}
    BY <1>2 DEF TakesHanded, Moves
  <2>2. inner' = [inner EXCEPT ![a] = "answer"] /\ UNCHANGED <<why, requests>> /\ Still
    BY <1>2 DEF TakesHanded, poolVars
  <2> QED
    BY <2>1, <2>2, MoveStep
<1>3. CASE LeavesHanded(a)
  <2>1. <<inner[a], "returning">> \in Moves /\ inner[a] \notin {"idle", "queued"}
    BY <1>3 DEF LeavesHanded, Moves
  <2>2. /\ inner' = [inner EXCEPT ![a] = "returning"] /\ requests' = requests
        /\ clock[a].fired \/ clock[a].spent
        /\ why' = [why EXCEPT ![a] = "deadline"]
        /\ Still
    BY <1>3 DEF LeavesHanded, Dead, poolVars
  <2> QED
    BY <2>1, <2>2, MoveStep
<1>4. CASE LogsIn(a)
  <2>1. <<inner[a], "answer">> \in Moves /\ inner[a] \notin {"idle", "queued"}
    BY <1>4 DEF LogsIn, Moves
  <2>2. inner' = [inner EXCEPT ![a] = "answer"] /\ UNCHANGED <<why, requests>> /\ Still
    BY <1>4 DEF LogsIn, poolVars
  <2> QED
    BY <2>1, <2>2, MoveStep
<1> QED
  BY <1>1, <1>2, <1>3, <1>4

-----------------------------------------------------------------------------
(* The answer, and who receives it *)

\* A login that answers keeps IInv.
LEMMA AnswersStep ==
  ASSUME IInv, NEW a \in Attempts, Answers(a)
  PROVE  IInv'
<1>1. /\ inner[a] = "answer" /\ inner' = [inner EXCEPT ![a] = "over"]
      /\ got' = [got EXCEPT ![a] = IF cur[a] = None THEN "error" ELSE "conn"]
      /\ UNCHANGED <<outer, late, cur, why, tries, conns, abandoned, clock, blamed, sock,
                     numOpen, free, requests, opener, held>>
  BY DEF Answers, poolVars
<1>2. /\ inner'[a] = "over" /\ got'[a] = IF cur[a] = None THEN "error" ELSE "conn"
      /\ \A b \in Attempts : b # a => inner'[b] = inner[b] /\ got'[b] = got[b]
  BY <1>1 DEF IInv, TypeOK
<1>3. TypeOK'
  BY <1>1 DEF IInv, TypeOK, Inners
<1>4. Places'
  <2>1. ASSUME NEW b \in Attempts, b # a PROVE Place(b)'
    BY <1>1, <1>2, <2>1 DEF IInv, Places, Place
  <2>2. Place(a)'
    BY <1>1, <1>2 DEF IInv, Places, Place, Empty, Loaded
  <2> QED
    BY <2>1, <2>2 DEF Places
<1>5. \A b \in Attempts :
        /\ TakesSlot(b)' <=> TakesSlot(b)
        /\ Holds(b)' <=> Holds(b)
        /\ inner'[b] = "dialed" <=> inner[b] = "dialed"
  <2>1. ASSUME NEW b \in Attempts, b # a
        PROVE  /\ TakesSlot(b)' <=> TakesSlot(b)
               /\ Holds(b)' <=> Holds(b)
               /\ inner'[b] = "dialed" <=> inner[b] = "dialed"
    BY <1>1, <1>2, <2>1 DEF TakesSlot, Holds
  <2>2. /\ TakesSlot(a)' <=> TakesSlot(a)
        /\ Holds(a)' <=> Holds(a)
        /\ inner'[a] = "dialed" <=> inner[a] = "dialed"
    BY <1>1, <1>2 DEF TakesSlot, Holds, Loaded
  <2> QED
    BY <2>1, <2>2
<1>6. SlotsAddUp' /\ Distinct' /\ Recorded' /\ Where'
  BY <1>1, <1>5, Quiet
<1>7. Reasons' /\ Blamed'
  BY <1>1 DEF IInv, Reasons, Ended, TimedOut, Blamed
<1> QED
  BY <1>3, <1>4, <1>6, <1>7 DEF IInv

\* The caller, when no connection changes hands: an error that is received, one that
\* answers late, and the reading of the reason.
LEMMA NoConnection ==
  ASSUME IInv, NEW a \in Attempts,
         \/ got' = got
         \/ got[a] = "error" /\ got' = [got EXCEPT ![a] = "taken"],
         \/ outer' = outer
         \/ /\ outer[a] = "waiting" /\ (why[a] = "deadline" \/ TimedOut(a))
            /\ outer' = [outer EXCEPT ![a] = "judging"]
         \/ outer[a] \in {"waiting", "judging"} /\ outer' = [outer EXCEPT ![a] = "failed"],
         late' = late \/ late' = [late EXCEPT ![a] = "over"],
         blamed' = blamed \/ ((clock[a].spent \/ TimedOut(a)) /\ blamed' = blamed \cup {a}),
         UNCHANGED <<inner, cur, why, tries, conns, abandoned, clock, sock, numOpen,
                     free, requests, opener, held>>
  PROVE  IInv'
<1>1. TypeOK'
  <2>0. got \in [Attempts -> {"empty", "error", "conn", "taken"}]
    BY DEF IInv, TypeOK
  <2>1. got' \in [Attempts -> {"empty", "error", "conn", "taken"}]
    <3>1. CASE got' = got
      BY <2>0, <3>1
    <3>2. CASE got' = [got EXCEPT ![a] = "taken"]
      BY <2>0, <3>2
    <3> QED
      BY <3>1, <3>2
  <2>2. outer' \in [Attempts -> Outers]
    <3>1. outer \in [Attempts -> Outers] /\ "judging" \in Outers /\ "failed" \in Outers
      BY DEF IInv, TypeOK, Outers
    <3>2. \/ outer' = outer
          \/ outer' = [outer EXCEPT ![a] = "judging"]
          \/ outer' = [outer EXCEPT ![a] = "failed"]
      OBVIOUS
    <3> QED
      BY <3>1, <3>2
  <2>3. late' \in [Attempts -> {"none", "waiting", "over"}]
    <3>1. late \in [Attempts -> {"none", "waiting", "over"}]
      BY DEF IInv, TypeOK
    <3> QED
      BY <3>1
  <2>4. blamed' \subseteq Attempts
    <3>1. blamed \subseteq Attempts
      BY DEF IInv, TypeOK
    <3> QED
      BY <3>1
  <2> QED
    BY <2>1, <2>2, <2>3, <2>4 DEF IInv, TypeOK
<1>2. /\ \A b \in Attempts : b # a => outer'[b] = outer[b] /\ got'[b] = got[b]
      /\ outer'[a] = outer[a] \/ (outer[a] # "idle" /\ outer'[a] \in {"judging", "failed"})
      /\ got'[a] = got[a] \/ (got[a] = "error" /\ got'[a] = "taken")
  BY DEF IInv, TypeOK
<1>3. Places'
  <2>1. ASSUME NEW b \in Attempts, b # a PROVE Place(b)'
    BY <1>2, <2>1 DEF IInv, Places, Place
  <2>2. Place(a)'
    BY <1>2 DEF IInv, Places, Place
  <2> QED
    BY <2>1, <2>2 DEF Places
<1>4. \A b \in Attempts : (TakesSlot(b)' <=> TakesSlot(b)) /\ (Holds(b)' <=> Holds(b))
  BY <1>2 DEF TakesSlot, Holds
<1>5. SlotsAddUp' /\ Distinct' /\ Recorded' /\ Where'
  BY <1>4, Quiet
<1>6. Reasons'
  <2>1. \A b \in Attempts : (TimedOut(b)' <=> TimedOut(b)) /\ (Ended(b)' <=> Ended(b))
    BY DEF TimedOut, Ended
  <2>2. why[a] = "deadline" => Ended(a)
    BY DEF IInv, Reasons
  <2>3. ASSUME NEW b \in Attempts, outer'[b] = "judging"
        PROVE  outer[b] = "judging" \/ Ended(b) \/ TimedOut(b)
    <3>1. CASE b # a
      BY <1>2, <2>3, <3>1
    <3>2. outer[a] = "judging" \/ why[a] = "deadline" \/ TimedOut(a) \/ outer'[a] # "judging"
      BY DEF IInv, TypeOK
    <3> QED
      BY <2>2, <2>3, <3>1, <3>2
  <2> QED
    BY <2>1, <2>3 DEF IInv, Reasons
<1>7. Blamed'
  BY DEF IInv, Blamed, TimedOut
<1> QED
  BY <1>1, <1>3, <1>5, <1>6, <1>7 DEF IInv

\* A deadline that is blamed is the attempt's budget, or a timeout of the dial or the
\* lookup: the caller's own would have fired by now.
LEMMA JudgesStep ==
  ASSUME IInv, NEW a \in Attempts, Judges(a)
  PROVE  IInv'
<1>1. /\ outer[a] \in {"waiting", "judging"} /\ outer' = [outer EXCEPT ![a] = "failed"]
      /\ UNCHANGED <<got, late>>
      /\ UNCHANGED <<inner, cur, why, tries, conns, abandoned, clock, sock, numOpen,
                     free, requests, opener, held>>
  BY DEF Judges, poolVars
<1>2. blamed' = blamed \/ ((clock[a].spent \/ TimedOut(a)) /\ blamed' = blamed \cup {a})
  <2>1. Ended(a) \/ TimedOut(a)
    BY DEF Judges, IInv, Reasons
  <2>2. CASE clock[a].fired
    BY <2>2 DEF Judges
  <2>3. CASE ~clock[a].fired
    <3>1. clock[a].spent \/ TimedOut(a)
      BY <2>1, <2>3, Zenon DEF Ended, Judges, settled
    <3> QED
      BY <2>3, <3>1 DEF Judges
  <2> QED
    BY <2>2, <2>3
<1> QED
  BY <1>1, <1>2, NoConnection

\* An attempt that is given up closes what it recorded.
LEMMA GivesUpStep ==
  ASSUME IInv, NEW a \in Attempts, GivesUp(a)
  PROVE  IInv'
<1>1. /\ outer[a] = "waiting" /\ outer' = [outer EXCEPT ![a] = "judging"]
      /\ late' = [late EXCEPT ![a] = "waiting"]
      /\ abandoned' = [abandoned EXCEPT ![a] = TRUE]
      /\ sock' = [c \in Sockets |-> IF c \in conns[a] THEN "closed" ELSE sock[c]]
      /\ conns' = [conns EXCEPT ![a] = {}]
      /\ clock[a].fired \/ clock[a].spent
      /\ UNCHANGED <<inner, got, cur, why, tries, clock, blamed, numOpen, free, requests,
                     opener, held>>
  BY DEF GivesUp, abandon, Waiting, Dead, poolVars
<1>2. /\ \A b \in Attempts : b # a => /\ outer'[b] = outer[b] /\ conns'[b] = conns[b]
                                      /\ abandoned'[b] <=> abandoned[b]
      /\ outer'[a] = "judging" /\ conns'[a] = {} /\ abandoned'[a]
  BY <1>1 DEF IInv, TypeOK
<1>3. \A c \in conns[a] : By(c) = a /\ sock[c] # "none"
  BY DEF IInv, Places, Place
<1>4. \A c \in Sockets : sock'[c] = IF c \in conns[a] THEN "closed" ELSE sock[c]
  BY <1>1
<1>5. TypeOK'
  <2>1. sock' \in [Sockets -> {"none", "open", "closed"}]
    BY <1>1 DEF IInv, TypeOK
  <2>2. /\ outer' \in [Attempts -> Outers] /\ late' \in [Attempts -> {"none", "waiting", "over"}]
        /\ conns' \in [Attempts -> SUBSET Sockets] /\ abandoned' \in [Attempts -> BOOLEAN]
    BY <1>1 DEF IInv, TypeOK, Outers
  <2> QED
    BY <1>1, <2>1, <2>2 DEF IInv, TypeOK
<1>6. Places'
  <2>1. \A b \in Attempts : conns[b] \subseteq Sockets
    BY DEF IInv, TypeOK
  <2>2. ASSUME NEW b \in Attempts, b # a PROVE Place(b)'
    <3>1. \A c \in conns'[b] : By(c) = b /\ sock'[c] # "none"
      BY <1>2, <1>4, <2>1, <2>2 DEF IInv, Places, Place
    <3> QED
      BY <1>1, <1>2, <2>2, <3>1 DEF IInv, Places, Place
  <2>3. Place(a)'
    BY <1>1, <1>2 DEF IInv, Places, Place
  <2> QED
    BY <2>2, <2>3 DEF Places
<1>7. \A b \in Attempts : (TakesSlot(b)' <=> TakesSlot(b)) /\ (Holds(b)' <=> Holds(b))
  BY <1>1 DEF TakesSlot, Holds
<1>8. SlotsAddUp'
  <2>1. Taking' = Taking
    BY <1>7 DEF Taking
  <2> QED
    BY <1>1, <2>1 DEF SlotsAddUp, Taking, IInv
<1>9. (\A c \in Sockets : Located(c)' <=> Located(c)) /\ Distinct'
  BY <1>1, <1>7, SameHolders DEF IInv
<1>10. Recorded'
  <2> SUFFICES ASSUME NEW c \in Sockets, By(c) \in Attempts, sock'[c] = "open"
               PROVE  c \in conns'[By(c)] \/ (inner'[By(c)] = "dialed" /\ cur'[By(c)] = c)
    BY DEF Recorded
  <2>1. sock[c] = "open" /\ c \notin conns[a]
    BY <1>4
  <2>2. c \in conns[By(c)] \/ (inner[By(c)] = "dialed" /\ cur[By(c)] = c)
    BY <2>1 DEF IInv, Recorded
  <2> QED
    BY <1>1, <1>2, <2>1, <2>2
<1>11. Where'
  <2>1. \A b \in Attempts : abandoned[b] => abandoned'[b]
    BY <1>2
  <2>2. \A c \in Sockets :
          \/ sock'[c] = sock[c]
          \/ /\ sock[c] # "none" /\ sock'[c] = "closed"
             /\ Located(c)' => By(c) \notin Attempts \/ abandoned'[By(c)]
    BY <1>2, <1>3, <1>4
  <2>3. opener'.n = opener.n /\ tries' = tries
    BY <1>1
  <2> QED
    BY <1>9, <2>1, <2>2, <2>3, WhereKept DEF IInv
<1>12. Reasons' /\ Blamed'
  <2>1. /\ clock' = clock /\ why' = why /\ inner' = inner /\ blamed' = blamed
        /\ clock[a].fired \/ clock[a].spent
    BY <1>1
  <2>2. \A b \in Attempts : outer'[b] = "judging" => outer[b] = "judging" \/ b = a
    BY <1>2
  <2>3. Ended(a)
    BY <2>1, Zenon DEF Ended
  <2> QED
    BY <2>1, <2>2, <2>3, ReasonsKept
<1> QED
  BY <1>5, <1>6, <1>8, <1>9, <1>10, <1>11, <1>12 DEF IInv

\* The caller receives a connection, which is alive: it has not given up.
LEMMA ReceivesStep ==
  ASSUME IInv, NEW a \in Attempts, Receives(a)
  PROVE  IInv'
<1>1. CASE got[a] = "error"
  <2>1. /\ got' = [got EXCEPT ![a] = "taken"]
        /\ UNCHANGED <<late, blamed>>
        /\ UNCHANGED <<inner, cur, why, tries, conns, abandoned, clock, sock, numOpen,
                       free, requests, opener, held>>
    BY <1>1 DEF Receives, poolVars
  <2>2. inner[a] = "over"
    BY <1>1 DEF IInv, Places, Place
  <2>3. \/ /\ outer[a] = "waiting" /\ (why[a] = "deadline" \/ TimedOut(a))
           /\ outer' = [outer EXCEPT ![a] = "judging"]
        \/ outer[a] \in {"waiting", "judging"} /\ outer' = [outer EXCEPT ![a] = "failed"]
    BY <1>1, <2>2 DEF Receives, Waiting, TimedOut
  <2> QED
    BY <1>1, <2>1, <2>3, NoConnection
<1>2. CASE got[a] = "conn"
  <2> DEFINE c == cur[a]
  <2>1. /\ outer[a] = "waiting" /\ outer' = [outer EXCEPT ![a] = "returned"]
        /\ got' = [got EXCEPT ![a] = "taken"]
        /\ held' = held \cup {c}
        /\ UNCHANGED <<inner, late, cur, why, tries, conns, abandoned, clock, blamed, sock,
                       numOpen, free, requests, opener>>
    BY <1>2 DEF Receives, Waiting, poolVars
  <2>2. inner[a] = "over" /\ c \in Sockets /\ ~abandoned[a]
    BY <1>2, <2>1 DEF IInv, Places, Place, TypeOK
  <2>3. /\ got'[a] = "taken" /\ outer'[a] = "returned"
        /\ \A b \in Attempts : b # a => got'[b] = got[b] /\ outer'[b] = outer[b]
    BY <2>1 DEF IInv, TypeOK
  <2>4. TypeOK'
    BY <2>1, <2>2 DEF IInv, TypeOK, Outers
  <2>5. Places'
    <3>1. ASSUME NEW b \in Attempts, b # a PROVE Place(b)'
      BY <2>1, <2>3, <3>1 DEF IInv, Places, Place
    <3>2. Place(a)'
      BY <2>1, <2>2, <2>3 DEF IInv, Places, Place
    <3> QED
      BY <3>1, <3>2 DEF Places
  <2>6. /\ TakesSlot(a) /\ ~TakesSlot(a)' /\ Holds(a) /\ ~Holds(a)'
        /\ \A b \in Attempts : b # a => (TakesSlot(b)' <=> TakesSlot(b)) /\ (Holds(b)' <=> Holds(b))
    BY <1>2, <2>1, <2>2, <2>3 DEF TakesSlot, Holds, Loaded
  <2>7. c \notin held \cup free /\ c # opener.busy /\ \A b \in Attempts : b # a /\ Holds(b) => cur[b] # c
    <3>1. AtOnce(c)
      BY <2>2 DEF IInv, Distinct
    <3> QED
      BY <2>6, <3>1 DEF AtOnce
  <2>8. SlotsAddUp'
    <3>1. Cardinality(Taking)' = Cardinality(Taking) - 1
      BY <2>6, TakingLess DEF IInv
    <3>2. Cardinality(held') = Cardinality(held) + 1
      BY <2>1, <2>7, Counting, OneMore DEF IInv
    <3>3. /\ Cardinality(held) \in Nat /\ Cardinality(free) \in Nat /\ Cardinality(Taking) \in Nat
          /\ opener.pending \in Nat /\ numOpen \in Nat
      BY Counting DEF IInv, TypeOK
    <3> QED
      BY <2>1, <3>1, <3>2, <3>3 DEF IInv, SlotsAddUp, Taking
  <2>9. Distinct' /\ \A x \in Sockets : x # c => (Located(x)' <=> Located(x))
    <3>1. Without(c)
      BY <2>1, <2>6 DEF Without
    <3>2. AtOnce(c)'
      BY <2>1, <2>6, <2>7 DEF AtOnce
    <3> QED
      BY <2>1, <2>2, <3>1, <3>2, OneMoves DEF IInv, Distinct
  <2>10. Recorded'
    BY <2>1 DEF IInv, Recorded
  <2>11. Where'
    <3>1. Located(c) /\ Located(c)'
      BY <2>1, <2>6 DEF Located
    <3> QED
      BY <2>1, <2>9, <3>1, WhereKept DEF IInv
  <2>12. Reasons' /\ Blamed'
    BY <2>1, <2>3 DEF IInv, Reasons, Ended, TimedOut, Blamed
  <2> QED
    BY <2>4, <2>5, <2>8, <2>9, <2>10, <2>11, <2>12 DEF IInv
<1> QED
  BY <1>1, <1>2 DEF Receives

-----------------------------------------------------------------------------
(* A connection that leaves its place *)

\* The slots, less the one c takes.
Promised(o) == IF o.busy = None THEN 0 ELSE 1
Staying(c) == {b \in Attempts : TakesSlot(b) /\ ~(Holds(b) /\ cur[b] = c)}

\* c is taken from where it is: the caller, the opener, or an answer nobody waits for.
Leaves(c) ==
  \/ c \in held /\ held' = held \ {c} /\ UNCHANGED <<got, opener>>
  \/ c = opener.busy /\ opener' = [opener EXCEPT !.busy = None] /\ UNCHANGED <<got, held>>
  \/ \E a \in Attempts : /\ c = cur[a] /\ got[a] = "conn"
                         /\ got' = [got EXCEPT ![a] = "taken"]
                         /\ UNCHANGED <<held, opener>>

\* What is then known, wherever it was.
Left(c) ==
  /\ Located(c) /\ c \notin free
  /\ held' = held \ {c}
  /\ opener' \in [busy : Sockets \cup {None}, pending : 0..MaxOpen, n : 0..MaxRefills]
  /\ opener'.n = opener.n /\ opener'.pending = opener.pending
  /\ opener'.busy = IF opener.busy = c THEN None ELSE opener.busy
  /\ got' \in [Attempts -> {"empty", "error", "conn", "taken"}]
  /\ \A b \in Attempts :
       IF Holds(b) /\ cur[b] = c THEN got[b] = "conn" /\ got'[b] = "taken" ELSE got'[b] = got[b]
  /\ Cardinality(held') + Promised(opener') + Cardinality(Staying(c))
       = Cardinality(held) + Promised(opener) + Cardinality(Taking) - 1

\* A connection taken from where it was was nowhere else, and its slot is given up.
LEMMA LeavingTells ==
  ASSUME IInv, NEW c \in Sockets, Leaves(c)
  PROVE  Left(c)
<1>1. AtOnce(c) /\ c # None /\ opener \in [busy : Sockets \cup {None}, pending : 0..MaxOpen, n : 0..MaxRefills]
  BY SocketFacts DEF IInv, Distinct, TypeOK
<1>2. /\ IsFiniteSet(held) /\ IsFiniteSet(Taking)
      /\ Cardinality(held) \in Nat /\ Cardinality(Taking) \in Nat
  BY Counting DEF IInv
<1>3. \A b \in Attempts : got[b] = "conn" => inner[b] = "over" /\ Holds(b) /\ TakesSlot(b)
  BY DEF IInv, Places, Place, Holds, TakesSlot
<1>4. CASE c \in held /\ held' = held \ {c} /\ UNCHANGED <<got, opener>>
  <2>1. Located(c) /\ c \notin free /\ c # opener.busy /\ \A b \in Attempts : ~(Holds(b) /\ cur[b] = c)
    BY <1>1, <1>4 DEF AtOnce, Located
  <2>2. Staying(c) = Taking
    BY <2>1 DEF Staying, Taking
  <2>3. Cardinality(held') = Cardinality(held) - 1
    BY <1>2, <1>4, OneLess
  <2>4. Promised(opener') = Promised(opener) /\ Promised(opener) \in Nat
    BY <1>4 DEF Promised
  <2>5. got' \in [Attempts -> {"empty", "error", "conn", "taken"}]
    BY <1>4 DEF IInv, TypeOK
  <2> QED
    BY <1>1, <1>2, <1>4, <2>1, <2>2, <2>3, <2>4, <2>5 DEF Left
<1>5. CASE c = opener.busy /\ opener' = [opener EXCEPT !.busy = None] /\ UNCHANGED <<got, held>>
  <2>1. /\ Located(c) /\ c \notin free /\ c \notin held
        /\ \A b \in Attempts : ~(Holds(b) /\ cur[b] = c)
    BY <1>1, <1>5 DEF AtOnce, Located
  <2>2. Staying(c) = Taking
    BY <2>1 DEF Staying, Taking
  <2>3. /\ opener' \in [busy : Sockets \cup {None}, pending : 0..MaxOpen, n : 0..MaxRefills]
        /\ opener'.n = opener.n /\ opener'.pending = opener.pending /\ opener'.busy = None
    BY <1>1, <1>5
  <2>4. Promised(opener') = 0 /\ Promised(opener) = 1
    BY <1>1, <1>5, <2>3 DEF Promised
  <2>5. got' \in [Attempts -> {"empty", "error", "conn", "taken"}] /\ held' = held \ {c}
    BY <1>5, <2>1 DEF IInv, TypeOK
  <2> QED
    BY <1>1, <1>2, <1>5, <2>1, <2>2, <2>3, <2>4, <2>5 DEF Left
<1>6. ASSUME NEW a \in Attempts, c = cur[a], got[a] = "conn",
             got' = [got EXCEPT ![a] = "taken"], UNCHANGED <<held, opener>>
      PROVE  Left(c)
  <2>1. Holds(a) /\ TakesSlot(a)
    BY <1>3, <1>6
  <2>2. /\ Located(c) /\ c \notin free /\ c \notin held /\ c # opener.busy
        /\ \A b \in Attempts : Holds(b) /\ cur[b] = c <=> b = a
    BY <1>1, <1>6, <2>1 DEF AtOnce, Located
  <2>3. Staying(c) = Taking \ {a} /\ a \in Taking
    BY <2>1, <2>2 DEF Staying, Taking
  <2>4. Cardinality(Staying(c)) = Cardinality(Taking) - 1
    BY <1>2, <2>3, OneLess
  <2>5. /\ got' \in [Attempts -> {"empty", "error", "conn", "taken"}] /\ held' = held \ {c}
        /\ got'[a] = "taken" /\ \A b \in Attempts : b # a => got'[b] = got[b]
    BY <1>6, <2>2 DEF IInv, TypeOK
  <2>6. Promised(opener') = Promised(opener) /\ Promised(opener) \in Nat
    BY <1>6 DEF Promised
  <2> QED
    BY <1>1, <1>2, <1>6, <2>2, <2>4, <2>5, <2>6 DEF Left
<1> QED
  BY <1>4, <1>5, <1>6 DEF Leaves

\* It comes back to the pool: idle, or to a request.
LEMMA PutConnStep ==
  ASSUME IInv, NEW c \in Sockets, PutConn(c, requests), Leaves(c),
         late' = late \/ \E a \in Attempts : late' = [late EXCEPT ![a] = "over"],
         UNCHANGED <<outer, why, tries, conns, abandoned, clock, blamed, sock, numOpen>>
  PROVE  IInv'
<1>1. Left(c) /\ AtOnce(c) /\ None \notin Sockets
  BY LeavingTells, SocketFacts DEF IInv, Distinct
<1>2. late' \in [Attempts -> {"none", "waiting", "over"}]
  BY DEF IInv, TypeOK
<1>3. \A b \in Attempts : Holds(b) /\ cur[b] = c => inner[b] = "over" /\ got[b] = "conn"
  BY <1>1 DEF Left, IInv, Places, Place
<1>4. /\ Cardinality(held) \in Nat /\ Cardinality(free) \in Nat /\ Cardinality(Taking) \in Nat
      /\ opener.pending \in Nat /\ numOpen \in Nat /\ Promised(opener) \in Nat
      /\ numOpen = Cardinality(free) + Cardinality(held) + opener.pending
                   + Promised(opener) + Cardinality(Taking)
  BY Counting DEF IInv, TypeOK, SlotsAddUp, Taking, Promised
<1>5. CASE /\ requests = {} /\ free' = free \cup {c} /\ requests' = requests
           /\ UNCHANGED <<inner, cur>>
  <2>1. \A b \in Attempts : /\ TakesSlot(b)' <=> TakesSlot(b) /\ ~(Holds(b) /\ cur[b] = c)
                            /\ Holds(b)' <=> Holds(b) /\ cur[b] # c
    BY <1>1, <1>3, <1>5 DEF Left, TakesSlot, Holds, Loaded, IInv, Places, Place
  <2>2. TypeOK'
    BY <1>1, <1>2, <1>5 DEF IInv, TypeOK, Left
  <2>3. Places'
    BY <1>1, <1>5 DEF IInv, Places, Place, Left
  <2>4. SlotsAddUp'
    <3>1. Taking' = Staying(c)
      BY <2>1 DEF Taking, Staying
    <3>2. Cardinality(free') = Cardinality(free) + 1
      BY <1>1, <1>5, Counting, OneMore DEF IInv, Left
    <3>3. Cardinality(held') + Promised(opener') + Cardinality(Taking')
            = Cardinality(held) + Promised(opener) + Cardinality(Taking) - 1
      BY <1>1, <3>1 DEF Left
    <3>4. /\ Cardinality(held') \in Nat /\ Cardinality(Taking') \in Nat /\ Promised(opener') \in Nat
          /\ opener'.pending = opener.pending
      BY <1>1, <2>2, CountingNext DEF Left, Promised
    <3>5. numOpen' = Cardinality(free') + Cardinality(held') + opener'.pending
                     + Promised(opener') + Cardinality(Taking')
      BY <1>4, <3>2, <3>3, <3>4
    <3> QED
      BY <3>5 DEF SlotsAddUp, Taking, Promised
  <2>5. Distinct' /\ \A x \in Sockets : x # c => (Located(x)' <=> Located(x))
    <3>1. Without(c)
      BY <1>1, <1>5, <2>1 DEF Without, Left
    <3>2. AtOnce(c)'
      BY <1>1, <1>5, <2>1 DEF AtOnce, Left
    <3> QED
      BY <1>1, <3>1, <3>2, OneMoves DEF IInv, Distinct, Left
  <2>6. Recorded'
    BY <1>5 DEF IInv, Recorded
  <2>7. Where'
    <3>1. Located(c) /\ Located(c)' /\ opener'.n = opener.n
      BY <1>1, <1>5 DEF Located, Left
    <3> QED
      BY <2>5, <3>1, WhereKept DEF IInv
  <2>8. Reasons' /\ Blamed'
    BY <1>5 DEF IInv, Reasons, Ended, TimedOut, Blamed
  <2> QED
    BY <2>2, <2>3, <2>4, <2>5, <2>6, <2>7, <2>8 DEF IInv
<1>6. ASSUME NEW r \in requests, requests' = requests \ {r},
             inner' = [inner EXCEPT ![r] = "handed"], cur' = [cur EXCEPT ![r] = c],
             free' = free
      PROVE  IInv'
  <2>1. r \in Attempts /\ inner[r] = "queued" /\ cur[r] = None /\ got[r] = "empty"
        /\ outer[r] # "idle" /\ ~TakesSlot(r) /\ ~Holds(r)
    <3>1. r \in Attempts
      BY DEF IInv, TypeOK
    <3>2. inner[r] = "queued" /\ Place(r)
      BY <3>1 DEF IInv, Places, Place
    <3>3. got[r] \in {"empty", "error", "conn", "taken"}
      BY <3>1 DEF IInv, TypeOK
    <3> QED
      BY <3>1, <3>2, <3>3 DEF Place, TakesSlot, Holds, Empty, Loaded
  <2>2. inner'[r] = "handed" /\ cur'[r] = c /\ c # None
        /\ \A b \in Attempts : b # r => inner'[b] = inner[b] /\ cur'[b] = cur[b]
    BY <1>1, <1>6, <2>1 DEF IInv, TypeOK
  <2>3. \A b \in Attempts : b # r =>
          /\ TakesSlot(b)' <=> TakesSlot(b) /\ ~(Holds(b) /\ cur[b] = c)
          /\ Holds(b)' <=> Holds(b) /\ cur[b] # c
    BY <1>1, <1>3, <2>2 DEF Left, TakesSlot, Holds, Loaded, IInv, Places, Place
  <2>4. TakesSlot(r)' /\ Holds(r)'
    BY <2>2 DEF TakesSlot, Holds, Loaded
  <2>5. TypeOK'
    <3>1. inner' \in [Attempts -> Inners] /\ cur' \in [Attempts -> Sockets \cup {None}]
      BY <1>6 DEF IInv, TypeOK, Inners
    <3> QED
      BY <1>1, <1>2, <1>6, <3>1 DEF IInv, TypeOK, Left
  <2>6. Places'
    <3>1. ASSUME NEW b \in Attempts, b # r PROVE Place(b)'
      BY <1>1, <1>6, <2>2, <3>1 DEF IInv, Places, Place, Left
    <3>2. Place(r)'
      BY <1>1, <1>6, <2>1, <2>2 DEF IInv, Places, Place, Left, Empty, Loaded
    <3> QED
      BY <3>1, <3>2 DEF Places
  <2>7. SlotsAddUp'
    <3>1. Taking' = Staying(c) \cup {r} /\ r \notin Staying(c)
      BY <2>1, <2>3, <2>4 DEF Taking, Staying
    <3>2. Cardinality(Taking') = Cardinality(Staying(c)) + 1 /\ Cardinality(Staying(c)) \in Nat
      <4>1. Staying(c) \subseteq Taking
        BY DEF Staying, Taking
      <4>2. IsFiniteSet(Staying(c))
        BY <4>1, Counting, FS_Subset DEF IInv
      <4> QED
        BY <3>1, <4>2, OneMore, FS_CardinalityType
    <3>3. Cardinality(held') + Promised(opener') + Cardinality(Staying(c))
            = Cardinality(held) + Promised(opener) + Cardinality(Taking) - 1
      BY <1>1 DEF Left
    <3>4. /\ Cardinality(held') \in Nat /\ Promised(opener') \in Nat
          /\ opener'.pending = opener.pending
      BY <1>1, <2>5, CountingNext DEF Left, Promised
    <3>5. numOpen' = Cardinality(free') + Cardinality(held') + opener'.pending
                     + Promised(opener') + Cardinality(Taking')
      BY <1>4, <1>6, <3>2, <3>3, <3>4
    <3> QED
      BY <3>5 DEF SlotsAddUp, Taking, Promised
  <2>8. Distinct' /\ \A x \in Sockets : x # c => (Located(x)' <=> Located(x))
    <3>1. Without(c)
      BY <1>1, <1>6, <2>1, <2>2, <2>3 DEF Without, Left
    <3>2. AtOnce(c)'
      BY <1>1, <1>6, <2>1, <2>2, <2>3 DEF AtOnce, Left
    <3> QED
      BY <1>1, <3>1, <3>2, OneMoves DEF IInv, Distinct, Left
  <2>9. Recorded'
    <3>1. \A b \in Attempts : inner[b] = "dialed" => b # r
      BY <2>1
    <3> QED
      BY <2>2, <3>1 DEF IInv, Recorded
  <2>10. Where'
    <3>1. Located(c) /\ Located(c)' /\ opener'.n = opener.n
      BY <1>1, <2>1, <2>2, <2>4 DEF Located, Left
    <3> QED
      BY <2>8, <3>1, WhereKept DEF IInv
  <2>11. Reasons' /\ Blamed'
    <3>1. inner[r] # "over"
      BY DEF IInv, TypeOK, Places, Place
    <3>2. \A b \in Attempts : inner[b] = "over" => inner'[b] = "over" /\ why'[b] = why[b]
      BY <2>2, <3>1
    <3> QED
      BY <3>2, ReasonsKept
  <2> QED
    BY <2>5, <2>6, <2>7, <2>8, <2>9, <2>10, <2>11 DEF IInv
<1> QED
  BY <1>5, <1>6 DEF PutConn

\* The four ways a connection comes back.
LEMMA ClosesLateStep ==
  ASSUME IInv, NEW a \in Attempts, ClosesLate(a)
  PROVE  IInv'
<1>1. /\ late' = [late EXCEPT ![a] = "over"]
      /\ got' = [got EXCEPT ![a] = "taken"]
      /\ UNCHANGED <<outer, why, tries, conns, abandoned, clock, blamed, sock, numOpen>>
      /\ UNCHANGED <<opener, held>>
  BY DEF ClosesLate
<1>2. CASE got[a] = "conn" /\ PutConn(cur[a], requests)
  <2>1. cur[a] \in Sockets
    BY <1>2 DEF IInv, TypeOK, Places, Place
  <2>2. Leaves(cur[a])
    BY <1>1, <1>2 DEF Leaves
  <2> QED
    BY <1>1, <1>2, <2>1, <2>2, PutConnStep
<1>3. CASE got[a] = "error" /\ UNCHANGED <<inner, cur, free, requests>>
  BY <1>1, <1>3, NoConnection
<1> QED
  BY <1>2, <1>3 DEF ClosesLate

\* The caller that gives its connection back keeps IInv.
LEMMA ReturnsStep ==
  ASSUME IInv, NEW c \in held, Returns(c)
  PROVE  IInv'
<1>1. c \in Sockets
  BY DEF IInv, TypeOK
<1>2. /\ PutConn(c, requests) /\ Leaves(c) /\ late' = late
      /\ UNCHANGED <<outer, why, tries, conns, abandoned, clock, blamed, sock, numOpen>>
  BY DEF Returns, Leaves
<1> QED
  BY <1>1, <1>2, PutConnStep

\* The opener that logs in keeps IInv.
LEMMA RefillLogsInStep ==
  ASSUME IInv, RefillLogsIn
  PROVE  IInv'
<1>1. opener.busy \in Sockets
  BY DEF IInv, TypeOK, RefillLogsIn
<1>2. /\ PutConn(opener.busy, requests) /\ Leaves(opener.busy) /\ late' = late
      /\ UNCHANGED <<outer, why, tries, conns, abandoned, clock, blamed, sock, numOpen>>
  BY DEF RefillLogsIn, Leaves
<1> QED
  BY <1>1, <1>2, PutConnStep

-----------------------------------------------------------------------------
(* A slot that comes back *)

\* What is taken off the count is promised to who waits.
LEMMA SlotBack ==
  ASSUME IInv, GiveSlotBack(requests), numOpen >= 1
  PROVE  /\ numOpen' \in 0..MaxOpen /\ opener'.pending \in Nat
         /\ opener' = [busy |-> opener.busy, pending |-> opener'.pending, n |-> opener.n]
         /\ numOpen' - opener'.pending = numOpen - 1 - opener.pending
<1> DEFINE n == Wanted(numOpen - 1, requests)
<1>1. numOpen - 1 \in 0..MaxOpen /\ Cardinality(requests) \in Nat
      /\ opener \in [busy : Sockets \cup {None}, pending : 0..MaxOpen, n : 0..MaxRefills]
  BY ConnectingAssumption, Counting DEF IInv, TypeOK
<1>2. n \in Nat /\ numOpen - 1 + n <= MaxOpen
  BY <1>1, WantedType
<1>3. numOpen' = numOpen - 1 + n /\ opener' = [opener EXCEPT !.pending = @ + n]
  BY DEF GiveSlotBack
<1> HIDE DEF n
<1>4. opener' = [busy |-> opener.busy, pending |-> opener.pending + n, n |-> opener.n]
  BY <1>1, <1>3
<1> QED
  BY <1>1, <1>2, <1>3, <1>4, ConnectingAssumption

\* The attempt that fails lets go of its slot and of its socket, which is not open any more.
LEMMA ConnectorFailsStep ==
  ASSUME IInv, NEW a \in Attempts, NEW kind \in {"bad", "deadline", "timeout", "other", "abandoned"},
         inner[a] \in {"lookup", "dialing", "dialed", "login"},
         ConnectorFails(a, kind), kind = "deadline" => Ended(a),
         \/ sock' = sock
         \/ cur[a] # None /\ sock' = [sock EXCEPT ![cur[a]] = "closed"],
         cur[a] # None => sock'[cur[a]] # "open",
         UNCHANGED <<outer, late, got, tries, conns, abandoned, clock, blamed, free, requests,
                     held>>
  PROVE  IInv'
<1>1. /\ GiveSlotBack(requests) /\ cur' = [cur EXCEPT ![a] = None]
      /\ \/ tries[a] < MaxTries /\ inner' = [inner EXCEPT ![a] = "asking"] /\ why' = why
         \/ /\ inner' = [inner EXCEPT ![a] = "answer"]
            /\ why' = [why EXCEPT ![a] = IF kind = "bad" THEN "other" ELSE kind]
  BY DEF ConnectorFails
<1>2. /\ cur'[a] = None /\ inner'[a] \in {"asking", "answer"}
      /\ inner'[a] = "asking" => tries[a] < MaxTries
      /\ \A b \in Attempts : b # a => inner'[b] = inner[b] /\ cur'[b] = cur[b] /\ why'[b] = why[b]
      /\ why'[a] = "deadline" => why[a] = "deadline" \/ kind = "deadline"
  <2>1. inner \in [Attempts -> Inners] /\ cur \in [Attempts -> Sockets \cup {None}]
        /\ why \in [Attempts -> {"deadline", "timeout", "other", "abandoned"}]
    BY DEF IInv, TypeOK
  <2> QED
    BY <1>1, <2>1
<1>3. Place(a) /\ got[a] = "empty" /\ cur[a] \in Sockets \cup {None} /\ None \notin Sockets
  BY SocketFacts DEF IInv, TypeOK, Places, Place
<1>4. \A c \in Sockets : \/ sock'[c] = sock[c]
                         \/ c = cur[a] /\ sock'[c] = "closed"
  BY <1>3 DEF IInv, TypeOK
<1>5. /\ TakesSlot(a) /\ ~TakesSlot(a)' /\ ~Holds(a)'
      /\ Holds(a) <=> cur[a] # None
      /\ \A b \in Attempts : b # a => (TakesSlot(b)' <=> TakesSlot(b)) /\ (Holds(b)' <=> Holds(b))
  BY <1>2, <1>3 DEF TakesSlot, Holds, Loaded, Place, Empty
<1>6. Cardinality(Taking)' = Cardinality(Taking) - 1
  BY <1>5, TakingLess DEF IInv
<1>7. /\ Cardinality(held) \in Nat /\ Cardinality(free) \in Nat /\ Cardinality(Taking) \in Nat
      /\ opener.pending \in Nat /\ numOpen \in Nat /\ Promised(opener) \in Nat
      /\ numOpen = Cardinality(free) + Cardinality(held) + opener.pending
                   + Promised(opener) + Cardinality(Taking)
      /\ opener \in [busy : Sockets \cup {None}, pending : 0..MaxOpen, n : 0..MaxRefills]
  BY Counting DEF IInv, TypeOK, SlotsAddUp, Taking, Promised
<1>8. Cardinality(Taking) >= 1
  <2>1. a \in Taking /\ IsFiniteSet(Taking)
    BY <1>5, Counting DEF Taking, IInv
  <2>2. Cardinality(Taking \ {a}) = Cardinality(Taking) - 1 /\ IsFiniteSet(Taking \ {a})
    BY <2>1, FS_RemoveElement
  <2>3. Cardinality(Taking \ {a}) \in Nat
    BY <2>2, FS_CardinalityType
  <2> QED
    BY <1>7, <2>2, <2>3
<1>9. /\ numOpen' \in 0..MaxOpen /\ opener'.pending \in Nat
      /\ opener' = [busy |-> opener.busy, pending |-> opener'.pending, n |-> opener.n]
      /\ numOpen' - opener'.pending = numOpen - 1 - opener.pending
  <2>1. numOpen >= 1
    BY <1>7, <1>8
  <2> QED
    BY <1>1, <2>1, SlotBack
<1>10. opener'.busy = opener.busy /\ opener'.n = opener.n
  BY <1>9
<1>11. numOpen' = Cardinality(free) + Cardinality(held) + opener'.pending
                  + Promised(opener) + Cardinality(Taking)'
  BY <1>6, <1>7, <1>9, ConnectingAssumption
<1>12. SlotsAddUp'
  BY <1>10, <1>11 DEF SlotsAddUp, Taking, Promised
<1>13. TypeOK'
  <2>1. opener'.pending \in 0..MaxOpen
    <3>1. Cardinality(Taking)' \in Nat
      BY <1>6, <1>7, <1>8
    <3> QED
      BY <1>7, <1>9, <1>11, <3>1, ConnectingAssumption
  <2>2. opener' \in [busy : Sockets \cup {None}, pending : 0..MaxOpen, n : 0..MaxRefills]
    BY <1>7, <1>9, <2>1
  <2>3. inner' \in [Attempts -> Inners] /\ cur' \in [Attempts -> Sockets \cup {None}]
    BY <1>1 DEF IInv, TypeOK, Inners
  <2>4. why' \in [Attempts -> {"deadline", "timeout", "other", "abandoned"}]
    <3>1. why \in [Attempts -> {"deadline", "timeout", "other", "abandoned"}]
      BY DEF IInv, TypeOK
    <3>2. (IF kind = "bad" THEN "other" ELSE kind) \in {"deadline", "timeout", "other", "abandoned"}
      OBVIOUS
    <3> QED
      BY <1>1, <3>1, <3>2
  <2>5. sock' \in [Sockets -> {"none", "open", "closed"}]
    BY DEF IInv, TypeOK
  <2> QED
    BY <1>9, <2>2, <2>3, <2>4, <2>5 DEF IInv, TypeOK
<1>14. Places'
  <2>1. ASSUME NEW b \in Attempts, b # a PROVE Place(b)'
    <3>1. \A c \in conns[b] : c \in Sockets /\ By(c) = b /\ sock[c] # "none"
      BY DEF IInv, Places, Place, TypeOK
    <3>2. \A c \in conns[b] : sock'[c] # "none"
      BY <1>4, <3>1
    <3> QED
      BY <1>2, <2>1, <3>1, <3>2 DEF IInv, Places, Place
  <2>2. Place(a)'
    <3>1. \A c \in conns[a] : c \in Sockets /\ By(c) = a /\ sock[c] # "none"
      BY DEF IInv, Places, Place, TypeOK
    <3>2. \A c \in conns[a] : sock'[c] # "none"
      BY <1>4, <3>1
    <3>3. outer[a] # "idle" /\ a \notin requests
      BY <1>3 DEF Place
    <3> QED
      BY <1>2, <1>3, <3>1, <3>2, <3>3 DEF Place, Empty, Loaded
  <2> QED
    BY <2>1, <2>2 DEF Places
<1>15. /\ Distinct'
       /\ \A x \in Sockets : IF x = cur[a] THEN Located(x) /\ ~Located(x)'
                             ELSE Located(x)' <=> Located(x)
  <2>1. CASE cur[a] = None
    <3>1. /\ \A b \in Attempts : Holds(b)' <=> Holds(b)
          /\ \A b \in Attempts : Holds(b) => cur'[b] = cur[b]
      BY <1>2, <1>5, <2>1
    <3> QED
      BY <1>3, <1>10, <2>1, <3>1, SameHolders DEF IInv
  <2>2. ASSUME NEW c \in Sockets, c = cur[a]
        PROVE  /\ Distinct' /\ Located(c) /\ ~Located(c)'
               /\ \A x \in Sockets : x # c => (Located(x)' <=> Located(x))
    <3>1. Holds(a) /\ AtOnce(c)
      BY <1>3, <1>5, <2>2 DEF IInv, Distinct
    <3>2. /\ c \notin held \cup free /\ c # opener.busy
          /\ \A b \in Attempts : b # a /\ Holds(b) => cur[b] # c
      BY <2>2, <3>1 DEF AtOnce
    <3>3. Without(c)
      BY <1>2, <1>5, <1>10, <2>2 DEF Without
    <3>4. \A b \in Attempts : ~(Holds(b)' /\ cur'[b] = c)
      BY <1>2, <1>5, <3>2
    <3>5. AtOnce(c)' /\ ~Located(c)'
      BY <1>10, <3>2, <3>4 DEF AtOnce, Located
    <3>6. Located(c)
      BY <2>2, <3>1 DEF Located
    <3> QED
      BY <1>10, <3>3, <3>5, <3>6, OneMoves DEF IInv, Distinct
  <2>3. CASE cur[a] \in Sockets
    BY <2>2, <2>3
  <2> QED
    BY <1>3, <2>1, <2>3
<1>16. Recorded'
  <2> SUFFICES ASSUME NEW c \in Sockets, By(c) \in Attempts, sock'[c] = "open"
               PROVE  c \in conns'[By(c)] \/ (inner'[By(c)] = "dialed" /\ cur'[By(c)] = c)
    BY DEF Recorded
  <2>1. sock[c] = "open" /\ c # cur[a]
    BY <1>3, <1>4
  <2>2. c \in conns[By(c)] \/ (inner[By(c)] = "dialed" /\ cur[By(c)] = c)
    BY <2>1 DEF IInv, Recorded
  <2> QED
    BY <1>2, <2>1, <2>2
<1>17. Where'
  <2>1. \A c \in Sockets : Located(c)' => Located(c)
    BY <1>3, <1>15
  <2>2. \A c \in Sockets : Located(c) /\ ~Located(c)' => sock'[c] # "open"
    BY <1>3, <1>15
  <2>3. \A c \in Sockets :
          \/ sock'[c] = sock[c]
          \/ /\ sock[c] # "none" /\ sock'[c] = "closed"
             /\ Located(c)' => By(c) \notin Attempts \/ abandoned'[By(c)]
    BY <1>3, <1>4, <1>15 DEF IInv, Where, Fresh
  <2> QED
    BY <1>10, <2>1, <2>2, <2>3, WhereKept DEF IInv
<1>18. Reasons' /\ Blamed'
  <2>1. \A b \in Attempts : why'[b] = "deadline" => why[b] = "deadline" \/ Ended(b)
    BY <1>2
  <2>2. \A b \in Attempts : inner[b] = "over" => inner'[b] = "over" /\ why'[b] = why[b]
    BY <1>2
  <2> QED
    BY <2>1, <2>2, ReasonsKept
<1> QED
  BY <1>12, <1>13, <1>14, <1>15, <1>16, <1>17, <1>18 DEF IInv

\* The ways an attempt's connector fails: the lookup, the refused socket, the login.
LEMMA LooksUpStep ==
  ASSUME IInv, NEW a \in Attempts, LooksUp(a)
  PROVE  IInv'
<1>1. /\ inner[a] = "lookup"
      /\ UNCHANGED <<outer, late, got, tries, conns, abandoned, clock, blamed, sock, free,
                     requests, held>>
  BY DEF LooksUp
<1>2. CASE inner' = [inner EXCEPT ![a] = "dialing"] /\ UNCHANGED <<cur, why, numOpen, opener>>
  <2>1. <<inner[a], "dialing">> \in Moves
    BY <1>1 DEF Moves
  <2> QED
    BY <1>1, <1>2, <2>1, MoveStep
<1>3. ASSUME NEW kind \in NetErrors, ConnectorFails(a, kind) PROVE IInv'
  <2>1. cur[a] = None
    BY <1>1 DEF IInv, Places, Place, Empty
  <2>2. kind # "deadline" /\ kind \in {"bad", "deadline", "timeout", "other", "abandoned"}
    BY DEF NetErrors
  <2> QED
    BY <1>1, <1>3, <2>1, <2>2, ConnectorFailsStep
<1> QED
  BY <1>2, <1>3 DEF LooksUp

\* A read that returns keeps IInv.
LEMMA ReadReturnsStep ==
  ASSUME IInv, NEW a \in Attempts, ReadReturns(a)
  PROVE  IInv'
<1>1. /\ inner[a] = "login" /\ sock' = sock /\ sock[cur[a]] = "closed"
      /\ UNCHANGED <<outer, late, got, tries, conns, abandoned, clock, blamed, free,
                     requests, held>>
  BY DEF ReadReturns
<1>2. PICK kind \in {"bad", "other"} : ConnectorFails(a, kind)
  BY DEF ReadReturns
<1>3. sock'[cur[a]] # "open" /\ kind # "deadline" /\ kind \in {"bad", "deadline", "timeout", "other", "abandoned"}
  BY <1>1
<1> QED
  BY <1>1, <1>2, <1>3, ConnectorFailsStep

\* A login that fails keeps IInv.
LEMMA LoginFailsStep ==
  ASSUME IInv, NEW a \in Attempts, LoginFails(a)
  PROVE  IInv'
<1>1. /\ inner[a] = "login" /\ sock' = [sock EXCEPT ![cur[a]] = "closed"]
      /\ UNCHANGED <<outer, late, got, tries, conns, abandoned, clock, blamed, free,
                     requests, held>>
  BY DEF LoginFails
<1>2. PICK kind \in {"bad", "other"} : ConnectorFails(a, kind)
  BY DEF LoginFails
<1>3. cur[a] # None /\ sock'[cur[a]] # "open"
  BY <1>1 DEF IInv, Places, Place, Loaded, TypeOK
<1>4. kind # "deadline" /\ kind \in {"bad", "deadline", "timeout", "other", "abandoned"}
  OBVIOUS
<1> QED
  BY <1>1, <1>2, <1>3, <1>4, ConnectorFailsStep

\* A socket is dialed under the next number.
LEMMA DialsStep ==
  ASSUME IInv, NEW a \in Attempts, Dials(a)
  PROVE  IInv'
<1>1. /\ inner[a] = "dialing"
      /\ UNCHANGED <<outer, late, got, conns, abandoned, clock, blamed, free, requests, held>>
  BY DEF Dials
<1>2. cur[a] = None /\ tries[a] < MaxTries /\ Place(a)
  BY <1>1 DEF IInv, Places, Place, Empty
<1>3. ASSUME NEW kind \in DialErrors(a), ConnectorFails(a, kind), UNCHANGED <<tries, sock>>
      PROVE  IInv'
  <2>1. kind \in NetErrors \/ (kind = "deadline" /\ (Dead(a) \/ clock[a].passed))
    BY DEF DialErrors
  <2>2. kind = "deadline" => Ended(a)
    BY <2>1, Zenon DEF Ended, Dead, NetErrors
  <2>3. kind \in {"bad", "deadline", "timeout", "other", "abandoned"}
    BY <2>1 DEF NetErrors
  <2> QED
    BY <1>1, <1>2, <1>3, <2>2, <2>3, ConnectorFailsStep
<1>4. ASSUME NEW c, c = <<a, tries[a] + 1>>,
             tries' = [tries EXCEPT ![a] = tries[a] + 1], cur' = [cur EXCEPT ![a] = c],
             sock' = [sock EXCEPT ![c] = "open"], inner' = [inner EXCEPT ![a] = "dialed"],
             UNCHANGED <<why, numOpen, opener>>
      PROVE  IInv'
  <2>1. tries[a] \in 0..MaxTries /\ tries[a] + 1 \in 1..MaxTries
    BY <1>2, ConnectingAssumption DEF IInv, TypeOK
  <2>2. c \in Sockets /\ By(c) = a /\ c[2] = tries[a] + 1 /\ c # None
    BY <1>4, <2>1, SocketFacts
  <2>3. sock[c] = "none" /\ ~Located(c)
    BY <2>1, <2>2 DEF IInv, Where, Fresh
  <2>4. /\ inner'[a] = "dialed" /\ cur'[a] = c /\ tries'[a] = tries[a] + 1 /\ sock'[c] = "open"
        /\ \A b \in Attempts : b # a => inner'[b] = inner[b] /\ cur'[b] = cur[b] /\ tries'[b] = tries[b]
        /\ \A x \in Sockets : x # c => sock'[x] = sock[x]
    BY <1>4, <2>2 DEF IInv, TypeOK
  <2>5. TypeOK'
    <3>1. tries' \in [Attempts -> 0..MaxTries]
      BY <1>4, <2>1 DEF IInv, TypeOK
    <3>2. sock' \in [Sockets -> {"none", "open", "closed"}]
      BY <1>4 DEF IInv, TypeOK
    <3>3. inner' \in [Attempts -> Inners] /\ cur' \in [Attempts -> Sockets \cup {None}]
      BY <1>4, <2>2 DEF IInv, TypeOK, Inners
    <3> QED
      BY <1>1, <1>4, <3>1, <3>2, <3>3 DEF IInv, TypeOK
  <2>6. Places'
    <3>0. \A b \in Attempts : \A x \in conns[b] : x \in Sockets /\ By(x) = b /\ sock'[x] # "none"
      BY <2>4 DEF IInv, Places, Place, TypeOK
    <3>1. ASSUME NEW b \in Attempts, b # a PROVE Place(b)'
      BY <1>1, <2>4, <3>0, <3>1 DEF IInv, Places, Place
    <3>2. Place(a)'
      BY <1>1, <1>2, <2>2, <2>4, <3>0 DEF Place, Empty, Loaded
    <3> QED
      BY <3>1, <3>2 DEF Places
  <2>7. /\ ~Holds(a) /\ Holds(a)' /\ TakesSlot(a) /\ TakesSlot(a)'
        /\ \A b \in Attempts : b # a => (TakesSlot(b)' <=> TakesSlot(b)) /\ (Holds(b)' <=> Holds(b))
    BY <1>1, <2>4 DEF Holds, TakesSlot, Loaded
  <2>8. SlotsAddUp'
    <3>1. Taking' = Taking
      BY <2>7 DEF Taking
    <3> QED
      BY <1>1, <1>4, <3>1 DEF IInv, SlotsAddUp, Taking
  <2>9. Distinct' /\ \A x \in Sockets : x # c => (Located(x)' <=> Located(x))
    <3>1. Without(c)
      BY <1>1, <1>2, <1>4, <2>4, <2>7 DEF Without
    <3>2. /\ c \notin held \cup free /\ c # opener.busy
          /\ \A b \in Attempts : ~(Holds(b) /\ cur[b] = c)
      BY <2>3 DEF Located
    <3>3. AtOnce(c)'
      BY <1>1, <1>4, <2>4, <2>7, <3>2 DEF AtOnce
    <3> QED
      BY <1>4, <2>2, <3>1, <3>3, OneMoves DEF IInv, Distinct
  <2>10. Located(c)'
    BY <2>4, <2>7 DEF Located
  <2>11. Recorded'
    <3> SUFFICES ASSUME NEW x \in Sockets, By(x) \in Attempts, sock'[x] = "open"
                 PROVE  x \in conns'[By(x)] \/ (inner'[By(x)] = "dialed" /\ cur'[By(x)] = x)
      BY DEF Recorded
    <3>1. CASE x = c
      BY <2>2, <2>4, <3>1
    <3>2. CASE x # c
      <4>1. x \in conns[By(x)] \/ (inner[By(x)] = "dialed" /\ cur[By(x)] = x)
        BY <2>4, <3>2 DEF IInv, Recorded
      <4>2. inner[By(x)] = "dialed" => By(x) # a
        BY <1>1
      <4> QED
        BY <1>1, <2>4, <4>1, <4>2
    <3> QED
      BY <3>1, <3>2
  <2>12. Where'
    <3>1. Fresh'
      <4>1. \A x \in Sockets : Located(x)' => sock'[x] # "none"
        BY <2>4, <2>9 DEF IInv, Where, Fresh
      <4>2. \A x \in Sockets : By(x) \in Attempts /\ x[2] > tries'[By(x)] => sock'[x] = "none"
        <5> SUFFICES ASSUME NEW x \in Sockets, By(x) \in Attempts, x[2] > tries'[By(x)]
                     PROVE  sock'[x] = "none"
          OBVIOUS
        <5>1. x # c /\ x[2] \in Nat
          BY <2>1, <2>2, <2>4, SocketFacts
        <5>2. x[2] > tries[By(x)]
          BY <2>1, <2>4, <5>1
        <5> QED
          BY <2>4, <5>1, <5>2 DEF IInv, Where, Fresh
      <4>3. \A x \in Sockets : By(x) = Opener /\ x[2] > opener'.n => sock'[x] = "none"
        <5>1. \A x \in Sockets : By(x) = Opener => x # c
          BY <2>2, SocketFacts
        <5> QED
          BY <1>4, <2>4, <5>1 DEF IInv, Where, Fresh
      <4> QED
        BY <4>1, <4>2, <4>3 DEF Fresh
    <3>2. Known'
      BY <2>4, <2>9, <2>10 DEF IInv, Where, Known
    <3>3. Alive'
      BY <1>1, <2>4, <2>9 DEF IInv, Where, Alive
    <3> QED
      BY <3>1, <3>2, <3>3 DEF Where
  <2>13. Reasons' /\ Blamed'
    BY <1>1, <1>4 DEF IInv, Reasons, Ended, TimedOut, Blamed
  <2> QED
    BY <2>5, <2>6, <2>8, <2>9, <2>11, <2>12, <2>13 DEF IInv
<1> QED
  BY <1>3, <1>4 DEF Dials

\* It is recorded, or refused and closed.
LEMMA AddsStep ==
  ASSUME IInv, NEW a \in Attempts, Adds(a)
  PROVE  IInv'
<1>1. /\ inner[a] = "dialed"
      /\ UNCHANGED <<outer, late, got, tries, abandoned, clock, blamed, free, requests, held>>
  BY DEF Adds
<1>2. cur[a] \in Sockets /\ By(cur[a]) = a /\ cur[a] # None /\ Holds(a) /\ Place(a)
  BY <1>1 DEF IInv, TypeOK, Places, Place, Loaded, Holds
<1>3. CASE /\ sock' = [sock EXCEPT ![cur[a]] = "closed"]
           /\ ConnectorFails(a, "abandoned") /\ UNCHANGED conns
  <2>1. sock'[cur[a]] # "open"
    BY <1>2, <1>3 DEF IInv, TypeOK
  <2> QED
    BY <1>1, <1>2, <1>3, <2>1, ConnectorFailsStep
<1>4. CASE /\ ~abandoned[a]
           /\ conns' = [conns EXCEPT ![a] = @ \cup {cur[a]}]
           /\ inner' = [inner EXCEPT ![a] = "login"]
           /\ UNCHANGED <<cur, why, numOpen, opener, sock>>
  <2>1. /\ inner'[a] = "login" /\ conns'[a] = conns[a] \cup {cur[a]}
        /\ \A b \in Attempts : b # a => inner'[b] = inner[b] /\ conns'[b] = conns[b]
    BY <1>4 DEF IInv, TypeOK
  <2>2. TypeOK'
    <3>1. inner' \in [Attempts -> Inners] /\ conns' \in [Attempts -> SUBSET Sockets]
      BY <1>2, <1>4 DEF IInv, TypeOK, Inners
    <3> QED
      BY <1>1, <1>4, <3>1 DEF IInv, TypeOK
  <2>3. sock[cur[a]] # "none"
    BY <1>2 DEF IInv, Where, Fresh, Located
  <2>4. Places'
    <3>1. ASSUME NEW b \in Attempts, b # a PROVE Place(b)'
      BY <1>1, <1>4, <2>1, <3>1 DEF IInv, Places, Place
    <3>2. Place(a)'
      BY <1>1, <1>2, <1>4, <2>1, <2>3 DEF Place, Empty, Loaded
    <3> QED
      BY <3>1, <3>2 DEF Places
  <2>5. \A b \in Attempts : (TakesSlot(b)' <=> TakesSlot(b)) /\ (Holds(b)' <=> Holds(b))
    BY <1>1, <1>4, <2>1 DEF TakesSlot, Holds, Loaded
  <2>6. SlotsAddUp'
    <3>1. Taking' = Taking
      BY <2>5 DEF Taking
    <3> QED
      BY <1>1, <1>4, <3>1 DEF IInv, SlotsAddUp, Taking
  <2>7. (\A c \in Sockets : Located(c)' <=> Located(c)) /\ Distinct'
    BY <1>1, <1>4, <2>5, SameHolders DEF IInv
  <2>8. Recorded'
    <3> SUFFICES ASSUME NEW c \in Sockets, By(c) \in Attempts, sock'[c] = "open"
                 PROVE  c \in conns'[By(c)] \/ (inner'[By(c)] = "dialed" /\ cur'[By(c)] = c)
      BY DEF Recorded
    <3>1. c \in conns[By(c)] \/ (inner[By(c)] = "dialed" /\ cur[By(c)] = c)
      BY <1>4 DEF IInv, Recorded
    <3> QED
      BY <1>4, <2>1, <3>1
  <2>9. Where'
    BY <1>1, <1>4, <2>7, WhereKept DEF IInv
  <2>10. Reasons' /\ Blamed'
    BY <1>1, <1>4 DEF IInv, Reasons, Ended, TimedOut, Blamed
  <2> QED
    BY <2>2, <2>4, <2>6, <2>7, <2>8, <2>9, <2>10 DEF IInv
<1> QED
  BY <1>3, <1>4 DEF Adds

-----------------------------------------------------------------------------
(* A slot or a connection that is taken *)

\* An attempt asks the pool: it is told of its deadline, takes an idle connection, waits,
\* or takes a slot.
LEMMA AsksStep ==
  ASSUME IInv, NEW a \in Attempts, Asks(a)
  PROVE  IInv'
<1>1. /\ inner[a] = "asking"
      /\ UNCHANGED <<outer, late, got, tries, conns, abandoned, clock, blamed, sock, opener, held>>
  BY DEF Asks
<1>2. Place(a) /\ cur[a] = None /\ tries[a] < MaxTries /\ ~Holds(a) /\ ~TakesSlot(a)
  BY <1>1 DEF IInv, Places, Place, Empty, Holds, Loaded, TakesSlot
<1>3. CASE /\ Dead(a) /\ inner' = [inner EXCEPT ![a] = "answer"]
           /\ why' = [why EXCEPT ![a] = "deadline"]
           /\ UNCHANGED <<cur, numOpen, free, requests>>
  <2>1. <<inner[a], "answer">> \in Moves /\ inner[a] \notin {"idle", "queued"}
    BY <1>1 DEF Moves
  <2>2. clock[a].fired \/ clock[a].spent
    BY <1>3 DEF Dead
  <2> QED
    BY <1>1, <1>3, <2>1, <2>2, MoveStep
<1>4. CASE /\ requests' = requests \cup {a} /\ inner' = [inner EXCEPT ![a] = "queued"]
           /\ UNCHANGED <<why, cur, numOpen, free>>
  <2>1. <<inner[a], "queued">> \in Moves /\ inner[a] # "idle"
    BY <1>1 DEF Moves
  <2> QED
    BY <1>1, <1>4, <2>1, MoveStep
<1>5. ASSUME NEW c \in free, free' = free \ {c}, cur' = [cur EXCEPT ![a] = c],
             inner' = [inner EXCEPT ![a] = "answer"], UNCHANGED <<why, numOpen, requests>>
      PROVE  IInv'
  <2>1. c \in Sockets /\ c # None /\ AtOnce(c)
    BY SocketFacts DEF IInv, TypeOK, Distinct
  <2>2. /\ inner'[a] = "answer" /\ cur'[a] = c
        /\ \A b \in Attempts : b # a => inner'[b] = inner[b] /\ cur'[b] = cur[b]
    BY <1>5 DEF IInv, TypeOK
  <2>3. TypeOK'
    <3>1. inner' \in [Attempts -> Inners] /\ cur' \in [Attempts -> Sockets \cup {None}]
      BY <1>5, <2>1 DEF IInv, TypeOK, Inners
    <3> QED
      BY <1>1, <1>5, <3>1 DEF IInv, TypeOK
  <2>4. Places'
    <3>1. ASSUME NEW b \in Attempts, b # a PROVE Place(b)'
      BY <1>1, <1>5, <2>2, <3>1 DEF IInv, Places, Place
    <3>2. Place(a)'
      BY <1>1, <1>2, <1>5, <2>2 DEF Place, Empty, Loaded
    <3> QED
      BY <3>1, <3>2 DEF Places
  <2>5. /\ Holds(a)' /\ TakesSlot(a)'
        /\ \A b \in Attempts : b # a => (TakesSlot(b)' <=> TakesSlot(b)) /\ (Holds(b)' <=> Holds(b))
    BY <1>1, <2>1, <2>2 DEF Holds, TakesSlot, Loaded
  <2>6. SlotsAddUp'
    <3>1. Cardinality(Taking)' = Cardinality(Taking) + 1
      BY <1>2, <2>5, TakingMore DEF IInv
    <3>2. Cardinality(free') = Cardinality(free) - 1
      BY <1>5, Counting, OneLess DEF IInv
    <3>3. /\ Cardinality(held) \in Nat /\ Cardinality(free) \in Nat /\ Cardinality(Taking) \in Nat
          /\ opener.pending \in Nat /\ numOpen \in Nat
      BY Counting DEF IInv, TypeOK
    <3> QED
      BY <1>1, <1>5, <3>1, <3>2, <3>3 DEF IInv, SlotsAddUp, Taking
  <2>7. Distinct' /\ \A x \in Sockets : x # c => (Located(x)' <=> Located(x))
    <3>1. Without(c)
      BY <1>1, <1>2, <1>5, <2>2, <2>5 DEF Without
    <3>2. /\ c \notin held /\ c # opener.busy
          /\ \A b \in Attempts : ~(Holds(b) /\ cur[b] = c)
      BY <2>1 DEF AtOnce
    <3>3. AtOnce(c)'
      BY <1>1, <1>5, <2>2, <2>5, <3>2 DEF AtOnce
    <3> QED
      BY <1>1, <2>1, <3>1, <3>3, OneMoves DEF IInv, Distinct
  <2>8. Located(c) /\ Located(c)'
    BY <2>2, <2>5 DEF Located
  <2>9. Recorded'
    BY <1>1, <1>5, <2>2 DEF IInv, Recorded
  <2>10. Where'
    BY <1>1, <2>7, <2>8, WhereKept DEF IInv
  <2>11. Reasons' /\ Blamed'
    BY <1>1, <1>5 DEF IInv, Reasons, Ended, TimedOut, Blamed
  <2> QED
    BY <2>3, <2>4, <2>6, <2>7, <2>9, <2>10, <2>11 DEF IInv
<1>6. CASE /\ ~Full /\ numOpen' = numOpen + 1 /\ inner' = [inner EXCEPT ![a] = "lookup"]
           /\ UNCHANGED <<why, cur, free, requests>>
  <2>1. /\ inner'[a] = "lookup"
        /\ \A b \in Attempts : b # a => inner'[b] = inner[b]
    BY <1>6 DEF IInv, TypeOK
  <2>2. TypeOK'
    <3>1. inner' \in [Attempts -> Inners]
      BY <1>6 DEF IInv, TypeOK, Inners
    <3>2. numOpen' \in 0..MaxOpen
      BY <1>6, ConnectingAssumption DEF IInv, TypeOK, Full
    <3> QED
      BY <1>1, <1>6, <3>1, <3>2 DEF IInv, TypeOK
  <2>3. Places'
    <3>1. ASSUME NEW b \in Attempts, b # a PROVE Place(b)'
      BY <1>1, <1>6, <2>1, <3>1 DEF IInv, Places, Place
    <3>2. Place(a)'
      BY <1>1, <1>2, <1>6, <2>1 DEF Place, Empty, Loaded
    <3> QED
      BY <3>1, <3>2 DEF Places
  <2>4. /\ ~Holds(a)' /\ TakesSlot(a)'
        /\ \A b \in Attempts : b # a => (TakesSlot(b)' <=> TakesSlot(b)) /\ (Holds(b)' <=> Holds(b))
    BY <1>1, <1>6, <2>1 DEF Holds, TakesSlot, Loaded
  <2>5. SlotsAddUp'
    <3>1. Cardinality(Taking)' = Cardinality(Taking) + 1
      BY <1>2, <2>4, TakingMore DEF IInv
    <3>2. /\ Cardinality(held) \in Nat /\ Cardinality(free) \in Nat /\ Cardinality(Taking) \in Nat
          /\ opener.pending \in Nat /\ numOpen \in Nat /\ Promised(opener) \in Nat
          /\ numOpen = Cardinality(free) + Cardinality(held) + opener.pending
                       + Promised(opener) + Cardinality(Taking)
      BY Counting DEF IInv, TypeOK, SlotsAddUp, Taking, Promised
    <3>3. numOpen' = Cardinality(free') + Cardinality(held') + opener'.pending
                     + Promised(opener') + Cardinality(Taking)'
      BY <1>1, <1>6, <3>1, <3>2
    <3> QED
      BY <3>3 DEF SlotsAddUp, Taking, Promised
  <2>6. (\A c \in Sockets : Located(c)' <=> Located(c)) /\ Distinct'
    <3>1. \A b \in Attempts : Holds(b)' <=> Holds(b)
      BY <1>2, <2>4
    <3> QED
      BY <1>1, <1>6, <3>1, SameHolders DEF IInv
  <2>7. Recorded'
    BY <1>1, <1>6, <2>1 DEF IInv, Recorded
  <2>8. Where'
    BY <1>1, <2>6, WhereKept DEF IInv
  <2>9. Reasons' /\ Blamed'
    BY <1>1, <1>6 DEF IInv, Reasons, Ended, TimedOut, Blamed
  <2> QED
    BY <2>2, <2>3, <2>5, <2>6, <2>7, <2>8, <2>9 DEF IInv
<1>7. Idles(a) \subseteq free
  BY DEF Idles
<1> QED
  BY <1>3, <1>4, <1>5, <1>6, <1>7 DEF Asks

\* An attempt that was handed a connection too late puts it back.
LEMMA PutsBackStep ==
  ASSUME IInv, NEW a \in Attempts, PutsBack(a)
  PROVE  IInv'
<1>1. /\ inner[a] = "returning"
      /\ UNCHANGED <<outer, late, got, why, tries, conns, abandoned, clock, blamed, sock,
                     numOpen, opener, held>>
  BY DEF PutsBack
<1> SUFFICES ASSUME NEW c \in Sockets, c = cur[a]
             PROVE  IInv'
  BY <1>1 DEF IInv, TypeOK, Places, Place, Loaded
<1>2. Place(a) /\ Holds(a) /\ TakesSlot(a) /\ c # None /\ AtOnce(c)
  BY <1>1, SocketFacts DEF IInv, Places, Holds, Loaded, TakesSlot, Distinct
<1>3. /\ c \notin held \cup free /\ c # opener.busy
      /\ \A b \in Attempts : b # a => ~(Holds(b) /\ cur[b] = c)
  BY <1>2 DEF AtOnce
<1>4. CASE /\ free' = free \cup {c} /\ inner' = [inner EXCEPT ![a] = "answer"]
           /\ cur' = [cur EXCEPT ![a] = None] /\ requests' = requests
  <2>1. /\ inner'[a] = "answer" /\ cur'[a] = None
        /\ \A b \in Attempts : b # a => inner'[b] = inner[b] /\ cur'[b] = cur[b]
    BY <1>4 DEF IInv, TypeOK
  <2>2. TypeOK'
    <3>1. inner' \in [Attempts -> Inners] /\ cur' \in [Attempts -> Sockets \cup {None}]
      BY <1>4 DEF IInv, TypeOK, Inners
    <3> QED
      BY <1>1, <1>4, <3>1 DEF IInv, TypeOK
  <2>3. Places'
    <3>1. ASSUME NEW b \in Attempts, b # a PROVE Place(b)'
      BY <1>1, <1>4, <2>1, <3>1 DEF IInv, Places, Place
    <3>2. Place(a)'
      BY <1>1, <1>2, <1>4, <2>1 DEF Place, Empty, Loaded
    <3> QED
      BY <3>1, <3>2 DEF Places
  <2>4. /\ ~Holds(a)' /\ ~TakesSlot(a)'
        /\ \A b \in Attempts : b # a => (TakesSlot(b)' <=> TakesSlot(b)) /\ (Holds(b)' <=> Holds(b))
    BY <1>1, <2>1 DEF Holds, TakesSlot, Loaded
  <2>5. SlotsAddUp'
    <3>1. Cardinality(Taking)' = Cardinality(Taking) - 1
      BY <1>2, <2>4, TakingLess DEF IInv
    <3>2. Cardinality(free') = Cardinality(free) + 1
      BY <1>3, <1>4, Counting, OneMore DEF IInv
    <3>3. /\ Cardinality(held) \in Nat /\ Cardinality(free) \in Nat /\ Cardinality(Taking) \in Nat
          /\ opener.pending \in Nat /\ numOpen \in Nat
      BY Counting DEF IInv, TypeOK
    <3> QED
      BY <1>1, <1>4, <3>1, <3>2, <3>3 DEF IInv, SlotsAddUp, Taking
  <2>6. Distinct' /\ \A x \in Sockets : x # c => (Located(x)' <=> Located(x))
    <3>1. Without(c)
      BY <1>1, <1>4, <2>1, <2>4 DEF Without
    <3>2. AtOnce(c)'
      BY <1>1, <1>3, <1>4, <2>1, <2>4 DEF AtOnce
    <3> QED
      BY <1>1, <3>1, <3>2, OneMoves DEF IInv, Distinct
  <2>7. Located(c) /\ Located(c)'
    BY <1>2, <1>4 DEF Located
  <2>8. Recorded'
    BY <1>1, <2>1 DEF IInv, Recorded
  <2>9. Where'
    BY <1>1, <2>6, <2>7, WhereKept DEF IInv
  <2>10. Reasons' /\ Blamed'
    <3>1. \A b \in Attempts : inner[b] = "over" => inner'[b] = "over" /\ why'[b] = why[b]
      BY <1>1, <2>1
    <3> QED
      BY <1>1, <3>1, ReasonsKept
  <2> QED
    BY <2>2, <2>3, <2>5, <2>6, <2>8, <2>9, <2>10 DEF IInv
<1>5. ASSUME NEW r \in requests, requests' = requests \ {r},
             inner' = [inner EXCEPT ![r] = "handed", ![a] = "answer"],
             cur' = [cur EXCEPT ![r] = c, ![a] = None], free' = free
      PROVE  IInv'
  <2>1. r \in Attempts /\ Place(r) /\ inner[r] = "queued"
    BY DEF IInv, TypeOK, Places, Place
  <2>2. r # a /\ ~TakesSlot(r) /\ ~Holds(r)
    BY <1>1, <2>1 DEF TakesSlot, Holds, Loaded
  <2>3. /\ inner'[a] = "answer" /\ cur'[a] = None /\ inner'[r] = "handed" /\ cur'[r] = c
        /\ \A b \in Attempts : b \notin {a, r} => inner'[b] = inner[b] /\ cur'[b] = cur[b]
    BY <1>5, <2>1, <2>2 DEF IInv, TypeOK
  <2>4. TypeOK'
    <3>1. inner' \in [Attempts -> Inners] /\ cur' \in [Attempts -> Sockets \cup {None}]
      BY <1>5 DEF IInv, TypeOK, Inners
    <3> QED
      BY <1>1, <1>5, <3>1 DEF IInv, TypeOK
  <2>5. Places'
    <3>1. ASSUME NEW b \in Attempts, b \notin {a, r} PROVE Place(b)'
      <4>1. Place(b)
        BY DEF IInv, Places
      <4>2. inner'[b] = inner[b] /\ cur'[b] = cur[b] /\ (b \in requests' => b \in requests)
        BY <1>5, <2>3, <3>1
      <4> QED
        BY <1>1, <4>1, <4>2 DEF Place
    <3>2. Place(a)'
      BY <1>1, <1>2, <1>5, <2>3 DEF Place, Empty, Loaded
    <3>3. Place(r)'
      BY <1>1, <1>2, <1>5, <2>1, <2>3 DEF Place, Empty, Loaded
    <3> QED
      BY <3>1, <3>2, <3>3 DEF Places
  <2>6. /\ ~Holds(a)' /\ ~TakesSlot(a)' /\ Holds(r)' /\ TakesSlot(r)'
        /\ \A b \in Attempts : b \notin {a, r} => (TakesSlot(b)' <=> TakesSlot(b)) /\ (Holds(b)' <=> Holds(b))
    BY <1>1, <1>2, <2>3 DEF Holds, TakesSlot, Loaded
  <2>7. SlotsAddUp'
    <3>1. Cardinality(Taking)' = Cardinality(Taking)
      BY <1>2, <2>1, <2>2, <2>6, TakingSwap DEF IInv
    <3> QED
      BY <1>1, <1>5, <3>1 DEF IInv, SlotsAddUp, Taking
  <2>8. Distinct' /\ \A x \in Sockets : x # c => (Located(x)' <=> Located(x))
    <3>1. Without(c)
      BY <1>1, <1>5, <2>1, <2>2, <2>3, <2>6 DEF Without
    <3>2. AtOnce(c)'
      BY <1>1, <1>3, <1>5, <2>1, <2>2, <2>3, <2>6, ZenonT(60) DEF AtOnce
    <3> QED
      BY <1>1, <3>1, <3>2, OneMoves DEF IInv, Distinct
  <2>9. Located(c) /\ Located(c)'
    BY <1>2, <2>1, <2>3, <2>6 DEF Located
  <2>10. Recorded'
    <3>1. \A b \in Attempts : inner[b] = "dialed" => b \notin {a, r}
      BY <1>1, <2>1
    <3> QED
      BY <1>1, <2>3, <3>1 DEF IInv, Recorded
  <2>11. Where'
    BY <1>1, <2>8, <2>9, WhereKept DEF IInv
  <2>12. Reasons' /\ Blamed'
    <3>1. \A b \in Attempts : inner[b] = "over" => inner'[b] = "over" /\ why'[b] = why[b]
      BY <1>1, <2>1, <2>3
    <3> QED
      BY <1>1, <3>1, ReasonsKept
  <2> QED
    BY <2>4, <2>5, <2>7, <2>8, <2>10, <2>11, <2>12 DEF IInv
<1> QED
  BY <1>4, <1>5 DEF PutsBack

-----------------------------------------------------------------------------
(* The caller that throws a connection away, and the opener *)

\* A connection that went bad gives its slot back.
LEMMA DiscardsStep ==
  ASSUME IInv, NEW c \in held, Discards(c)
  PROVE  IInv'
<1>1. /\ held' = held \ {c} /\ sock' = [sock EXCEPT ![c] = "closed"] /\ GiveSlotBack(requests)
      /\ UNCHANGED <<outer, inner, late, got, cur, why, tries, conns, abandoned, clock, blamed,
                     free, requests>>
  BY DEF Discards, attemptVars
<1>2. c \in Sockets /\ AtOnce(c) /\ Located(c)
  BY DEF IInv, TypeOK, Distinct, Located
<1>3. \A x \in Sockets : sock'[x] = IF x = c THEN "closed" ELSE sock[x]
  BY <1>1 DEF IInv, TypeOK
<1>4. Cardinality(held') = Cardinality(held) - 1 /\ Cardinality(held') \in Nat
  <2>1. IsFiniteSet(held) /\ IsFiniteSet(held')
    BY <1>1, Counting, FS_Subset DEF IInv
  <2> QED
    BY <1>1, <2>1, OneLess, FS_CardinalityType
<1>5. /\ Cardinality(held) \in Nat /\ Cardinality(free) \in Nat /\ Cardinality(Taking) \in Nat
      /\ opener.pending \in Nat /\ numOpen \in Nat /\ Promised(opener) \in Nat
      /\ numOpen = Cardinality(free) + Cardinality(held) + opener.pending
                   + Promised(opener) + Cardinality(Taking)
      /\ opener \in [busy : Sockets \cup {None}, pending : 0..MaxOpen, n : 0..MaxRefills]
  BY Counting DEF IInv, TypeOK, SlotsAddUp, Taking, Promised
<1>6. /\ numOpen' \in 0..MaxOpen /\ opener'.pending \in Nat
      /\ opener' = [busy |-> opener.busy, pending |-> opener'.pending, n |-> opener.n]
      /\ numOpen' - opener'.pending = numOpen - 1 - opener.pending
  <2>1. numOpen >= 1
    BY <1>4, <1>5
  <2> QED
    BY <1>1, <2>1, SlotBack
<1>7. opener'.busy = opener.busy /\ opener'.n = opener.n
  BY <1>6
<1>8. numOpen' = Cardinality(free) + Cardinality(held') + opener'.pending
                 + Promised(opener) + Cardinality(Taking)
  BY <1>4, <1>5, <1>6, ConnectingAssumption
<1>9. \A b \in Attempts : (TakesSlot(b)' <=> TakesSlot(b)) /\ (Holds(b)' <=> Holds(b))
  BY <1>1 DEF TakesSlot, Holds
<1>10. SlotsAddUp'
  <2>1. Taking' = Taking
    BY <1>9 DEF Taking
  <2> QED
    BY <1>1, <1>7, <1>8, <2>1 DEF SlotsAddUp, Taking, Promised
<1>11. TypeOK'
  <2>1. opener'.pending \in 0..MaxOpen
    BY <1>4, <1>5, <1>6, <1>8, ConnectingAssumption
  <2>2. opener' \in [busy : Sockets \cup {None}, pending : 0..MaxOpen, n : 0..MaxRefills]
    BY <1>5, <1>6, <2>1
  <2>3. sock' \in [Sockets -> {"none", "open", "closed"}]
    BY <1>1 DEF IInv, TypeOK
  <2> QED
    BY <1>1, <1>6, <2>2, <2>3 DEF IInv, TypeOK
<1>12. Places'
  <2>1. \A b \in Attempts : \A x \in conns[b] : x \in Sockets /\ By(x) = b /\ sock'[x] # "none"
    BY <1>3 DEF IInv, Places, Place, TypeOK
  <2>2. ASSUME NEW b \in Attempts PROVE Place(b)'
    BY <1>1, <2>1 DEF IInv, Places, Place
  <2> QED
    BY <2>2 DEF Places
<1>13. ~Located(c)' /\ AtOnce(c)'
  BY <1>1, <1>2, <1>7, <1>9 DEF AtOnce, Located
<1>14. Distinct' /\ \A x \in Sockets : x # c => (Located(x)' <=> Located(x))
  <2>1. Without(c)
    BY <1>1, <1>7, <1>9 DEF Without
  <2> QED
    BY <1>2, <1>7, <1>13, <2>1, OneMoves DEF IInv, Distinct
<1>15. Recorded'
  BY <1>1, <1>3 DEF IInv, Recorded
<1>16. Where'
  <2>1. sock[c] # "none"
    BY <1>2 DEF IInv, Where, Fresh
  <2>2. /\ \A x \in Sockets : Located(x)' => Located(x)
        /\ \A x \in Sockets : Located(x) /\ ~Located(x)' => sock'[x] # "open"
        /\ \A x \in Sockets :
             \/ sock'[x] = sock[x]
             \/ /\ sock[x] # "none" /\ sock'[x] = "closed"
                /\ Located(x)' => By(x) \notin Attempts \/ abandoned'[By(x)]
    BY <1>2, <1>3, <1>13, <1>14, <2>1
  <2> QED
    BY <1>1, <1>7, <2>2, WhereKept DEF IInv
<1>17. Reasons' /\ Blamed'
  BY <1>1 DEF IInv, Reasons, Ended, TimedOut, Blamed
<1> QED
  BY <1>10, <1>11, <1>12, <1>14, <1>15, <1>16, <1>17 DEF IInv

\* The opener dials under its own numbers.
LEMMA RefillsStep ==
  ASSUME IInv, Refills
  PROVE  IInv'
<1> SUFFICES ASSUME NEW k, k = opener.n + 1, NEW c, c = <<Opener, k>>
             PROVE  IInv'
  OBVIOUS
<1>1. /\ opener.busy = None /\ opener.pending > 0 /\ opener.n < MaxRefills
      /\ opener' = [busy |-> c, pending |-> opener.pending - 1, n |-> k]
      /\ sock' = [sock EXCEPT ![c] = "open"]
      /\ UNCHANGED <<outer, inner, late, got, cur, why, tries, conns, abandoned, clock, blamed,
                     numOpen, free, requests, held>>
  BY DEF Refills, attemptVars
<1>2. opener \in [busy : Sockets \cup {None}, pending : 0..MaxOpen, n : 0..MaxRefills]
  BY DEF IInv, TypeOK
<1>3. k \in 1..MaxRefills /\ opener.n \in Nat
  BY <1>1, <1>2, ConnectingAssumption
<1>4. c \in Sockets /\ By(c) = Opener /\ c[2] = k /\ c # None /\ Opener \notin Attempts
  BY <1>3, SocketFacts
<1>5. opener'.busy = c /\ opener'.n = k /\ opener'.pending = opener.pending - 1
  BY <1>1
<1>6. sock[c] = "none" /\ ~Located(c)
  BY <1>3, <1>4 DEF IInv, Where, Fresh
<1>7. sock'[c] = "open" /\ \A x \in Sockets : x # c => sock'[x] = sock[x]
  BY <1>1, <1>4 DEF IInv, TypeOK
<1>8. TypeOK'
  <2>1. opener' \in [busy : Sockets \cup {None}, pending : 0..MaxOpen, n : 0..MaxRefills]
    BY <1>1, <1>2, <1>3, <1>4, ConnectingAssumption
  <2>2. sock' \in [Sockets -> {"none", "open", "closed"}]
    BY <1>1 DEF IInv, TypeOK
  <2> QED
    BY <1>1, <2>1, <2>2 DEF IInv, TypeOK
<1>9. Places'
  <2>1. \A b \in Attempts : \A x \in conns[b] : x \in Sockets /\ By(x) = b /\ sock'[x] # "none"
    BY <1>7 DEF IInv, Places, Place, TypeOK
  <2>2. ASSUME NEW b \in Attempts PROVE Place(b)'
    BY <1>1, <2>1 DEF IInv, Places, Place
  <2> QED
    BY <2>2 DEF Places
<1>10. \A b \in Attempts : (TakesSlot(b)' <=> TakesSlot(b)) /\ (Holds(b)' <=> Holds(b))
  BY <1>1 DEF TakesSlot, Holds
<1>11. SlotsAddUp'
  <2>1. Taking' = Taking
    BY <1>10 DEF Taking
  <2>2. /\ Cardinality(held) \in Nat /\ Cardinality(free) \in Nat /\ Cardinality(Taking) \in Nat
        /\ opener.pending \in Nat /\ numOpen \in Nat
        /\ numOpen = Cardinality(free) + Cardinality(held) + opener.pending
                     + Promised(opener) + Cardinality(Taking)
    BY Counting DEF IInv, TypeOK, SlotsAddUp, Taking, Promised
  <2>3. Promised(opener) = 0 /\ Promised(opener') = 1
    BY <1>1, <1>4, <1>5 DEF Promised
  <2>4. numOpen' = Cardinality(free') + Cardinality(held') + opener'.pending
                   + Promised(opener') + Cardinality(Taking')
    BY <1>1, <1>5, <2>1, <2>2, <2>3
  <2> QED
    BY <2>4 DEF SlotsAddUp, Taking, Promised
<1>12. Distinct' /\ \A x \in Sockets : x # c => (Located(x)' <=> Located(x))
  <2>1. Without(c)
    <3>1. \A x \in Sockets : x # c => (opener'.busy = x <=> opener.busy = x)
      BY <1>1, <1>5, SocketFacts
    <3> QED
      BY <1>1, <1>10, <3>1 DEF Without
  <2>2. AtOnce(c)'
    BY <1>1, <1>6, <1>10 DEF AtOnce, Located
  <2> QED
    BY <1>4, <1>5, <2>1, <2>2, OneMoves DEF IInv
<1>13. Located(c)'
  BY <1>5 DEF Located
<1>14. Recorded'
  BY <1>1, <1>4, <1>7 DEF IInv, Recorded
<1>15. Where'
  <2>1. \A x \in Sockets : Located(x)' => sock'[x] # "none"
    BY <1>7, <1>12 DEF IInv, Where, Fresh
  <2>2. \A x \in Sockets : By(x) \in Attempts /\ x[2] > tries'[By(x)] => sock'[x] = "none"
    BY <1>1, <1>4, <1>7 DEF IInv, Where, Fresh
  <2>3. \A x \in Sockets : By(x) = Opener /\ x[2] > opener'.n => sock'[x] = "none"
    <3> SUFFICES ASSUME NEW x \in Sockets, By(x) = Opener, x[2] > opener'.n
                 PROVE  sock'[x] = "none"
      OBVIOUS
    <3>1. x # c /\ x[2] \in Nat
      BY <1>3, <1>4, <1>5, SocketFacts
    <3>2. x[2] > opener.n
      BY <1>3, <1>5, <3>1
    <3> QED
      BY <1>7, <3>1, <3>2 DEF IInv, Where, Fresh
  <2>4. Known'
    BY <1>7, <1>12, <1>13 DEF IInv, Where, Known
  <2>5. Alive'
    BY <1>1, <1>4, <1>7, <1>12 DEF IInv, Where, Alive
  <2> QED
    BY <2>1, <2>2, <2>3, <2>4, <2>5 DEF Where, Fresh
<1>16. Reasons' /\ Blamed'
  BY <1>1 DEF IInv, Reasons, Ended, TimedOut, Blamed
<1> QED
  BY <1>8, <1>9, <1>11, <1>12, <1>14, <1>15, <1>16 DEF IInv

\* The opener's connection fails, and a request is told.
LEMMA RefillFailsStep ==
  ASSUME IInv, RefillFails
  PROVE  IInv'
<1> SUFFICES ASSUME NEW c \in Sockets, c = opener.busy
             PROVE  IInv'
  BY DEF RefillFails, IInv, TypeOK
<1>1. /\ sock' = [sock EXCEPT ![c] = "closed"]
      /\ UNCHANGED <<outer, late, got, cur, tries, conns, abandoned, clock, blamed, free, held>>
  BY DEF RefillFails
<1>2. c # None /\ By(c) = Opener /\ Opener \notin Attempts /\ AtOnce(c) /\ Located(c)
  BY SocketFacts DEF IInv, Distinct, Located
<1>3. sock[c] # "none" /\ \A x \in Sockets : sock'[x] = IF x = c THEN "closed" ELSE sock[x]
  BY <1>1, <1>2 DEF IInv, TypeOK, Where, Fresh
<1>4. /\ Cardinality(held) \in Nat /\ Cardinality(free) \in Nat /\ Cardinality(Taking) \in Nat
      /\ opener.pending \in Nat /\ numOpen \in 0..MaxOpen /\ Promised(opener) = 1
      /\ numOpen = Cardinality(free) + Cardinality(held) + opener.pending
                   + Promised(opener) + Cardinality(Taking)
      /\ opener \in [busy : Sockets \cup {None}, pending : 0..MaxOpen, n : 0..MaxRefills]
  BY <1>2, Counting DEF IInv, TypeOK, SlotsAddUp, Taking, Promised
\* Who is told, if anybody, had waited; so many slots are promised anew.
<1>5. ASSUME NEW n \in Nat, NEW told \in SUBSET requests,
             numOpen' = numOpen - 1 + n, numOpen - 1 + n <= MaxOpen,
             opener' = [busy |-> None, pending |-> opener.pending + n, n |-> opener.n],
             requests' = requests \ told,
             inner' = [b \in Attempts |-> IF b \in told THEN "answer" ELSE inner[b]],
             why' \in [Attempts -> {"deadline", "timeout", "other", "abandoned"}],
             \A b \in Attempts : IF b \in told THEN why'[b] \in NetErrors ELSE why'[b] = why[b]
      PROVE  IInv'
  <2>1. \A b \in told : b \in Attempts /\ Place(b) /\ inner[b] = "queued" /\ cur[b] = None
    BY DEF IInv, TypeOK, Places, Place, Empty
  <2>2. opener'.busy = None /\ opener'.pending = opener.pending + n /\ opener'.n = opener.n
    BY <1>5
  <2>3. \A b \in Attempts :
          /\ TakesSlot(b)' <=> TakesSlot(b)
          /\ Holds(b)' <=> Holds(b)
          /\ inner'[b] = "dialed" <=> inner[b] = "dialed"
    BY <1>1, <1>5, <2>1 DEF TakesSlot, Holds, Loaded
  <2>4. numOpen' = Cardinality(free) + Cardinality(held) + opener'.pending + Cardinality(Taking)
    BY <1>4, <1>5, <2>2, ConnectingAssumption
  <2>5. SlotsAddUp'
    <3>1. Taking' = Taking /\ Promised(opener') = 0
      BY <2>2, <2>3 DEF Taking, Promised
    <3>2. numOpen' = Cardinality(free') + Cardinality(held') + opener'.pending
                     + Promised(opener') + Cardinality(Taking')
      BY <1>1, <1>4, <1>5, <2>2, <2>4, <3>1
    <3> QED
      BY <3>2 DEF SlotsAddUp, Taking, Promised
  <2>6. TypeOK'
    <3>1. opener'.pending \in 0..MaxOpen
      BY <1>4, <1>5, <2>2, <2>4, ConnectingAssumption
    <3>2. opener' \in [busy : Sockets \cup {None}, pending : 0..MaxOpen, n : 0..MaxRefills]
      BY <1>4, <1>5, <2>2, <3>1
    <3>3. sock' \in [Sockets -> {"none", "open", "closed"}]
      BY <1>1 DEF IInv, TypeOK
    <3>4. inner' \in [Attempts -> Inners]
      BY <1>5 DEF IInv, TypeOK, Inners
    <3>5. numOpen' \in 0..MaxOpen
      BY <1>4, <1>5, ConnectingAssumption
    <3> QED
      BY <1>1, <1>5, <3>2, <3>3, <3>4, <3>5 DEF IInv, TypeOK
  <2>7. Places'
    <3>1. \A b \in Attempts : \A x \in conns[b] : x \in Sockets /\ By(x) = b /\ sock'[x] # "none"
      BY <1>3 DEF IInv, Places, Place, TypeOK
    <3>2. ASSUME NEW b \in Attempts, b \notin told PROVE Place(b)'
      <4>1. Place(b) /\ inner'[b] = inner[b] /\ (b \in requests' => b \in requests)
        BY <1>5, <3>2 DEF IInv, Places
      <4> QED
        BY <1>1, <3>1, <4>1 DEF Place
    <3>3. ASSUME NEW b \in told PROVE Place(b)'
      <4>1. inner'[b] = "answer" /\ b \notin requests' /\ b \in Attempts
        BY <1>5, <2>1, <3>3
      <4> QED
        BY <1>1, <2>1, <3>1, <3>3, <4>1 DEF Place, Empty, Loaded
    <3> QED
      BY <3>2, <3>3 DEF Places
  <2>8. ~Located(c)' /\ AtOnce(c)'
    <3>1. c \notin held' \cup free' /\ c # opener'.busy /\ \A b \in Attempts : ~(Holds(b)' /\ cur'[b] = c)
      BY <1>1, <1>2, <2>2, <2>3 DEF AtOnce
    <3> QED
      BY <3>1 DEF AtOnce, Located
  <2>9. Distinct' /\ \A x \in Sockets : x # c => (Located(x)' <=> Located(x))
    <3>1. \A x \in Sockets : x # c => (opener'.busy = x <=> opener.busy = x)
      BY <2>2, SocketFacts
    <3>2. Without(c)
      BY <1>1, <2>3, <3>1 DEF Without
    <3> QED
      BY <2>2, <2>8, <3>2, OneMoves DEF IInv
  <2>10. Recorded'
    BY <1>1, <1>3, <2>3 DEF IInv, Recorded
  <2>11. Where'
    <3>1. /\ \A x \in Sockets : Located(x)' => Located(x)
          /\ \A x \in Sockets : Located(x) /\ ~Located(x)' => sock'[x] # "open"
          /\ \A x \in Sockets :
               \/ sock'[x] = sock[x]
               \/ /\ sock[x] # "none" /\ sock'[x] = "closed"
                  /\ Located(x)' => By(x) \notin Attempts \/ abandoned'[By(x)]
      BY <1>2, <1>3, <2>8, <2>9
    <3> QED
      BY <1>1, <2>2, <3>1, WhereKept DEF IInv
  <2>12. Reasons' /\ Blamed'
    <3>1. \A b \in Attempts : inner[b] = "over" => inner'[b] = "over" /\ why'[b] = why[b]
      BY <1>5, <2>1
    <3>2. \A b \in Attempts : why'[b] = "deadline" => why[b] = "deadline"
      BY <1>5 DEF NetErrors
    <3> QED
      BY <1>1, <3>1, <3>2, ReasonsKept
  <2> QED
    BY <2>5, <2>6, <2>7, <2>9, <2>10, <2>11, <2>12 DEF IInv
<1>6. /\ inner = [b \in Attempts |-> inner[b]]
      /\ why \in [Attempts -> {"deadline", "timeout", "other", "abandoned"}]
  BY DEF IInv, TypeOK
<1>7. numOpen \in Nat /\ numOpen - 1 \in 0..MaxOpen
  BY <1>4, ConnectingAssumption
<1>8. CASE /\ requests = {} /\ numOpen' = numOpen - 1
           /\ opener' = [opener EXCEPT !.busy = None]
           /\ UNCHANGED <<inner, why, requests>>
  <2>1. opener' = [busy |-> None, pending |-> opener.pending + 0, n |-> opener.n]
    BY <1>4, <1>8
  <2>2. /\ inner' = [b \in Attempts |-> IF b \in {} THEN "answer" ELSE inner[b]]
        /\ why' \in [Attempts -> {"deadline", "timeout", "other", "abandoned"}]
        /\ \A b \in Attempts : IF b \in {} THEN why'[b] \in NetErrors ELSE why'[b] = why[b]
    BY <1>6, <1>8
  <2>3. numOpen' = numOpen - 1 + 0 /\ numOpen - 1 + 0 <= MaxOpen /\ requests' = requests \ {}
    BY <1>7, <1>8, ConnectingAssumption
  <2>4. {} \in SUBSET requests /\ 0 \in Nat
    OBVIOUS
  <2> QED
    BY <1>5, <2>1, <2>2, <2>3, <2>4
<1>9. ASSUME NEW r \in requests, NEW kind \in NetErrors,
             requests' = requests \ {r}, inner' = [inner EXCEPT ![r] = "answer"],
             why' = [why EXCEPT ![r] = kind],
             NEW n, n = Wanted(numOpen - 1, requests \ {r}),
             numOpen' = numOpen - 1 + n,
             opener' = [opener EXCEPT !.busy = None, !.pending = @ + n]
      PROVE  IInv'
  <2>1. Cardinality(requests \ {r}) \in Nat
    BY Counting, FS_Subset, FS_CardinalityType DEF IInv
  <2>2. n \in Nat /\ numOpen - 1 + n <= MaxOpen
    BY <1>7, <1>9, <2>1, WantedType
  <2>3. opener' = [busy |-> None, pending |-> opener.pending + n, n |-> opener.n]
    BY <1>4, <1>9
  <2>4. /\ inner' = [b \in Attempts |-> IF b \in {r} THEN "answer" ELSE inner[b]]
        /\ why' \in [Attempts -> {"deadline", "timeout", "other", "abandoned"}]
        /\ \A b \in Attempts : IF b \in {r} THEN why'[b] \in NetErrors ELSE why'[b] = why[b]
    BY <1>6, <1>9 DEF NetErrors
  <2>5. {r} \in SUBSET requests
    OBVIOUS
  <2> QED
    BY <1>5, <1>9, <2>2, <2>3, <2>4, <2>5
<1>10. ASSUME NEW r \in requests,
              LET asking == requests \ {r}
                  n == Wanted(numOpen - 1, asking)
              IN /\ requests' = asking
                 /\ inner' = [inner EXCEPT ![r] = "answer"]
                 /\ \E kind \in NetErrors : why' = [why EXCEPT ![r] = kind]
                 /\ numOpen' = numOpen - 1 + n
                 /\ opener' = [opener EXCEPT !.busy = None, !.pending = @ + n]
       PROVE  IInv'
  <2>1. PICK kind \in NetErrors : why' = [why EXCEPT ![r] = kind]
    BY <1>10, Zenon
  <2> QED
    BY <1>9, <1>10, <2>1
<1> QED
  BY <1>8, <1>10, Zenon DEF RefillFails

-----------------------------------------------------------------------------
(* The invariant holds *)

\* The inductive invariant holds initially.
LEMMA InitIInv == ASSUME Init PROVE IInv
<1>1. TypeOK
  <2>1. 0 \in 0..MaxOpen /\ 0 \in 0..MaxRefills /\ 0 \in 0..MaxTries
    BY ConnectingAssumption
  <2>2. clock \in [Attempts -> [passed : BOOLEAN, fired : BOOLEAN, spent : BOOLEAN]]
    BY DEF Init, NoClock
  <2>3. opener \in [busy : Sockets \cup {None}, pending : 0..MaxOpen, n : 0..MaxRefills]
    BY <2>1 DEF Init
  <2> QED
    BY <2>1, <2>2, <2>3 DEF Init, TypeOK, Outers, Inners
<1>2. /\ \A a \in Attempts : ~TakesSlot(a) /\ ~Holds(a)
      /\ \A c \in Sockets : ~Located(c) /\ sock[c] = "none"
  <2>1. \A a \in Attempts : ~TakesSlot(a) /\ ~Holds(a)
    BY DEF Init, TakesSlot, Holds, Loaded
  <2> QED
    BY <2>1, SocketFacts DEF Init, Located
<1>3. SlotsAddUp
  <2>1. {a \in Attempts : TakesSlot(a)} = {}
    BY <1>2
  <2>2. Cardinality({}) = 0
    BY FS_EmptySet
  <2> QED
    BY <2>1, <2>2, SMTT(30) DEF Init, SlotsAddUp
<1>4. Places
  BY ConnectingAssumption DEF Init, Places, Place, Empty, Loaded
<1>5. Distinct
  BY <1>2, SocketFacts DEF Init, Distinct, AtOnce
<1>6. Recorded /\ Where
  BY <1>2 DEF Recorded, Where, Fresh, Known, Alive
<1>7. Reasons /\ Blamed
  BY DEF Init, Reasons, Blamed
<1> QED
  BY <1>1, <1>3, <1>4, <1>5, <1>6, <1>7 DEF IInv

\* A step that changes nothing keeps IInv.
LEMMA Stuttering == ASSUME IInv, UNCHANGED vars PROVE IInv'
<1>1. UNCHANGED <<outer, inner, late, got, cur, why, tries, conns, abandoned, clock, blamed,
                  sock, numOpen, free, requests, opener, held>>
  BY DEF vars, attemptVars, poolVars
<1>2. \A a \in Attempts : (TakesSlot(a)' <=> TakesSlot(a)) /\ (Holds(a)' <=> Holds(a))
                          /\ (Place(a)' <=> Place(a))
  BY <1>1 DEF TakesSlot, Holds, Place
<1>3. TypeOK' /\ Places'
  BY <1>1, <1>2 DEF IInv, TypeOK, Places
<1>4. SlotsAddUp' /\ Distinct' /\ Recorded' /\ Where'
  BY <1>1, <1>2, Quiet
<1>5. Reasons' /\ Blamed'
  BY <1>1 DEF IInv, Reasons, Ended, TimedOut, Blamed
<1> QED
  BY <1>3, <1>4, <1>5 DEF IInv

\* Every step of the system keeps IInv.
LEMMA Inductive == ASSUME IInv, [Next]_vars PROVE IInv'
<1>1. ASSUME NEW a \in Attempts, Start(a) \/ ClosesLate(a) \/ LogsIn(a) \/ LoginFails(a)
      PROVE  IInv'
  BY <1>1, StartStep, ClosesLateStep, WaitSteps, LoginFailsStep
<1>2. ASSUME NEW a \in Attempts, InnerSteps(a) PROVE IInv'
  BY <1>2, AsksStep, WaitSteps, PutsBackStep, LooksUpStep, DialsStep, AddsStep,
     ReadReturnsStep, AnswersStep DEF InnerSteps
<1>3. ASSUME NEW a \in Attempts, OuterSteps(a) PROVE IInv'
  BY <1>3, ReceivesStep, GivesUpStep, JudgesStep DEF OuterSteps
<1>4. ASSUME NEW a \in Attempts, DeadlinePasses(a) \/ CallerEnds(a) \/ BudgetEnds(a)
      PROVE  IInv'
  BY <1>4, ClockStep
<1>5. ASSUME NEW c \in held, Returns(c) \/ Discards(c) PROVE IInv'
  BY <1>5, ReturnsStep, DiscardsStep
<1>6. CASE Refills \/ RefillLogsIn \/ RefillFails
  BY <1>6, RefillsStep, RefillLogsInStep, RefillFailsStep
<1>7. CASE UNCHANGED vars
  BY <1>7, Stuttering
<1> QED
  BY <1>1, <1>2, <1>3, <1>4, <1>5, <1>6, <1>7 DEF Next

\* IInv holds of every behaviour of the connection attempts.
THEOREM Invariance == Spec => []IInv
<1>1. Init => IInv
  BY InitIInv
<1>2. IInv /\ [Next]_vars => IInv'
  BY Inductive
<1> QED
  BY <1>1, <1>2, PTL DEF Spec

\* Whoever gives up and whenever, and whatever the server, the resolver and the pool's
\* opener do: an abandoned attempt keeps no socket (dial.go: add, abandon), no socket is
\* open that nobody would close, and every slot of the pool is accounted for, so no later
\* attempt can starve on one that was lost (watch.go: connWithin).
THEOREM NothingLeaks == Spec => []NothingIsLeft
<1>1. IInv => NothingIsLeft
  <2> SUFFICES ASSUME IInv PROVE NothingIsLeft
    OBVIOUS
  <2>1. AbandonedHoldsNothing
    <3> SUFFICES ASSUME NEW c \in Sockets, By(c) \in Attempts, abandoned[By(c)], sock[c] = "open"
                 PROVE  inner[By(c)] = "dialed" /\ cur[By(c)] = c
      BY DEF AbandonedHoldsNothing
    <3>1. conns[By(c)] = {}
      BY DEF IInv, Places, Place
    <3> QED
      BY <3>1 DEF IInv, Recorded
  <2>2. OpenSocketsAreKnown
    BY KnownIsProperty DEF IInv, Where
  <2> QED
    BY <2>1, <2>2 DEF IInv, NothingIsLeft
<1> QED
  BY <1>1, Invariance, PTL

\* A connection that connWithin returned is not closed under its caller by the context
\* that ends as it answers (watch.go:640-649), and a login timeout is said only when the
\* attempt's own budget has passed or its dial or its lookup timed out, never of the
\* caller's deadline or its stop (runner.go: Connect, settled).
THEOREM AnswersAreTrue == Spec => []AnswerIsTrue
<1>1. IInv => AnswerIsTrue
  <2> SUFFICES ASSUME IInv PROVE AnswerIsTrue
    OBVIOUS
  <2>1. ItsOwnIsAlive
    <3> SUFFICES ASSUME NEW a \in Attempts, NEW c \in held, By(c) = a, outer[a] = "returned"
                 PROVE  sock[c] = "open"
      BY DEF ItsOwnIsAlive
    <3>1. ~abandoned[a] /\ c \in Sockets /\ Located(c)
      BY DEF IInv, Places, Place, TypeOK, Located
    <3> QED
      BY <3>1 DEF IInv, Where, Alive
  <2>2. BlameIsRight
    BY DEF IInv, Blamed, TimedOut, BlameIsRight
  <2> QED
    BY <2>1, <2>2 DEF AnswerIsTrue
<1> QED
  BY <1>1, Invariance, PTL

=============================================================================
