----------------------------- MODULE Connecting -----------------------------
(***************************************************************************)
(* Attempts to take a connection (watch.go: connWithin; dial.go;           *)
(* runner.go: Open, Connect).  The driver's login reads with no deadline   *)
(* and no context, so the attempt runs on a goroutine of its own; a caller *)
(* that has waited long enough closes the sockets the attempt recorded,    *)
(* which makes the read return, and leaves another goroutine to close what *)
(* answers late.                                                           *)
(*                                                                         *)
(* One caller makes its attempts one after the other on one pool; the      *)
(* goroutines of those it abandoned overlap with the next.  The pool is    *)
(* database/sql's, modelled from how this code relies on it: slots, idle   *)
(* connections, waiting requests, and the opener that dials for them.      *)
(***************************************************************************)
EXTENDS Naturals, FiniteSets

CONSTANTS
  MaxOpen,     \* SetMaxOpenConns: 1 for the collection, 2 for the watch
  MaxAttempts, \* bound: how many attempts the caller makes
  MaxTries,    \* how often database/sql tries a bad connection
  MaxRefills,  \* bound: how many connections the opener dials
  None         \* no socket

ASSUME ConnectingAssumption ==
  /\ MaxOpen \in Nat \ {0} /\ MaxAttempts \in Nat /\ MaxTries \in Nat \ {0} /\ MaxRefills \in Nat
  /\ None \notin Nat \X Nat

Attempts == 1..MaxAttempts
Opener   == 0                        \* who dials a refill
Sockets  == (Attempts \X (1..MaxTries)) \cup ({Opener} \X (1..MaxRefills))

VARIABLES
  outer,     \* the caller, in each attempt
  inner,     \* the goroutine that asks the pool, in each attempt
  late,      \* the goroutine that waits for a late answer
  got,       \* the channel of one place: empty, error or a socket
  cur,       \* the socket the inner goroutine works on
  why,       \* the kind of error it is about to answer
  tries,     \* how many sockets it dialed
  conns,     \* attempt.conns
  abandoned, \* attempt.abandoned
  clock,     \* which of the attempt's two deadlines have passed
  sock,      \* the sockets
  numOpen, free, requests, \* the pool
  opener,    \* the goroutine of the pool that dials for waiting requests
  held,      \* the connections the caller holds
  blamed     \* history: the attempts that Connect called a login timeout

attemptVars == <<outer, inner, late, got, cur, why, tries, conns, abandoned, clock, blamed>>
poolVars    == <<numOpen, free, requests, opener>>
vars == <<attemptVars, sock, poolVars, held>>

---------------------------------------------------------------------------
(* The contexts of an attempt *)

\* The caller's own deadline passes on the clock before its timer cancels the
\* context; the budget is twice ConnectTimeout.
NoClock == [passed |-> FALSE, fired |-> FALSE, spent |-> FALSE]

Dead(a)    == clock[a].fired \/ clock[a].spent
Waiting(a) == outer[a] = "waiting"

DeadlinePasses(a) ==
  /\ Waiting(a) \/ outer[a] = "judging"
  /\ ~clock[a].passed
  /\ clock' = [clock EXCEPT ![a].passed = TRUE]
  /\ UNCHANGED <<outer, inner, late, got, cur, why, tries, conns, abandoned, blamed, sock, poolVars, held>>

\* Also a stop of the run, which cancels without a deadline.
CallerEnds(a) ==
  /\ Waiting(a) \/ outer[a] = "judging"
  /\ ~clock[a].fired
  /\ clock' = [clock EXCEPT ![a].fired = TRUE]
  /\ UNCHANGED <<outer, inner, late, got, cur, why, tries, conns, abandoned, blamed, sock, poolVars, held>>

BudgetEnds(a) ==
  /\ Waiting(a) /\ ~clock[a].spent
  /\ clock' = [clock EXCEPT ![a].spent = TRUE]
  /\ UNCHANGED <<outer, inner, late, got, cur, why, tries, conns, abandoned, blamed, sock, poolVars, held>>

---------------------------------------------------------------------------
(* The pool *)

\* Requests that a freed slot could serve are handed to the opener.
Wanted(open, asking) == IF open < MaxOpen /\ Cardinality(asking) > MaxOpen - open
                        THEN MaxOpen - open
                        ELSE IF open < MaxOpen THEN Cardinality(asking) ELSE 0

\* A slot comes back: maybeOpenNewConnections takes it for who waits.
GiveSlotBack(asking) ==
  LET n == Wanted(numOpen - 1, asking)
  IN /\ numOpen' = numOpen - 1 + n
     /\ opener' = [opener EXCEPT !.pending = @ + n]

\* A connection comes back: to a request if there is one, idle otherwise.  The
\* pool asks the driver whether it is good, and the driver knows only what a
\* read or a write told it.
PutConn(c, asking) ==
  \/ /\ asking = {}
     /\ free' = free \cup {c}
     /\ requests' = asking
     /\ UNCHANGED <<inner, cur>>
  \/ \E r \in asking :
       /\ requests' = asking \ {r}
       /\ inner' = [inner EXCEPT ![r] = "handed"]
       /\ cur' = [cur EXCEPT ![r] = c]
       /\ UNCHANGED free

---------------------------------------------------------------------------
(* The goroutine of an attempt: db.Conn *)

Start(a) ==
  /\ outer[a] = "idle"
  /\ \A b \in Attempts : b < a => outer[b] \notin {"idle", "waiting", "judging"}
  /\ Cardinality(held) < MaxOpen
  /\ outer' = [outer EXCEPT ![a] = "waiting"]
  /\ inner' = [inner EXCEPT ![a] = "asking"]
  /\ UNCHANGED <<late, got, cur, why, tries, conns, abandoned, clock, blamed, sock, poolVars, held>>

\* Mutant: one connection more than the pool was given.
Full_oneMore == numOpen > MaxOpen

Full == numOpen >= MaxOpen

\* The last try asks for a new connection, whatever is idle.
Idles(a) == IF tries[a] + 1 < MaxTries THEN free ELSE {}

Asks(a) ==
  /\ inner[a] = "asking"
  /\ \/ /\ Dead(a)
        /\ inner' = [inner EXCEPT ![a] = "answer"]
        /\ why' = [why EXCEPT ![a] = "deadline"]
        /\ UNCHANGED <<cur, numOpen, free, requests>>
     \/ /\ ~Dead(a)
        /\ \E c \in Idles(a) :
             /\ free' = free \ {c}
             /\ cur' = [cur EXCEPT ![a] = c]
             /\ inner' = [inner EXCEPT ![a] = "answer"]
        /\ UNCHANGED <<why, numOpen, requests>>
     \/ /\ ~Dead(a) /\ Idles(a) = {} /\ Full
        /\ requests' = requests \cup {a}
        /\ inner' = [inner EXCEPT ![a] = "queued"]
        /\ UNCHANGED <<why, cur, numOpen, free>>
     \/ /\ ~Dead(a) /\ Idles(a) = {} /\ ~Full
        /\ numOpen' = numOpen + 1
        /\ inner' = [inner EXCEPT ![a] = "lookup"]
        /\ UNCHANGED <<why, cur, free, requests>>
  /\ UNCHANGED <<outer, late, got, tries, conns, abandoned, clock, blamed, sock, opener, held>>

LeavesQueue(a) ==
  /\ inner[a] = "queued" /\ Dead(a)
  /\ requests' = requests \ {a}
  /\ inner' = [inner EXCEPT ![a] = "answer"]
  /\ why' = [why EXCEPT ![a] = "deadline"]
  /\ UNCHANGED <<outer, late, got, cur, tries, conns, abandoned, clock, blamed, sock, numOpen, free, opener, held>>

\* Both the context and the connection may be ready: either is taken, and the
\* connection that is not goes back.
TakesHanded(a) ==
  /\ inner[a] = "handed"
  /\ inner' = [inner EXCEPT ![a] = "answer"]
  /\ UNCHANGED <<outer, late, got, cur, why, tries, conns, abandoned, clock, blamed, sock, poolVars, held>>

LeavesHanded(a) ==
  /\ inner[a] = "handed" /\ Dead(a)
  /\ inner' = [inner EXCEPT ![a] = "returning"]
  /\ why' = [why EXCEPT ![a] = "deadline"]
  /\ UNCHANGED <<outer, late, got, cur, tries, conns, abandoned, clock, blamed, sock, poolVars, held>>

PutsBack(a) ==
  /\ inner[a] = "returning"
  /\ \/ /\ requests = {}
        /\ free' = free \cup {cur[a]}
        /\ inner' = [inner EXCEPT ![a] = "answer"]
        /\ cur' = [cur EXCEPT ![a] = None]
        /\ UNCHANGED requests
     \/ \E r \in requests :
          /\ requests' = requests \ {r}
          /\ inner' = [inner EXCEPT ![r] = "handed", ![a] = "answer"]
          /\ cur' = [cur EXCEPT ![r] = cur[a], ![a] = None]
          /\ UNCHANGED free
  /\ UNCHANGED <<outer, late, got, why, tries, conns, abandoned, clock, blamed, sock, numOpen, opener, held>>

\* The connector failed: the slot is given back, and a bad connection is tried
\* again from the start.
ConnectorFails(a, kind) ==
  /\ GiveSlotBack(requests)
  /\ cur' = [cur EXCEPT ![a] = None]
  /\ \/ /\ kind = "bad" /\ tries[a] < MaxTries
        /\ inner' = [inner EXCEPT ![a] = "asking"]
        /\ UNCHANGED why
     \/ /\ kind # "bad" \/ tries[a] = MaxTries
        /\ inner' = [inner EXCEPT ![a] = "answer"]
        /\ why' = [why EXCEPT ![a] = IF kind = "bad" THEN "other" ELSE kind]

\* How a lookup or a dial fails.  The driver bounds a dial by ConnectTimeout, and
\* the i/o timeout it then answers satisfies errors.Is(DeadlineExceeded).
NetErrors == {"other", "timeout"}

\* The name lookup takes no context: it lasts as long as the resolver does.
LooksUp(a) ==
  /\ inner[a] = "lookup"
  /\ \/ /\ inner' = [inner EXCEPT ![a] = "dialing"]
        /\ UNCHANGED <<cur, why, numOpen, opener>>
     \/ \E kind \in NetErrors : ConnectorFails(a, kind)
  /\ UNCHANGED <<outer, late, got, tries, conns, abandoned, clock, blamed, sock, free, requests, held>>

\* net.Dialer watches the context, and reads its deadline before the timer has
\* cancelled it.
DialErrors(a) == NetErrors \cup (IF Dead(a) \/ clock[a].passed THEN {"deadline"} ELSE {})

\* attemptDialer.DialContext.
Dials(a) ==
  /\ inner[a] = "dialing"
  /\ \/ /\ tries' = [tries EXCEPT ![a] = @ + 1]
        /\ cur' = [cur EXCEPT ![a] = <<a, tries[a] + 1>>]
        /\ sock' = [sock EXCEPT ![<<a, tries[a] + 1>>] = "open"]
        /\ inner' = [inner EXCEPT ![a] = "dialed"]
        /\ UNCHANGED <<why, numOpen, opener>>
     \/ /\ \E kind \in DialErrors(a) : ConnectorFails(a, kind)
        /\ UNCHANGED <<tries, sock>>
  /\ UNCHANGED <<outer, late, got, conns, abandoned, clock, blamed, free, requests, held>>

\* Mutant: add records a socket that nobody is left to close.
Adds_always(a) ==
  /\ inner[a] = "dialed"
  /\ conns' = [conns EXCEPT ![a] = @ \cup {cur[a]}]
  /\ inner' = [inner EXCEPT ![a] = "login"]
  /\ UNCHANGED <<cur, why, numOpen, opener, sock>>
  /\ UNCHANGED <<outer, late, got, tries, abandoned, clock, blamed, free, requests, held>>

\* Mutant: the refused socket is not closed.
Adds_leftOpen(a) ==
  /\ inner[a] = "dialed"
  /\ \/ /\ ~abandoned[a]
        /\ conns' = [conns EXCEPT ![a] = @ \cup {cur[a]}]
        /\ inner' = [inner EXCEPT ![a] = "login"]
        /\ UNCHANGED <<cur, why, numOpen, opener>>
     \/ /\ abandoned[a]
        /\ ConnectorFails(a, "abandoned")
        /\ UNCHANGED conns
  /\ UNCHANGED sock
  /\ UNCHANGED <<outer, late, got, tries, abandoned, clock, blamed, free, requests, held>>

\* attempt.add, under the attempt's mutex; a refusal is not retried.
Adds(a) ==
  /\ inner[a] = "dialed"
  /\ \/ /\ ~abandoned[a]
        /\ conns' = [conns EXCEPT ![a] = @ \cup {cur[a]}]
        /\ inner' = [inner EXCEPT ![a] = "login"]
        /\ UNCHANGED <<cur, why, numOpen, opener, sock>>
     \/ /\ abandoned[a]
        /\ sock' = [sock EXCEPT ![cur[a]] = "closed"]
        /\ ConnectorFails(a, "abandoned")
        /\ UNCHANGED conns
  /\ UNCHANGED <<outer, late, got, tries, abandoned, clock, blamed, free, requests, held>>

\* The server answers the login, or does not: a mute one never does.
LogsIn(a) ==
  /\ inner[a] = "login" /\ sock[cur[a]] = "open"
  /\ inner' = [inner EXCEPT ![a] = "answer"]
  /\ UNCHANGED <<outer, late, got, cur, why, tries, conns, abandoned, clock, blamed, sock, poolVars, held>>

LoginFails(a) ==
  /\ inner[a] = "login" /\ sock[cur[a]] = "open"
  /\ sock' = [sock EXCEPT ![cur[a]] = "closed"]
  /\ \E kind \in {"bad", "other"} : ConnectorFails(a, kind)
  /\ UNCHANGED <<outer, late, got, tries, conns, abandoned, clock, blamed, free, requests, held>>

\* The read of a socket closed under it returns.
ReadReturns(a) ==
  /\ inner[a] = "login" /\ sock[cur[a]] = "closed"
  /\ \E kind \in {"bad", "other"} : ConnectorFails(a, kind)
  /\ UNCHANGED <<outer, late, got, tries, conns, abandoned, clock, blamed, sock, free, requests, held>>

Answers(a) ==
  /\ inner[a] = "answer"
  /\ inner' = [inner EXCEPT ![a] = "over"]
  /\ got' = [got EXCEPT ![a] = IF cur[a] = None THEN "error" ELSE "conn"]
  /\ UNCHANGED <<outer, late, cur, why, tries, conns, abandoned, clock, blamed, sock, poolVars, held>>

---------------------------------------------------------------------------
(* The caller: connWithin, Connect *)

Receives(a) ==
  /\ Waiting(a) /\ got[a] # "empty"
  /\ got' = [got EXCEPT ![a] = "taken"]
  /\ \/ /\ got[a] = "conn"
        /\ held' = held \cup {cur[a]}
        /\ outer' = [outer EXCEPT ![a] = "returned"]
     \/ /\ got[a] = "error"
        /\ outer' = [outer EXCEPT ![a] =
                      IF why[a] \in {"deadline", "timeout"} THEN "judging" ELSE "failed"]
        /\ UNCHANGED held
  /\ UNCHANGED <<inner, late, cur, why, tries, conns, abandoned, clock, blamed, sock, poolVars>>

\* Mutant: giving up refuses later sockets and closes none.
abandon_refusesOnly(a) ==
  /\ abandoned' = [abandoned EXCEPT ![a] = TRUE]
  /\ UNCHANGED <<conns, sock>>

abandon(a) ==
  /\ abandoned' = [abandoned EXCEPT ![a] = TRUE]
  /\ sock' = [c \in Sockets |-> IF c \in conns[a] THEN "closed" ELSE sock[c]]
  /\ conns' = [conns EXCEPT ![a] = {}]

\* Mutant: select is taken to prefer the context, and a taken answer is abandoned.
GivesUp_afterAnswer(a) ==
  /\ Waiting(a) \/ (outer[a] = "returned" /\ ~abandoned[a])
  /\ Dead(a)
  /\ abandon(a)
  /\ late' = [late EXCEPT ![a] = "waiting"]
  /\ outer' = [outer EXCEPT ![a] = IF Waiting(a) THEN "judging" ELSE @]
  /\ UNCHANGED <<inner, got, cur, why, tries, clock, blamed, poolVars, held>>

\* Mutant: the goroutine of the attempt is waited for.
GivesUp_waits(a) ==
  /\ Waiting(a) /\ Dead(a) /\ inner[a] = "over"
  /\ abandon(a)
  /\ late' = [late EXCEPT ![a] = "waiting"]
  /\ outer' = [outer EXCEPT ![a] = "judging"]
  /\ UNCHANGED <<inner, got, cur, why, tries, clock, blamed, poolVars, held>>

GivesUp(a) ==
  /\ Waiting(a) /\ Dead(a)
  /\ abandon(a)
  /\ late' = [late EXCEPT ![a] = "waiting"]
  /\ outer' = [outer EXCEPT ![a] = "judging"]
  /\ UNCHANGED <<inner, got, cur, why, tries, clock, blamed, poolVars, held>>

\* Mutant: the caller's context is read without waiting for its timer.
settled_atOnce(a) == TRUE

\* settled: a deadline that has passed is waited for.
settled(a) == clock[a].passed => clock[a].fired

\* errors.Is(DeadlineExceeded), and a caller that has not ended: called a login
\* timeout, be it the budget, the dial or the lookup that ran out.
Judges(a) ==
  /\ outer[a] = "judging" /\ settled(a)
  /\ outer' = [outer EXCEPT ![a] = "failed"]
  /\ blamed' = IF clock[a].fired THEN blamed ELSE blamed \cup {a}
  /\ UNCHANGED <<inner, late, got, cur, why, tries, conns, abandoned, clock, sock, poolVars, held>>

\* Mutant: nobody closes the connection that answers late.
ClosesLate_never(a) ==
  /\ late[a] = "waiting" /\ got[a] # "empty"
  /\ late' = [late EXCEPT ![a] = "over"]
  /\ got' = [got EXCEPT ![a] = "taken"]
  /\ UNCHANGED <<inner, cur, free, requests>>
  /\ UNCHANGED <<outer, why, tries, conns, abandoned, clock, blamed, sock, numOpen, opener, held>>

\* The late answer is received, and its connection closed: it goes to the pool.
ClosesLate(a) ==
  /\ late[a] = "waiting" /\ got[a] # "empty"
  /\ late' = [late EXCEPT ![a] = "over"]
  /\ got' = [got EXCEPT ![a] = "taken"]
  /\ \/ got[a] = "conn" /\ PutConn(cur[a], requests)
     \/ got[a] = "error" /\ UNCHANGED <<inner, cur, free, requests>>
  /\ UNCHANGED <<outer, why, tries, conns, abandoned, clock, blamed, sock, numOpen, opener, held>>

\* The caller closes a connection: recycled, or discarded when it went bad.
Idle == \A a \in Attempts : outer[a] \notin {"waiting", "judging"}

Returns(c) ==
  /\ Idle /\ c \in held
  /\ held' = held \ {c}
  /\ PutConn(c, requests)
  /\ UNCHANGED <<outer, late, got, why, tries, conns, abandoned, clock, blamed, sock, numOpen, opener>>

Discards(c) ==
  /\ Idle /\ c \in held
  /\ held' = held \ {c}
  /\ sock' = [sock EXCEPT ![c] = "closed"]
  /\ GiveSlotBack(requests)
  /\ UNCHANGED <<attemptVars, free, requests>>

---------------------------------------------------------------------------
(* The opener of the pool: its dial carries no attempt *)

Refills ==
  /\ opener.busy = None /\ opener.pending > 0 /\ opener.n < MaxRefills
  /\ LET c == <<Opener, opener.n + 1>>
     IN /\ opener' = [busy |-> c, pending |-> opener.pending - 1, n |-> opener.n + 1]
        /\ sock' = [sock EXCEPT ![c] = "open"]
  /\ UNCHANGED <<attemptVars, numOpen, free, requests, held>>

\* The server answers it, or does not.
RefillLogsIn ==
  /\ opener.busy # None
  /\ PutConn(opener.busy, requests)
  /\ opener' = [opener EXCEPT !.busy = None]
  /\ UNCHANGED <<outer, late, got, why, tries, conns, abandoned, clock, blamed, sock, numOpen, held>>

\* A request is told of the failure.
RefillFails ==
  /\ opener.busy # None
  /\ sock' = [sock EXCEPT ![opener.busy] = "closed"]
  /\ \/ /\ requests = {}
        /\ numOpen' = numOpen - 1
        /\ opener' = [opener EXCEPT !.busy = None]
        /\ UNCHANGED <<inner, why, requests>>
     \/ \E r \in requests :
          LET asking == requests \ {r}
              n == Wanted(numOpen - 1, asking)
          IN /\ requests' = asking
             /\ inner' = [inner EXCEPT ![r] = "answer"]
             /\ \E kind \in NetErrors : why' = [why EXCEPT ![r] = kind]
             /\ numOpen' = numOpen - 1 + n
             /\ opener' = [opener EXCEPT !.busy = None, !.pending = @ + n]
  /\ UNCHANGED <<outer, late, got, cur, tries, conns, abandoned, clock, blamed, free, held>>

---------------------------------------------------------------------------
(* The specification *)

Init ==
  /\ outer = [a \in Attempts |-> "idle"]
  /\ inner = [a \in Attempts |-> "idle"]
  /\ late  = [a \in Attempts |-> "none"]
  /\ got   = [a \in Attempts |-> "empty"]
  /\ cur   = [a \in Attempts |-> None]
  /\ why   = [a \in Attempts |-> "other"]
  /\ tries = [a \in Attempts |-> 0]
  /\ conns = [a \in Attempts |-> {}]
  /\ abandoned = [a \in Attempts |-> FALSE]
  /\ clock = [a \in Attempts |-> NoClock]
  /\ sock  = [c \in Sockets |-> "none"]
  /\ numOpen = 0 /\ free = {} /\ requests = {}
  /\ opener = [busy |-> None, pending |-> 0, n |-> 0]
  /\ held = {} /\ blamed = {}

\* What the goroutines of an attempt do on their own, the server apart.
InnerSteps(a) ==
  \/ Asks(a) \/ LeavesQueue(a) \/ TakesHanded(a) \/ LeavesHanded(a) \/ PutsBack(a)
  \/ LooksUp(a) \/ Dials(a) \/ Adds(a) \/ ReadReturns(a) \/ Answers(a)

OuterSteps(a) == Receives(a) \/ GivesUp(a) \/ Judges(a)

Next ==
  \/ \E a \in Attempts :
       \/ Start(a) \/ InnerSteps(a) \/ OuterSteps(a) \/ ClosesLate(a)
       \/ LogsIn(a) \/ LoginFails(a)
       \/ DeadlinePasses(a) \/ CallerEnds(a) \/ BudgetEnds(a)
  \/ \E c \in held : Returns(c) \/ Discards(c)
  \/ Refills \/ RefillLogsIn \/ RefillFails

Spec == Init /\ [][Next]_vars

\* Deadlines pass, goroutines run, a resolver gives up.  A server need not
\* answer: nothing is assumed of a login, the opener's included.
Fairness == \A a \in Attempts :
  /\ WF_vars(InnerSteps(a)) /\ WF_vars(OuterSteps(a)) /\ WF_vars(ClosesLate(a))
  /\ WF_vars(BudgetEnds(a)) /\ WF_vars(CallerEnds(a) /\ clock[a].passed)

FairSpec == Spec /\ Fairness

---------------------------------------------------------------------------
(* Properties *)

Outers == {"idle", "waiting", "judging", "returned", "failed"}
Inners == {"idle", "asking", "queued", "handed", "returning", "lookup", "dialing", "dialed",
           "login", "answer", "over"}

\* Every variable has its type.
TypeOK ==
  /\ outer \in [Attempts -> Outers] /\ inner \in [Attempts -> Inners]
  /\ late \in [Attempts -> {"none", "waiting", "over"}]
  /\ got \in [Attempts -> {"empty", "error", "conn", "taken"}]
  /\ cur \in [Attempts -> Sockets \cup {None}]
  /\ why \in [Attempts -> {"deadline", "timeout", "other", "abandoned"}]
  /\ tries \in [Attempts -> 0..MaxTries]
  /\ conns \in [Attempts -> SUBSET Sockets]
  /\ abandoned \in [Attempts -> BOOLEAN]
  /\ clock \in [Attempts -> [passed : BOOLEAN, fired : BOOLEAN, spent : BOOLEAN]]
  /\ sock \in [Sockets -> {"none", "open", "closed"}]
  /\ numOpen \in 0..MaxOpen
  /\ free \subseteq Sockets /\ requests \subseteq Attempts /\ held \subseteq Sockets
  /\ blamed \subseteq Attempts
  /\ opener \in [busy : Sockets \cup {None}, pending : 0..MaxOpen, n : 0..MaxRefills]

\* Who dialed a socket.
By(c) == c[1]

\* An abandoned attempt has no socket open, save the one its dialer has just
\* been given and is about to offer to add, which refuses it (dial.go: add and
\* abandon share a mutex; watch.go:628).
AbandonedHoldsNothing ==
  \A c \in Sockets :
    By(c) \in Attempts /\ abandoned[By(c)] /\ sock[c] = "open" =>
      inner[By(c)] = "dialed" /\ cur[By(c)] = c

\* No socket is open that nobody would close: it is recorded by an attempt that
\* may still give up, on its way to add, held by the caller, or known to the pool
\* (idle, on its way to an attempt, or the opener's).
Carries(a, c) == cur[a] = c /\ inner[a] \in {"dialed", "login", "handed", "returning", "answer"}
Channel(a, c) == cur[a] = c /\ inner[a] = "over" /\ got[a] = "conn"
OpenSocketsAreKnown ==
  \A c \in Sockets : sock[c] = "open" =>
    \/ c \in held \cup free \cup {opener.busy}
    \/ \E a \in Attempts : Carries(a, c) \/ Channel(a, c)

\* A connection the attempt dialed and connWithin returned is not closed under
\* its caller by the context that ended while it answered (watch.go:640-649).
ItsOwnIsAlive ==
  \A a \in Attempts : \A c \in held :
    By(c) = a /\ outer[a] = "returned" => sock[c] = "open"

\* The slots of the pool add up: one for each connection idle, held, answered
\* and not yet received, being made, or promised to the opener.  A slot that an
\* abandoned attempt kept would starve the attempts after it (SetMaxOpenConns).
TakesSlot(a) ==
  \/ inner[a] \in {"lookup", "dialing", "dialed", "login"}
  \/ inner[a] \in {"handed", "returning", "answer"} /\ cur[a] # None
  \/ inner[a] = "over" /\ got[a] = "conn"
SlotsAddUp ==
  numOpen = Cardinality(free) + Cardinality(held) + opener.pending
            + (IF opener.busy = None THEN 0 ELSE 1)
            + Cardinality({a \in Attempts : TakesSlot(a)})

\* The caller's own deadline, or its stop, is never reported as a login the
\* server did not complete: only the budget is, or a dial or a lookup that timed
\* out (runner.go:360-368).
BlameIsRight == \A a \in blamed : clock[a].spent \/ why[a] = "timeout"

\* connWithin returns by its deadline, whatever the driver does (watch.go:610).
AttemptReturns == \A a \in Attempts : Waiting(a) ~> ~Waiting(a)

\* An attempt that was given up is undone: its goroutines end and its sockets
\* are closed, a mute server notwithstanding (watch.go:617-624).
AttemptIsUndone ==
  \A a \in Attempts :
    abandoned[a] ~> /\ inner[a] = "over" /\ late[a] = "over"
                    /\ \A c \in Sockets : By(c) = a => sock[c] # "open"

\* Whoever gives up, and whenever, no socket and no slot of the pool is lost.
NothingIsLeft ==
  /\ TypeOK
  /\ AbandonedHoldsNothing
  /\ OpenSocketsAreKnown
  /\ SlotsAddUp

\* What an attempt answers is true: its connection is alive, its reason the right one.
AnswerIsTrue ==
  /\ ItsOwnIsAlive
  /\ BlameIsRight

\* Every attempt answers, and one that was given up ends behind its answer.
AttemptEnds ==
  /\ AttemptReturns
  /\ AttemptIsUndone
=============================================================================
