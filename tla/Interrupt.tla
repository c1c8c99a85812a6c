------------------------------ MODULE Interrupt ------------------------------
(* interruptible of cmd/sql-auditor/main.go: the goroutine that turns the    *)
(* first ctrl-c into the cancellation of the run and hands the signal back   *)
(* to the system, so that a second one ends the process.  Host and Command   *)
(* compose it with what is interrupted.                                      *)
EXTENDS Naturals

CONSTANT MaxSignals     \* a bound: how often the operator presses ctrl-c

VARIABLES
    caught,     \* signal.Notify is in force: a signal goes to the channel
    pending,    \* the channel, of capacity one, holds a signal
    handler,    \* where the goroutine is
    cancelled,  \* the context given to the run is done
    sent,       \* signals sent so far
    killed      \* a signal met its default disposition

sigVars == <<caught, pending, handler, cancelled, sent, killed>>

SigTypeOK ==
    /\ caught \in BOOLEAN /\ pending \in BOOLEAN
    /\ cancelled \in BOOLEAN /\ killed \in BOOLEAN
    /\ handler \in {"waiting", "telling", "cancelling", "ended"}
    /\ sent \in 0..MaxSignals

SigInit ==
    /\ caught = TRUE /\ pending = FALSE /\ handler = "waiting"
    /\ cancelled = FALSE /\ sent = 0 /\ killed = FALSE

\* The operator presses ctrl-c.  signal.Notify never blocks: a signal that
\* finds the channel full is dropped.
Signal ==
    /\ ~killed /\ sent < MaxSignals
    /\ sent' = sent + 1
    /\ pending' = (pending \/ caught)
    /\ killed' = ~caught
    /\ UNCHANGED <<caught, handler, cancelled>>

TakesSignal ==
    /\ handler = "waiting" /\ pending
    /\ handler' = "telling" /\ pending' = FALSE
    /\ UNCHANGED <<caught, cancelled, sent, killed>>

\* Mutant: the run is cancelled before the signal is handed back.
HandsBack_after ==
    /\ handler = "telling"
    /\ cancelled' = TRUE /\ handler' = "cancelling"
    /\ UNCHANGED <<caught, pending, sent, killed>>

\* Two lines have been written: what the run does now, and that a second ctrl-c
\* abandons it.  Until here a second one is swallowed.
HandsBack ==
    /\ handler = "telling"
    /\ caught' = FALSE /\ handler' = "cancelling"
    /\ UNCHANGED <<pending, cancelled, sent, killed>>

Cancels ==
    /\ handler = "cancelling"
    /\ cancelled' = TRUE /\ handler' = "ended"
    /\ UNCHANGED <<caught, pending, sent, killed>>

\* The deferred stop: what a command that has returned does last.
StopSignals ==
    /\ caught' = FALSE /\ cancelled' = TRUE
    /\ UNCHANGED <<pending, handler, sent, killed>>

Handles == TakesSignal \/ HandsBack \/ Cancels

\* A stop asked for twice is a process that ends: once the run has been
\* cancelled no ctrl-c is swallowed, since interruptibleOn hands the signal back
\* first.
SecondSignalKills == [][sent' # sent /\ cancelled => killed']_sigVars
=============================================================================
