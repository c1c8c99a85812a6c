---------------------------- MODULE RunContract ----------------------------
(***************************************************************************)
(* What a collection promises whoever launched it, the steps of the run    *)
(* left out: every planned unit is settled at most once and for good; the  *)
(* run ends once, with an outcome; it ends complete only when no unit is   *)
(* missing; and what an earlier run left under the same name is given up   *)
(* only for a complete one.                                                *)
(***************************************************************************)
CONSTANT Plan

VARIABLES
  status,   \* what became of each unit
  outcome,  \* how the run ended
  earlier   \* the earlier run is still on the disk

contract == <<status, outcome, earlier>>

Settled == {"collected", "gone", "failed", "skipped"}

Init ==
  /\ status = [u \in Plan |-> "pending"]
  /\ outcome = "running"
  /\ earlier = TRUE

Settle(u) ==
  /\ outcome = "running" /\ status[u] = "pending"
  /\ \E s \in Settled : status' = [status EXCEPT ![u] = s]
  /\ UNCHANGED <<outcome, earlier>>

Complete == \A u \in Plan : status[u] \in {"collected", "gone"}

End ==
  /\ outcome = "running"
  /\ \/ Complete /\ outcome' = "complete" /\ earlier' \in {earlier, FALSE}
     \/ outcome' = "partial" /\ UNCHANGED earlier
  /\ UNCHANGED status

Next == (\E u \in Plan : Settle(u)) \/ End

Spec == Init /\ [][Next]_contract
=============================================================================
