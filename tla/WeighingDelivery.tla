--------------------------- MODULE WeighingDelivery ---------------------------
(***************************************************************************)
(* What the finalization and the outbox promise together, with none of     *)
(* their files, queues and threads: a session is decided once; its event   *)
(* is delivered to the broker, possibly several times, only after the      *)
(* decision; once the delivery is recorded, or given up, no message of it  *)
(* is sent again. What is in transit by then may still arrive, and arrive  *)
(* twice, unless the sender dies first.                                    *)
(***************************************************************************)
EXTENDS Naturals

CONSTANTS Sessions, Readings

VARIABLES
  outcome,     \* "open", or what the terminal ledger says of the session
  inTransit,   \* messages of the session's event that were sent, and may arrive
  deliveries,  \* copies of the session's event the broker received
  closed,      \* sessions whose delivery is recorded
  abandoned    \* sessions whose event was dead-lettered

deliveryVars == << outcome, inTransit, deliveries, closed, abandoned >>

Decided(s) == outcome[s] \in Readings

Init ==
  /\ outcome = [s \in Sessions |-> "open"]
  /\ inTransit = [s \in Sessions |-> 0]
  /\ deliveries = [s \in Sessions |-> 0]
  /\ closed = {} /\ abandoned = {}

Decide(s) ==
  /\ outcome[s] = "open"
  /\ \E o \in {"no_weight"} \cup Readings : outcome' = [outcome EXCEPT ![s] = o]
  /\ UNCHANGED << inTransit, deliveries, closed, abandoned >>

Send(s) ==
  /\ Decided(s) /\ s \notin closed /\ s \notin abandoned
  /\ inTransit' = [inTransit EXCEPT ![s] = @ + 1]
  /\ UNCHANGED << outcome, deliveries, closed, abandoned >>

Deliver(s) ==
  /\ inTransit[s] > 0
  /\ deliveries' = [deliveries EXCEPT ![s] = @ + 1]
  /\ \/ inTransit' = [inTransit EXCEPT ![s] = @ - 1]
     \/ UNCHANGED inTransit
  /\ UNCHANGED << outcome, closed, abandoned >>

Lose ==
  /\ inTransit' = [s \in Sessions |-> 0]
  /\ UNCHANGED << outcome, deliveries, closed, abandoned >>

Close(s) ==
  /\ deliveries[s] > 0
  /\ closed' = closed \cup {s}
  /\ UNCHANGED << outcome, inTransit, deliveries, abandoned >>

Abandon(s) ==
  /\ Decided(s) /\ s \notin closed
  /\ abandoned' = abandoned \cup {s}
  /\ UNCHANGED << outcome, inTransit, deliveries, closed >>

Next ==
  \/ Lose
  \/ \E s \in Sessions : Decide(s) \/ Send(s) \/ Deliver(s) \/ Close(s) \/ Abandon(s)

Spec == Init /\ [][Next]_deliveryVars
=============================================================================
