----------------------------- MODULE OutboxProps -----------------------------
(***************************************************************************)
(* The correctness properties of Outbox.                                   *)
(***************************************************************************)
EXTENDS Outbox

Rows == [status   : {"absent", "pending", "processing", "completed", "dead"},
         attempts : Nat,
         lockedBy : Workers \union {NoWorker},
         due      : BOOLEAN]

Dispatches == [event   : Events,
               worker  : Workers,
               claim   : Nat,
               attempt : Nat,
               stage   : {"listening", "completing", "rescheduling"},
               lost    : BOOLEAN,
               awaited : BOOLEAN]

(* The table and the dispatches in memory keep their types, and a lease    *)
(* names a process exactly while its event is being processed (the columns *)
(* that claimBatch, markCompleted, reschedule and the requeues set).       *)
TypeOK ==
  /\ row \in [Events -> Rows]
  /\ dispatches \subseteq Dispatches
  /\ alive \subseteq Workers
  /\ before \in [Events -> SUBSET Events]
  /\ claims \in [Events -> Nat]
  /\ delivered \subseteq Events
  /\ faults \in Nat
  /\ requeues \in Nat
  /\ \A e \in Events : row[e].status = "processing" <=> row[e].lockedBy # NoWorker

PhaseOf(status) ==
  CASE status = "absent"                    -> "absent"
    [] status \in {"pending", "processing"} -> "queued"
    [] status = "completed"                 -> "done"
    [] status = "dead"                      -> "parked"

Phase == [e \in Events |-> PhaseOf(row[e].status)]

Begun == {e \in Events : claims[e] > 0}

Contract == INSTANCE OrderedDelivery WITH phase <- Phase, begun <- Begun

(* Leases, crashes, lost answers and requeues implement at-least-once      *)
(* delivery in the order of each aggregate.                                *)
ImplementsOrderedDelivery == Contract!Spec

(* An event was handed to the listeners only after every older event of    *)
(* its aggregate that was committed before it had completed: neither an    *)
(* expired lease, a dead letter nor a requeue lets a later event overtake  *)
(* (the NOT EXISTS clause of claimBatch).                                  *)
DeliveredInOrder ==
  \A e \in Events : claims[e] > 0 => \A p \in before[e] : row[p].status = "completed"

(* Only the process that holds the lease takes an event out of processing: *)
(* the settlement of a process that lost its lease is ignored (the WHERE   *)
(* clauses of markCompleted and reschedule).                               *)
OnlyOwnerSettles ==
  [][\A e \in Events :
       row[e].status = "processing" /\ row'[e].status # "processing" =>
         \E d \in dispatches : /\ d.event = e
                               /\ d.worker = row[e].lockedBy
                               /\ d \notin dispatches']_vars

(* Every committed event is completed, or an event of its aggregate that   *)
(* is not younger waits for an operator as a dead letter: no crash, lost   *)
(* answer or expired lease leaves an event behind.                         *)
EventuallySettled ==
  \A e \in Events :
    row[e].status # "absent" ~>
      \/ row[e].status = "completed"
      \/ \E p \in Older(e) \union {e} : row[p].status = "dead"
==============================================================================
