--------------------------- MODULE OrderedDelivery ---------------------------
(***************************************************************************)
(* What the transactional outbox promises to the code that enqueues events *)
(* and to the listeners that receive them: every event is emitted at least *)
(* once, in the order of creation within an aggregate.  No rows, leases or *)
(* processes.  Outbox implements it.                                       *)
(*                                                                         *)
(* The promise ends at emitAsync.  A listener bound by @OnEvent without    *)
(* suppressErrors: false has its error logged by the event library, and    *)
(* emitAsync resolves: "delivered" does not say that a listener succeeded. *)
(***************************************************************************)
EXTENDS Naturals

CONSTANTS Events, AggregateOf

VARIABLES
  phase,     \* absent, queued, done, or parked (dead-lettered)
  before,    \* per event, the older events of its aggregate it was queued after
  begun,     \* events handed to the listeners at least once
  delivered  \* events for which emitAsync resolved at least once

vars == <<phase, before, begun, delivered>>

Older(e) == {p \in Events : p < e /\ AggregateOf[p] = AggregateOf[e]}

Init ==
  /\ phase = [e \in Events |-> "absent"]
  /\ before = [e \in Events |-> {}]
  /\ begun = {}
  /\ delivered = {}

Enqueue(e) ==
  /\ phase[e] = "absent"
  /\ phase' = [phase EXCEPT ![e] = "queued"]
  /\ before' = [before EXCEPT ![e] = {p \in Older(e) : phase[p] # "absent"}]
  /\ UNCHANGED <<begun, delivered>>

(* Nothing is handed out while an older event it was queued after is not   *)
(* done: a parked event holds its aggregate back.                          *)
Begin(e) ==
  /\ phase[e] = "queued"
  /\ \A p \in before[e] : phase[p] = "done"

BeginSome ==
  \E S \in SUBSET {e \in Events : Begin(e)} :
    /\ begun' = begun \union S
    /\ UNCHANGED <<phase, before, delivered>>

(* emitAsync may resolve late, after the event was parked, requeued or     *)
(* even done: delivery is at least once.                                   *)
Deliver(e) ==
  /\ e \in begun
  /\ delivered' = delivered \union {e}
  /\ UNCHANGED <<phase, before, begun>>

Finish(e) ==
  /\ phase[e] = "queued"
  /\ e \in delivered
  /\ phase' = [phase EXCEPT ![e] = "done"]
  /\ UNCHANGED <<before, begun, delivered>>

Park(e) ==
  /\ phase[e] = "queued"
  /\ e \in begun
  /\ phase' = [phase EXCEPT ![e] = "parked"]
  /\ UNCHANGED <<before, begun, delivered>>

Requeue(e) ==
  /\ phase[e] = "parked"
  /\ phase' = [phase EXCEPT ![e] = "queued"]
  /\ UNCHANGED <<before, begun, delivered>>

Next ==
  \/ BeginSome
  \/ \E e \in Events : Enqueue(e) \/ Deliver(e) \/ Finish(e) \/ Park(e) \/ Requeue(e)

Spec == Init /\ [][Next]_vars
==============================================================================
