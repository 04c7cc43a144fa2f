----------------------------- MODULE OutboxProofs -----------------------------
(***************************************************************************)
(* Proofs about Outbox: types, the order of delivery, that it implements   *)
(* OrderedDelivery, and that only the owner of a lease settles, for every  *)
(* set of events, every number of processes and any number of faults.      *)
(***************************************************************************)
EXTENDS OutboxProps, TLAPS

(* What the dispatches in memory say about the history.                    *)
DispatchesSound ==
  \A d \in dispatches : /\ claims[d.event] > 0
                        /\ d.stage = "completing" => d.event \in delivered

(* An event that is not in the table was never claimed.                    *)
AbsentUnclaimed == \A e \in Events : row[e].status = "absent" => claims[e] = 0

(* The history names older events of the same aggregate, in the table.     *)
BeforeOlder ==
  \A e \in Events : \A p \in before[e] : p \in Older(e) /\ row[p].status # "absent"

Inv == TypeOK /\ DispatchesSound /\ AbsentUnclaimed /\ BeforeOlder /\ DeliveredInOrder

-------------------------------------------------------------------------------
(* The fields of a row after an update that is guarded by the lease.       *)
LEMMA SettledRow ==
  ASSUME TypeOK, NEW d \in dispatches, NEW s \in {"pending", "completed", "dead"}
  PROVE  /\ Settled(d, s) \in [Events -> Rows]
         /\ \A e \in Events : \/ Settled(d, s)[e] = row[e]
                              \/ /\ e = d.event
                                 /\ row[e].status = "processing"
                                 /\ row[e].lockedBy = d.worker
                                 /\ Settled(d, s)[e].status = s
                                 /\ Settled(d, s)[e].lockedBy = NoWorker
<1> DEFINE new == [row[d.event] EXCEPT !.status = s, !.lockedBy = NoWorker, !.due = FALSE]
<1>1. d.event \in Events /\ row \in [Events -> Rows]
  BY DEF TypeOK, Dispatches
<1>2. new \in Rows /\ new.status = s /\ new.lockedBy = NoWorker
  BY <1>1 DEF Rows
<1>3. Settled(d, s) = IF Owns(d) THEN [row EXCEPT ![d.event] = new] ELSE row
  BY DEF Settled
<1> HIDE DEF new
<1> QED BY <1>1, <1>2, <1>3 DEF Owns

(* A dispatch whose record changed in one field.                           *)
LEMMA DispatchUpdate ==
  ASSUME NEW d \in Dispatches
  PROVE  /\ [d EXCEPT !.lost = TRUE] \in Dispatches
         /\ [d EXCEPT !.awaited = FALSE] \in Dispatches
         /\ \A s \in {"completing", "rescheduling"} : [d EXCEPT !.stage = s] \in Dispatches
BY DEF Dispatches

(* Changing one flag of a row keeps the rest of it.                        *)
LEMMA DueRow ==
  ASSUME TypeOK, NEW e \in Events, NEW b \in BOOLEAN
  PROVE  /\ [row EXCEPT ![e].due = b] \in [Events -> Rows]
         /\ \A x \in Events : /\ [row EXCEPT ![e].due = b][x].status = row[x].status
                              /\ [row EXCEPT ![e].due = b][x].lockedBy = row[x].lockedBy
BY DEF TypeOK, Rows

-------------------------------------------------------------------------------
LEMMA InitInv == Init => Inv
BY DEF Init, Inv, TypeOK, Rows, DispatchesSound, AbsentUnclaimed, BeforeOlder, DeliveredInOrder

LEMMA EnqueueInv ==
  ASSUME Inv, NEW e \in Events, Enqueue(e)
  PROVE  Inv'
<1> DEFINE r(due) == [status |-> "pending", attempts |-> 0, lockedBy |-> NoWorker, due |-> due]
<1>1. PICK due \in BOOLEAN : row' = [row EXCEPT ![e] = r(due)]
  BY DEF Enqueue
<1>2. r(due) \in Rows /\ r(due).status = "pending" /\ r(due).lockedBy = NoWorker
  BY DEF Rows
<1> HIDE DEF r
<1>3. /\ before' = [before EXCEPT ![e] = {p \in Older(e) : row[p].status # "absent"}]
      /\ UNCHANGED <<dispatches, alive, claims, delivered, faults, requeues>>
      /\ row[e].status = "absent" /\ claims[e] = 0
  BY DEF Enqueue, Inv, AbsentUnclaimed
<1>4. {p \in Older(e) : row[p].status # "absent"} \subseteq Events
  BY DEF Older
<1>5. TypeOK'
  BY <1>1, <1>2, <1>3, <1>4 DEF Inv, TypeOK
<1>6. DispatchesSound' /\ AbsentUnclaimed'
  BY <1>1, <1>2, <1>3 DEF Inv, TypeOK, DispatchesSound, AbsentUnclaimed
<1>7. DeliveredInOrder'
  <2> SUFFICES ASSUME NEW x \in Events, claims[x] > 0, NEW p \in before'[x]
               PROVE  row'[p].status = "completed"
    BY <1>3 DEF DeliveredInOrder
  <2>1. x # e /\ p \in before[x] /\ p \in Events
    BY <1>3 DEF Inv, TypeOK
  <2>2. row[p].status = "completed"
    BY <2>1 DEF Inv, DeliveredInOrder
  <2>3. p # e
    BY <1>3, <2>2
  <2> QED BY <1>1, <2>1, <2>2, <2>3 DEF Inv, TypeOK
<1>8. BeforeOlder'
  <2> SUFFICES ASSUME NEW x \in Events, NEW p \in before'[x]
               PROVE  p \in Older(x) /\ row'[p].status # "absent"
    BY DEF BeforeOlder, Older
  <2>1. p \in Older(x) /\ row[p].status # "absent"
    BY <1>3 DEF Inv, TypeOK, BeforeOlder
  <2>2. p \in Events
    BY <2>1 DEF Older
  <2> QED BY <1>1, <1>2, <2>1, <2>2 DEF Inv, TypeOK
<1> QED BY <1>5, <1>6, <1>7, <1>8 DEF Inv

LEMMA ClaimInv ==
  ASSUME Inv, NEW w \in Workers, Claim(w)
  PROVE  Inv'
<1>1. PICK S \in SUBSET {e \in Events : Claimable(e)} :
        /\ row' = [e \in Events |->
             IF e \in S
               THEN [status |-> "processing", attempts |-> row[e].attempts + 1,
                     lockedBy |-> w, due |-> FALSE]
               ELSE row[e]]
        /\ claims' = [e \in Events |-> IF e \in S THEN claims[e] + 1 ELSE claims[e]]
        /\ \/ NoFault /\ dispatches' = dispatches \union {Dispatch(e, w) : e \in S}
           \/ Fault /\ UNCHANGED dispatches
  BY DEF Claim
<1>2. UNCHANGED <<alive, before, delivered, requeues>> /\ w # NoWorker
  BY NoWorkerAssumption DEF Claim
<1>3. S \subseteq Events
  OBVIOUS
<1>4. faults' \in Nat
  BY <1>1 DEF NoFault, Fault, Inv, TypeOK
<1>5. row' \in [Events -> Rows] /\ claims' \in [Events -> Nat]
  BY <1>1 DEF Inv, TypeOK, Rows
<1>6. \A e \in S : Dispatch(e, w) \in Dispatches
  BY <1>3 DEF Dispatch, Dispatches, Inv, TypeOK, Rows
<1>7. \A e \in S : Dispatch(e, w).event = e /\ Dispatch(e, w).stage = "listening"
  BY DEF Dispatch
<1>8. \A e \in Events : row'[e].status = "processing" <=> row'[e].lockedBy # NoWorker
  BY <1>1, <1>2 DEF Inv, TypeOK
<1>9. TypeOK'
  BY <1>1, <1>2, <1>4, <1>5, <1>6, <1>8 DEF Inv, TypeOK
<1>10. \A e \in Events : claims'[e] >= claims[e] /\ (e \in S => claims'[e] > 0)
  BY <1>1 DEF Inv, TypeOK
<1>11. DispatchesSound'
  <2> SUFFICES ASSUME NEW d \in dispatches'
               PROVE  claims'[d.event] > 0 /\ (d.stage = "completing" => d.event \in delivered)
    BY <1>2 DEF DispatchesSound
  <2>1. CASE d \in dispatches
    <3>1. d.event \in Events /\ claims[d.event] > 0 /\ claims[d.event] \in Nat /\ claims'[d.event] \in Nat
      BY <1>5, <2>1 DEF Inv, TypeOK, Dispatches, DispatchesSound
    <3> QED BY <1>10, <2>1, <3>1 DEF Inv, DispatchesSound
  <2>2. CASE d \notin dispatches
    <3>1. PICK e \in S : d = Dispatch(e, w)
      BY <1>1, <2>2
    <3> QED BY <1>7, <1>10, <3>1
  <2> QED BY <2>1, <2>2
<1>12. AbsentUnclaimed'
  BY <1>1 DEF Inv, AbsentUnclaimed
<1>13. DeliveredInOrder'
  <2> SUFFICES ASSUME NEW e \in Events, claims'[e] > 0, NEW p \in before[e]
               PROVE  row'[p].status = "completed"
    BY <1>2 DEF DeliveredInOrder
  <2>1. p \in Events
    BY DEF Inv, TypeOK
  <2>2. row[p].status = "completed"
    <3>1. CASE e \in S
      <4>1. p \in Older(e) /\ row[p].status # "absent"
        BY DEF Inv, BeforeOlder
      <4> QED BY <2>1, <3>1, <4>1 DEF Claimable, HeadOfAggregate, Inv, TypeOK, Rows
    <3>2. CASE e \notin S
      BY <1>1, <3>2 DEF Inv, DeliveredInOrder
    <3> QED BY <3>1, <3>2
  <2>3. p \notin S
    BY <2>2 DEF Claimable
  <2> QED BY <1>1, <2>1, <2>2, <2>3
<1>14. BeforeOlder'
  BY <1>1, <1>2 DEF Inv, BeforeOlder, Older
<1> QED BY <1>9, <1>11, <1>12, <1>13, <1>14 DEF Inv

(* Once claimed, a row never leaves the table, and a completed row stays   *)
(* completed: this is all the history needs.                               *)
LEMMA HistoryKept ==
  ASSUME Inv, UNCHANGED <<before, claims>>,
         \A x \in Events : row'[x].status # row[x].status =>
                             /\ row[x].status \in {"processing", "dead"}
                             /\ row'[x].status # "absent"
  PROVE  AbsentUnclaimed' /\ BeforeOlder' /\ DeliveredInOrder'
<1>1. \A x \in Events : before[x] \subseteq Events
  BY DEF Inv, TypeOK
<1>2. AbsentUnclaimed'
  BY DEF Inv, AbsentUnclaimed
<1>3. BeforeOlder'
  BY <1>1 DEF Inv, BeforeOlder, Older
<1>4. DeliveredInOrder'
  BY <1>1 DEF Inv, DeliveredInOrder
<1> QED BY <1>2, <1>3, <1>4

LEMMA RenewInv ==
  ASSUME Inv, NEW d \in dispatches, Renew(d)
  PROVE  Inv'
<1> DEFINE renewed == [row EXCEPT ![d.event].due = FALSE]
           failed  == [d EXCEPT !.lost = TRUE]
<1>1. d \in Dispatches /\ d.event \in Events
  BY DEF Inv, TypeOK, Dispatches
<1>2. /\ row' = row \/ row' = renewed
      /\ dispatches' = dispatches \/ dispatches' = (dispatches \ {d}) \union {failed}
      /\ faults' = faults \/ faults' = faults + 1
      /\ UNCHANGED <<alive, before, claims, delivered, requeues>>
  BY DEF Renew, NoFault, Fault, Become
<1>3. /\ renewed \in [Events -> Rows]
      /\ \A x \in Events : renewed[x].status = row[x].status /\ renewed[x].lockedBy = row[x].lockedBy
  BY <1>1, DueRow DEF Inv
<1>4. failed \in Dispatches
  BY <1>1, DispatchUpdate
<1>5. failed.event = d.event /\ failed.stage = d.stage
  BY <1>1 DEF Dispatches
<1> HIDE DEF renewed, failed
<1>6. TypeOK'
  BY <1>2, <1>3, <1>4 DEF Inv, TypeOK
<1>7. DispatchesSound'
  BY <1>2, <1>5 DEF Inv, DispatchesSound
<1>8. AbsentUnclaimed' /\ BeforeOlder' /\ DeliveredInOrder'
  BY <1>2, <1>3, HistoryKept
<1> QED BY <1>6, <1>7, <1>8 DEF Inv

LEMMA ListenersSettleInv ==
  ASSUME Inv, NEW d \in dispatches, ListenersSettle(d)
  PROVE  Inv'
<1>1. d \in Dispatches /\ d.event \in Events
  BY DEF Inv, TypeOK, Dispatches
<1>2. PICK ok \in BOOLEAN :
        /\ dispatches' = (dispatches \ {d}) \union {[d EXCEPT !.stage = NextStage(d, ok)]}
        /\ delivered' = IF ok THEN delivered \union {d.event} ELSE delivered
        /\ UNCHANGED <<row, alive, before, claims, faults, requeues>>
  BY DEF ListenersSettle, Become
<1> DEFINE new == [d EXCEPT !.stage = NextStage(d, ok)]
<1>3. NextStage(d, ok) \in {"completing", "rescheduling"} /\ (NextStage(d, ok) = "completing" => ok)
  BY DEF NextStage
<1>4. new \in Dispatches
  BY <1>1, <1>3, DispatchUpdate
<1>5. new.event = d.event /\ new.stage = NextStage(d, ok)
  BY <1>1 DEF Dispatches
<1> HIDE DEF new
<1>6. dispatches' = (dispatches \ {d}) \union {new}
  BY <1>2 DEF new
<1>7. TypeOK'
  BY <1>1, <1>2, <1>4, <1>6 DEF Inv, TypeOK
<1>8. DispatchesSound'
  BY <1>2, <1>3, <1>5, <1>6 DEF Inv, DispatchesSound
<1>9. AbsentUnclaimed' /\ BeforeOlder' /\ DeliveredInOrder'
  BY <1>2, HistoryKept
<1> QED BY <1>7, <1>8, <1>9 DEF Inv

(* Both settlements: what Complete and Reschedule have in common.          *)
LEMMA SettleInv ==
  ASSUME Inv, NEW d \in dispatches, NEW s \in {"pending", "completed", "dead"},
         row' \in {row, Settled(d, s)},
         \A o \in dispatches' : /\ o \in Dispatches
                                /\ \E x \in dispatches : o.event = x.event
                                     /\ (o.stage = "completing" => x.stage = "completing"),
         faults' \in {faults, faults + 1},
         UNCHANGED <<alive, before, claims, delivered, requeues>>
  PROVE  Inv'
<1>1. /\ row' \in [Events -> Rows]
      /\ \A e \in Events : \/ row'[e] = row[e]
                           \/ /\ row[e].status = "processing"
                              /\ row'[e].status = s
                              /\ row'[e].lockedBy = NoWorker
  <2>1. TypeOK
    BY DEF Inv
  <2>2. CASE row' = row
    BY <2>1, <2>2 DEF TypeOK
  <2>3. CASE row' = Settled(d, s)
    BY <2>1, <2>3, SettledRow
  <2> QED BY <2>2, <2>3
<1>2. TypeOK'
  BY <1>1 DEF Inv, TypeOK
<1>3. DispatchesSound'
  <2> SUFFICES ASSUME NEW o \in dispatches'
               PROVE  claims[o.event] > 0 /\ (o.stage = "completing" => o.event \in delivered)
    BY DEF DispatchesSound
  <2>1. PICK x \in dispatches : o.event = x.event /\ (o.stage = "completing" => x.stage = "completing")
    OBVIOUS
  <2> QED BY <2>1 DEF Inv, DispatchesSound
<1>4. AbsentUnclaimed' /\ BeforeOlder' /\ DeliveredInOrder'
  BY <1>1, HistoryKept
<1> QED BY <1>2, <1>3, <1>4 DEF Inv

LEMMA CompleteInv ==
  ASSUME Inv, NEW d \in dispatches, Complete(d)
  PROVE  Inv'
<1>1. d \in Dispatches
  BY DEF Inv, TypeOK
<1> DEFINE new == [d EXCEPT !.stage = "rescheduling"]
<1>2. new \in Dispatches /\ new.event = d.event /\ new.stage = "rescheduling"
  BY <1>1, DispatchUpdate DEF Dispatches
<1>3. /\ row' \in {row, Settled(d, "completed")}
      /\ dispatches' = dispatches \ {d} \/ dispatches' = (dispatches \ {d}) \union {new}
      /\ faults' \in {faults, faults + 1}
      /\ UNCHANGED <<alive, before, claims, delivered, requeues>>
  BY DEF Complete, NoFault, Fault, Become
<1> HIDE DEF new
<1>4. \A o \in dispatches' : /\ o \in Dispatches
                             /\ \E x \in dispatches : o.event = x.event
                                  /\ (o.stage = "completing" => x.stage = "completing")
  BY <1>2, <1>3 DEF Inv, TypeOK
<1> QED BY <1>3, <1>4, SettleInv

LEMMA RescheduleInv ==
  ASSUME Inv, NEW d \in dispatches, Reschedule(d)
  PROVE  Inv'
<1>1. \E s \in {"pending", "dead"} : row' \in {row, Settled(d, s)}
  BY DEF Reschedule
<1>2. /\ dispatches' = dispatches \ {d} \/ dispatches' = Unawaited(d)
      /\ faults' \in {faults, faults + 1}
      /\ UNCHANGED <<alive, before, claims, delivered, requeues>>
  BY DEF Reschedule, NoFault, Fault
<1>3. ASSUME NEW o \in dispatches'
      PROVE  /\ o \in Dispatches
             /\ \E x \in dispatches : o.event = x.event
                  /\ (o.stage = "completing" => x.stage = "completing")
  <2>1. PICK x \in dispatches : o = x \/ o = [x EXCEPT !.awaited = FALSE]
    BY <1>2 DEF Unawaited
  <2>2. x \in Dispatches
    BY DEF Inv, TypeOK
  <2>3. o \in Dispatches
    BY <2>1, <2>2, DispatchUpdate
  <2>4. o.event = x.event /\ o.stage = x.stage
    BY <2>1, <2>2 DEF Dispatches
  <2> QED BY <2>3, <2>4
<1> QED BY <1>1, <1>2, <1>3, SettleInv

LEMMA ElapseInv ==
  ASSUME Inv, NEW e \in Events, Elapse(e)
  PROVE  Inv'
<1> DEFINE new == [row EXCEPT ![e].due = TRUE]
<1>1. /\ row' = new
      /\ faults' = faults \/ faults' = faults + 1
      /\ UNCHANGED <<dispatches, alive, before, claims, delivered, requeues>>
  BY DEF Elapse, NoFault, Fault
<1>2. /\ new \in [Events -> Rows]
      /\ \A x \in Events : new[x].status = row[x].status /\ new[x].lockedBy = row[x].lockedBy
  BY DueRow DEF Inv
<1> HIDE DEF new
<1>3. TypeOK' /\ DispatchesSound'
  BY <1>1, <1>2 DEF Inv, TypeOK, DispatchesSound
<1>4. AbsentUnclaimed' /\ BeforeOlder' /\ DeliveredInOrder'
  BY <1>1, <1>2, HistoryKept
<1> QED BY <1>3, <1>4 DEF Inv

LEMMA CrashInv ==
  ASSUME Inv, NEW w \in Workers, Crash(w)
  PROVE  Inv'
<1>1. TypeOK' /\ DispatchesSound'
  BY DEF Crash, Fault, Inv, TypeOK, DispatchesSound
<1>2. AbsentUnclaimed' /\ BeforeOlder' /\ DeliveredInOrder'
  BY HistoryKept DEF Crash
<1> QED BY <1>1, <1>2 DEF Inv

LEMMA RequeueInv ==
  ASSUME Inv, NEW e \in Events, Requeued(e)
  PROVE  Inv'
<1> DEFINE new == [status |-> "pending", attempts |-> 0, lockedBy |-> NoWorker, due |-> TRUE]
<1>1. new \in Rows /\ new.status = "pending" /\ new.lockedBy = NoWorker
  BY DEF Rows
<1>2. /\ row' = [row EXCEPT ![e] = new] /\ row[e].status = "dead" /\ requeues' = requeues + 1
      /\ UNCHANGED <<dispatches, alive, before, claims, delivered, faults>>
  BY DEF Requeued
<1> HIDE DEF new
<1>3. TypeOK' /\ DispatchesSound'
  BY <1>1, <1>2 DEF Inv, TypeOK, DispatchesSound
<1>4. AbsentUnclaimed' /\ BeforeOlder' /\ DeliveredInOrder'
  BY <1>1, <1>2, HistoryKept DEF Inv, TypeOK
<1> QED BY <1>3, <1>4 DEF Inv

LEMMA StutterInv == Inv /\ UNCHANGED vars => Inv'
BY DEF Inv, TypeOK, DispatchesSound, AbsentUnclaimed, BeforeOlder, Older, DeliveredInOrder, vars

LEMMA NextInv == Inv /\ [Next]_vars => Inv'
<1> SUFFICES ASSUME Inv, [Next]_vars PROVE Inv'
  OBVIOUS
<1>1. CASE UNCHANGED vars
  BY <1>1, StutterInv
<1>2. CASE \E e \in Events : Enqueue(e) \/ Elapse(e)
  BY <1>2, EnqueueInv, ElapseInv
<1>3. CASE \E e \in Events : RequeueDeadLetter(e) \/ EnsureAggregateEventScheduled(e)
  BY <1>3, RequeueInv DEF RequeueDeadLetter, EnsureAggregateEventScheduled
<1>4. CASE \E w \in Workers : Claim(w) \/ Crash(w)
  BY <1>4, ClaimInv, CrashInv
<1>5. CASE \E d \in dispatches : Renew(d) \/ DispatchStep(d)
  BY <1>5, RenewInv, ListenersSettleInv, CompleteInv, RescheduleInv DEF DispatchStep
<1> QED BY <1>1, <1>2, <1>3, <1>4, <1>5 DEF Next

(* The table and the dispatches keep their types, and a lease names a      *)
(* process exactly while its event is being processed.                     *)
THEOREM TypeCorrect == Spec => []TypeOK
<1>1. Inv => TypeOK
  BY DEF Inv
<1> QED BY <1>1, InitInv, NextInv, PTL DEF Spec

(* No event overtakes an older event of its aggregate that was committed   *)
(* before it, whatever crashes, expires or is requeued.                    *)
THEOREM InOrder == Spec => []DeliveredInOrder
<1>1. Inv => DeliveredInOrder
  BY DEF Inv
<1> QED BY <1>1, InitInv, NextInv, PTL DEF Spec

-------------------------------------------------------------------------------
(***************************************************************************)
(* Refinement: every step of the outbox is a step of the contract or a     *)
(* stutter.                                                                *)
(***************************************************************************)
LEMMA PhaseValues ==
  /\ PhaseOf("absent") = "absent"
  /\ PhaseOf("pending") = "queued"
  /\ PhaseOf("processing") = "queued"
  /\ PhaseOf("completed") = "done"
  /\ PhaseOf("dead") = "parked"
BY DEF PhaseOf

(* The steps that move no event between the phases of the contract.        *)
LEMMA PhaseKept ==
  ASSUME \A x \in Events : PhaseOf(row'[x].status) = PhaseOf(row[x].status)
  PROVE  Phase' = Phase
BY DEF Phase

(* The steps that move one event to another phase.                         *)
LEMMA PhaseMoved ==
  ASSUME TypeOK, NEW e \in Events, NEW new, row' = [row EXCEPT ![e] = new]
  PROVE  Phase' = [Phase EXCEPT ![e] = PhaseOf(new.status)]
<1>1. \A x \in Events : row'[x] = IF x = e THEN new ELSE row[x]
  BY DEF TypeOK
<1>2. /\ Phase' = [x \in Events |-> PhaseOf(row'[x].status)]
      /\ Phase = [x \in Events |-> PhaseOf(row[x].status)]
  BY DEF Phase
<1> DEFINE s == PhaseOf(new.status)
<1>3. \A x \in Events : PhaseOf(row'[x].status) = IF x = e THEN s ELSE PhaseOf(row[x].status)
  BY <1>1
<1> HIDE DEF s
<1>4. Phase' = [Phase EXCEPT ![e] = s]
  BY <1>2, <1>3
<1> QED BY <1>4 DEF s

LEMMA BegunKept == UNCHANGED claims => UNCHANGED Begun
BY DEF Begun

LEMMA InitRefines == Init => Contract!Init
<1> SUFFICES ASSUME Init PROVE Contract!Init
  OBVIOUS
<1>1. \A e \in Events : row[e].status = "absent" /\ claims[e] = 0
  BY DEF Init
<1>2. Phase = [e \in Events |-> "absent"]
  BY <1>1, PhaseValues DEF Phase
<1>3. Begun = {}
  BY <1>1 DEF Begun
<1> QED BY <1>2, <1>3 DEF Init, Contract!Init

LEMMA EnqueueRefines ==
  ASSUME Inv, NEW e \in Events, Enqueue(e)
  PROVE  Contract!Enqueue(e)
<1> DEFINE r(due) == [status |-> "pending", attempts |-> 0, lockedBy |-> NoWorker, due |-> due]
<1>1. PICK due \in BOOLEAN : row' = [row EXCEPT ![e] = r(due)]
  BY DEF Enqueue
<1>2. r(due).status = "pending"
  OBVIOUS
<1> HIDE DEF r
<1>3. Phase' = [Phase EXCEPT ![e] = "queued"]
  <2>1. TypeOK
    BY DEF Inv
  <2>2. Phase' = [Phase EXCEPT ![e] = PhaseOf(r(due).status)]
    BY <1>1, <2>1, PhaseMoved
  <2> QED BY <1>2, <2>2, PhaseValues
<1>4. row[e].status = "absent" /\ Phase[e] = "absent"
  BY PhaseValues DEF Enqueue, Phase
<1>5. \A p \in Events : row[p].status # "absent" <=> Phase[p] # "absent"
  <2> SUFFICES ASSUME NEW p \in Events PROVE row[p].status # "absent" <=> Phase[p] # "absent"
    OBVIOUS
  <2>1. row[p].status \in {"absent", "pending", "processing", "completed", "dead"}
    BY DEF Inv, TypeOK, Rows
  <2>2. Phase[p] = PhaseOf(row[p].status)
    BY DEF Phase
  <2> QED BY <2>1, <2>2, PhaseValues
<1>6. before' = [before EXCEPT ![e] = {p \in Contract!Older(e) : Phase[p] # "absent"}]
  BY <1>5 DEF Enqueue, Older, Contract!Older
<1>7. UNCHANGED <<Begun, delivered>>
  BY BegunKept DEF Enqueue
<1> QED BY <1>3, <1>4, <1>6, <1>7 DEF Contract!Enqueue

LEMMA ClaimRefines ==
  ASSUME Inv, NEW w \in Workers, Claim(w)
  PROVE  Contract!BeginSome
<1>1. PICK S \in SUBSET {e \in Events : Claimable(e)} :
        /\ row' = [e \in Events |->
             IF e \in S
               THEN [status |-> "processing", attempts |-> row[e].attempts + 1,
                     lockedBy |-> w, due |-> FALSE]
               ELSE row[e]]
        /\ claims' = [e \in Events |-> IF e \in S THEN claims[e] + 1 ELSE claims[e]]
        /\ UNCHANGED <<before, delivered>>
  BY DEF Claim
<1>2. Begun' = Begun \union S
  BY <1>1 DEF Begun, Inv, TypeOK
<1>3. \A x \in Events : PhaseOf(row'[x].status) = PhaseOf(row[x].status)
  BY <1>1, PhaseValues DEF Claimable
<1>4. Phase' = Phase
  BY <1>3, PhaseKept
<1>5. ASSUME NEW e \in S PROVE e \in Events /\ Contract!Begin(e)
  <2>1. e \in Events /\ row[e].status \in {"pending", "processing"} /\ HeadOfAggregate(e)
    BY DEF Claimable
  <2>2. Phase[e] = "queued"
    BY <2>1, PhaseValues DEF Phase
  <2>3. ASSUME NEW p \in before[e] PROVE Phase[p] = "done"
    <3>1. p \in Older(e) /\ p \in Events /\ row[p].status # "absent"
      BY <2>1 DEF Inv, BeforeOlder, TypeOK
    <3>2. row[p].status \in {"absent", "pending", "processing", "completed", "dead"}
      BY <3>1 DEF Inv, TypeOK, Rows
    <3>3. row[p].status = "completed"
      BY <2>1, <3>1, <3>2 DEF HeadOfAggregate
    <3> QED BY <3>1, <3>3, PhaseValues DEF Phase
  <2> QED BY <2>1, <2>2, <2>3 DEF Contract!Begin
<1> QED BY <1>1, <1>2, <1>4, <1>5 DEF Contract!BeginSome

(* A settlement moves its event to the phase of the new status, or does    *)
(* nothing.                                                                *)
LEMMA SettlePhase ==
  ASSUME Inv, NEW d \in dispatches, NEW s \in {"pending", "completed", "dead"},
         row' \in {row, Settled(d, s)}
  PROVE  \/ Phase' = Phase
         \/ /\ d.event \in Events
            /\ Phase[d.event] = "queued"
            /\ Phase' = [Phase EXCEPT ![d.event] = PhaseOf(s)]
<1> DEFINE new == [row[d.event] EXCEPT !.status = s, !.lockedBy = NoWorker, !.due = FALSE]
<1>1. TypeOK /\ d.event \in Events
  BY DEF Inv, TypeOK, Dispatches
<1>2. CASE row' = row
  BY <1>2 DEF Phase
<1>3. CASE row' # row
  <2>1. Owns(d) /\ row' = [row EXCEPT ![d.event] = new]
    BY <1>3 DEF Settled
  <2>2. new.status = s
    BY <1>1 DEF TypeOK, Rows
  <2>3. Phase[d.event] = "queued"
    BY <1>1, <2>1, PhaseValues DEF Owns, Phase
  <2> HIDE DEF new
  <2>4. Phase' = [Phase EXCEPT ![d.event] = PhaseOf(new.status)]
    BY <1>1, <2>1, PhaseMoved
  <2> QED BY <1>1, <2>2, <2>3, <2>4
<1> QED BY <1>2, <1>3

LEMMA CompleteRefines ==
  ASSUME Inv, NEW d \in dispatches, Complete(d)
  PROVE  UNCHANGED Contract!vars \/ Contract!Finish(d.event)
<1>1. row' \in {row, Settled(d, "completed")} /\ UNCHANGED <<before, claims, delivered>>
  BY DEF Complete
<1>2. UNCHANGED <<before, delivered, Begun>>
  BY <1>1, BegunKept
<1>3. d.event \in delivered
  BY DEF Complete, Inv, DispatchesSound
<1>4. \/ Phase' = Phase
      \/ Phase[d.event] = "queued" /\ Phase' = [Phase EXCEPT ![d.event] = "done"]
  BY <1>1, SettlePhase, PhaseValues
<1> QED BY <1>2, <1>3, <1>4 DEF Contract!Finish, Contract!vars

LEMMA RescheduleRefines ==
  ASSUME Inv, NEW d \in dispatches, Reschedule(d)
  PROVE  UNCHANGED Contract!vars \/ Contract!Park(d.event)
<1>1. /\ row' \in {row, Settled(d, "pending")} \/ row' \in {row, Settled(d, "dead")}
      /\ UNCHANGED <<before, claims, delivered>>
  BY DEF Reschedule
<1>2. UNCHANGED <<before, delivered, Begun>>
  BY <1>1, BegunKept
<1>3. d.event \in Begun
  BY DEF Begun, Inv, TypeOK, Dispatches, DispatchesSound
<1>4. CASE row' \in {row, Settled(d, "pending")}
  <2>1. \/ Phase' = Phase
        \/ /\ d.event \in Events
           /\ Phase[d.event] = "queued"
           /\ Phase' = [Phase EXCEPT ![d.event] = "queued"]
    BY <1>4, SettlePhase, PhaseValues
  <2>2. Phase' = Phase
    BY <2>1 DEF Phase
  <2> QED BY <1>2, <2>2 DEF Contract!vars
<1>5. CASE row' \in {row, Settled(d, "dead")}
  <2>1. \/ Phase' = Phase
        \/ Phase[d.event] = "queued" /\ Phase' = [Phase EXCEPT ![d.event] = "parked"]
    BY <1>5, SettlePhase, PhaseValues
  <2> QED BY <1>2, <1>3, <2>1 DEF Contract!Park, Contract!vars
<1> QED BY <1>1, <1>4, <1>5

LEMMA ListenersSettleRefines ==
  ASSUME Inv, NEW d \in dispatches, ListenersSettle(d)
  PROVE  UNCHANGED Contract!vars \/ Contract!Deliver(d.event)
<1>1. /\ delivered' = delivered \/ delivered' = delivered \union {d.event}
      /\ UNCHANGED <<row, before, claims>>
  BY DEF ListenersSettle
<1>2. UNCHANGED <<Phase, before, Begun>>
  BY <1>1, BegunKept DEF Phase
<1>3. d.event \in Begun
  BY DEF Begun, Inv, TypeOK, Dispatches, DispatchesSound
<1> QED BY <1>1, <1>2, <1>3 DEF Contract!Deliver, Contract!vars

LEMMA RequeueRefines ==
  ASSUME Inv, NEW e \in Events, Requeued(e)
  PROVE  Contract!Requeue(e)
<1> DEFINE new == [status |-> "pending", attempts |-> 0, lockedBy |-> NoWorker, due |-> TRUE]
<1>1. /\ row' = [row EXCEPT ![e] = new] /\ row[e].status = "dead"
      /\ UNCHANGED <<before, claims, delivered>>
  BY DEF Requeued
<1>2. new.status = "pending" /\ TypeOK
  BY DEF Inv
<1> HIDE DEF new
<1>3. Phase' = [Phase EXCEPT ![e] = PhaseOf(new.status)]
  BY <1>1, <1>2, PhaseMoved
<1>4. Phase[e] = "parked"
  BY <1>1, PhaseValues DEF Phase
<1>5. UNCHANGED <<before, delivered, Begun>>
  BY <1>1, BegunKept
<1> QED BY <1>2, <1>3, <1>4, <1>5, PhaseValues DEF Contract!Requeue

(* Heartbeats, expiries and crashes are not visible in the contract.       *)
LEMMA OtherStepsRefine ==
  ASSUME Inv,
         \/ \E d \in dispatches : Renew(d)
         \/ \E e \in Events : Elapse(e)
         \/ \E w \in Workers : Crash(w)
  PROVE  UNCHANGED Contract!vars
<1>1. UNCHANGED <<before, claims, delivered>>
  BY DEF Renew, Elapse, Crash
<1>2. \A x \in Events : row'[x].status = row[x].status
  <2>1. TypeOK /\ \A d \in dispatches : d.event \in Events
    BY DEF Inv, TypeOK, Dispatches
  <2>2. row' = row \/ \E e \in Events, b \in BOOLEAN : row' = [row EXCEPT ![e].due = b]
    BY <2>1 DEF Renew, Elapse, Crash
  <2>3. ASSUME NEW e \in Events, NEW b \in BOOLEAN, row' = [row EXCEPT ![e].due = b]
        PROVE  \A x \in Events : row'[x].status = row[x].status
    BY <2>1, <2>3 DEF TypeOK, Rows
  <2> QED BY <2>2, <2>3
<1>3. Phase' = Phase
  BY <1>2, PhaseKept
<1> QED BY <1>1, <1>3, BegunKept DEF Contract!vars

LEMMA NextRefines == Inv /\ [Next]_vars => [Contract!Next]_(Contract!vars)
<1> SUFFICES ASSUME Inv, [Next]_vars PROVE Contract!Next \/ UNCHANGED Contract!vars
  OBVIOUS
<1>1. \A d \in dispatches : d.event \in Events
  BY DEF Inv, TypeOK, Dispatches
<1>2. CASE UNCHANGED vars
  BY <1>2 DEF vars, Contract!vars, Phase, Begun
<1>3. CASE \E e \in Events : Enqueue(e)
  BY <1>3, EnqueueRefines DEF Contract!Next
<1>4. CASE \E e \in Events : RequeueDeadLetter(e) \/ EnsureAggregateEventScheduled(e)
  BY <1>4, RequeueRefines DEF Contract!Next, RequeueDeadLetter, EnsureAggregateEventScheduled
<1>5. CASE \E w \in Workers : Claim(w)
  BY <1>5, ClaimRefines DEF Contract!Next
<1>6. CASE \E d \in dispatches : DispatchStep(d)
  BY <1>1, <1>6, ListenersSettleRefines, CompleteRefines, RescheduleRefines
     DEF Contract!Next, DispatchStep
<1>7. CASE \/ \E d \in dispatches : Renew(d)
           \/ \E e \in Events : Elapse(e)
           \/ \E w \in Workers : Crash(w)
  BY <1>7, OtherStepsRefine
<1> QED BY <1>2, <1>3, <1>4, <1>5, <1>6, <1>7 DEF Next

(* The outbox implements at-least-once delivery in the order of each       *)
(* aggregate.                                                              *)
THEOREM Refines == Spec => ImplementsOrderedDelivery
<1> QED BY InitRefines, InitInv, NextInv, NextRefines, PTL
        DEF Spec, ImplementsOrderedDelivery, Contract!Spec
-------------------------------------------------------------------------------
(* The body of OnlyOwnerSettles: an event that leaves processing does so   *)
(* by a dispatch of the process that held its lease, and that dispatch is  *)
(* gone, or has moved on, with it.                                         *)
SettledByOwner ==
  \A e \in Events :
    row[e].status = "processing" /\ row'[e].status # "processing" =>
      \E d \in dispatches : /\ d.event = e
                            /\ d.worker = row[e].lockedBy
                            /\ d \notin dispatches'

(* A step whose rows are those of a guarded update, or none, settles for   *)
(* the owner when it also drops the dispatch that made the update.         *)
LEMMA GuardedUpdateByOwner ==
  ASSUME TypeOK, NEW d \in dispatches, NEW s \in {"pending", "completed", "dead"},
         row' \in {row, Settled(d, s)}, d \notin dispatches'
  PROVE  SettledByOwner
<1> SUFFICES ASSUME NEW e \in Events, row[e].status = "processing",
                    row'[e].status # "processing"
             PROVE  d.event = e /\ d.worker = row[e].lockedBy
  BY DEF SettledByOwner
<1>1. row' = Settled(d, s) /\ Settled(d, s)[e] # row[e]
  OBVIOUS
<1> QED BY <1>1, SettledRow

(* A completion that was not confirmed moves its dispatch on.              *)
LEMMA CompleteByOwner ==
  ASSUME TypeOK, NEW d \in dispatches, Complete(d)
  PROVE  SettledByOwner
<1>1. row' \in {row, Settled(d, "completed")}
  BY DEF Complete
<1>2. d \notin dispatches'
  <2>1. d \in Dispatches /\ d.stage = "completing"
    BY DEF TypeOK, Complete
  <2>2. [d EXCEPT !.stage = "rescheduling"] # d
    BY <2>1 DEF Dispatches
  <2> QED BY <2>2 DEF Complete, Become
<1> QED BY <1>1, <1>2, GuardedUpdateByOwner

(* A dispatch that rejects is not among those it leaves running.           *)
LEMMA RejectedIsGone ==
  ASSUME TypeOK, NEW d \in dispatches
  PROVE  d \notin Unawaited(d)
<1> SUFFICES ASSUME NEW o \in dispatches \ {d},
                    d = IF d.awaited /\ o.worker = d.worker
                          THEN [o EXCEPT !.awaited = FALSE] ELSE o
             PROVE  FALSE
  BY DEF Unawaited
<1>1. d.awaited /\ d = [o EXCEPT !.awaited = FALSE]
  OBVIOUS
<1>2. o \in Dispatches
  BY DEF TypeOK
<1>3. [o EXCEPT !.awaited = FALSE].awaited = FALSE
  BY <1>2 DEF Dispatches
<1> QED BY <1>1, <1>3

LEMMA RescheduleByOwner ==
  ASSUME TypeOK, NEW d \in dispatches, Reschedule(d)
  PROVE  SettledByOwner
<1> DEFINE s == IF GiveUp(d) THEN "dead" ELSE "pending"
<1>1. row' \in {row, Settled(d, s)}
  BY DEF Reschedule
<1>2. s \in {"pending", "completed", "dead"}
  OBVIOUS
<1>3. d \notin dispatches'
  BY RejectedIsGone DEF Reschedule
<1> HIDE DEF s
<1> QED BY <1>1, <1>2, <1>3, GuardedUpdateByOwner

(* No other step takes an event out of processing.                         *)
LEMMA OthersSettleNothing ==
  ASSUME TypeOK,
         \/ \E e \in Events : \/ Enqueue(e)
                              \/ Elapse(e)
                              \/ RequeueDeadLetter(e)
                              \/ EnsureAggregateEventScheduled(e)
         \/ \E w \in Workers : Claim(w) \/ Crash(w)
         \/ \E d \in dispatches : Renew(d) \/ ListenersSettle(d)
  PROVE  SettledByOwner
<1> SUFFICES ASSUME NEW x \in Events, row[x].status = "processing"
             PROVE  row'[x].status = "processing"
  BY DEF SettledByOwner
<1>1. row \in [Events -> Rows]
  BY DEF TypeOK
<1>2. CASE \E e \in Events : \/ Enqueue(e)
                             \/ RequeueDeadLetter(e)
                             \/ EnsureAggregateEventScheduled(e)
  <2> PICK e \in Events : \/ Enqueue(e)
                          \/ RequeueDeadLetter(e)
                          \/ EnsureAggregateEventScheduled(e)
    BY <1>2
  <2>1. row[e].status \in {"absent", "dead"} /\ \E r : row' = [row EXCEPT ![e] = r]
    BY DEF Enqueue, RequeueDeadLetter, EnsureAggregateEventScheduled, Requeued
  <2> QED BY <1>1, <2>1
<1>3. CASE \E e \in Events : Elapse(e)
  BY <1>3, DueRow DEF Elapse
<1>4. CASE \E w \in Workers : Claim(w)
  BY <1>1, <1>4 DEF Claim
<1>5. CASE \E d \in dispatches : Renew(d)
  <2> PICK d \in dispatches : Renew(d)
    BY <1>5
  <2>1. d.event \in Events
    BY DEF TypeOK, Dispatches
  <2> QED BY <2>1, DueRow DEF Renew
<1>6. CASE \/ \E w \in Workers : Crash(w)
           \/ \E d \in dispatches : ListenersSettle(d)
  BY <1>6 DEF Crash, ListenersSettle
<1> QED BY <1>2, <1>3, <1>4, <1>5, <1>6

(* Only the process that holds the lease takes an event out of processing. *)
THEOREM OnlyOwnerSettlesCorrect == Spec => OnlyOwnerSettles
<1>1. Inv /\ [Next]_vars => [SettledByOwner]_vars
  <2> SUFFICES ASSUME TypeOK, Next PROVE SettledByOwner
    BY DEF Inv
  <2>1. CASE \E d \in dispatches : Complete(d) \/ Reschedule(d)
    BY <2>1, CompleteByOwner, RescheduleByOwner
  <2> QED BY <2>1, OthersSettleNothing DEF Next, DispatchStep
<1> QED BY <1>1, InitInv, NextInv, PTL DEF Spec, OnlyOwnerSettles, SettledByOwner
==============================================================================
