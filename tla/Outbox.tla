-------------------------------- MODULE Outbox --------------------------------
(***************************************************************************)
(* The transactional outbox (backend/src/outbox): rows of outbox_events,   *)
(* claimed with a lease by the backend processes, handed to in-process     *)
(* listeners, and completed, rescheduled or dead-lettered.                 *)
(*                                                                         *)
(* One SQL statement is one step; what a process does between two          *)
(* statements interleaves with every other process.  Time is abstracted to *)
(* a flag: a row is "due" when its available_at has passed or its lease    *)
(* has run out.                                                            *)
(***************************************************************************)
EXTENDS Naturals, FiniteSets

CONSTANTS
  Events,       \* the events, numbered in the order of (created_at, id)
  AggregateOf,  \* per event, its organization, aggregate type and aggregate id
  Workers,      \* the workerIds of the backend processes; a restart is a new one
  NoWorker,     \* NULL, where a workerId is expected
  MaxAttempts,  \* max_attempts
  MaxFaults,    \* bound: crashes, database errors and stalled heartbeats
  MaxRequeues   \* bound: dead letters requeued

ASSUME EventsAssumption == Events \subseteq Nat
ASSUME NoWorkerAssumption == NoWorker \notin Workers
ASSUME MaxAttemptsAssumption == MaxAttempts \in Nat \ {0}

VARIABLES
  row,         \* the table: per event its status, attempts, locked_by, and due
  dispatches,  \* the dispatch() calls in progress
  alive,       \* the processes that have not crashed
  before,      \* history: the older events of the aggregate an event was committed after
  claims,      \* history: how often an event was claimed
  delivered,   \* history: events for which emitAsync resolved at least once
  faults,      \* faults so far
  requeues     \* requeues so far

vars == <<row, dispatches, alive, before, claims, delivered, faults, requeues>>

Older(e) == {p \in Events : p < e /\ AggregateOf[p] = AggregateOf[e]}

Init ==
  /\ row = [e \in Events |->
              [status |-> "absent", attempts |-> 0, lockedBy |-> NoWorker, due |-> FALSE]]
  /\ dispatches = {}
  /\ alive = Workers
  /\ before = [e \in Events |-> {}]
  /\ claims = [e \in Events |-> 0]
  /\ delivered = {}
  /\ faults = 0
  /\ requeues = 0

NoFault == UNCHANGED faults

Fault ==
  /\ faults < MaxFaults
  /\ faults' = faults + 1

(* The transaction that enqueues e commits.  created_at is the time its    *)
(* transaction began, so events may be committed out of their order.       *)
(* (An existing dedupe key makes the insert do nothing.)                   *)
Enqueue(e) ==
  /\ row[e].status = "absent"
  /\ \E due \in BOOLEAN :
       row' = [row EXCEPT ![e] = [status |-> "pending", attempts |-> 0,
                                  lockedBy |-> NoWorker, due |-> due]]
  /\ before' = [before EXCEPT ![e] = {p \in Older(e) : row[p].status # "absent"}]
  /\ UNCHANGED <<dispatches, alive, claims, delivered, faults, requeues>>

(***************************************************************************)
(* Claiming.                                                               *)
(***************************************************************************)

\* Mutant: a dead letter no longer holds its aggregate back.
DeadDoesNotBlock(e) == \A p \in Older(e) : row[p].status \notin {"pending", "processing"}

(* No older event of the aggregate is unfinished (the NOT EXISTS clause).  *)
HeadOfAggregate(e) == \A p \in Older(e) : row[p].status \notin {"pending", "processing", "dead"}

\* Mutant: an event whose lease has run out is not claimed again.
ClaimablePending(e) ==
  /\ row[e].status = "pending"
  /\ row[e].due
  /\ HeadOfAggregate(e)

(* Pending and available, or processing with an expired lease.             *)
Claimable(e) ==
  /\ row[e].status \in {"pending", "processing"}
  /\ row[e].due
  /\ HeadOfAggregate(e)

(* drainOnce is awaiting the dispatches of its batch.                      *)
Draining(w) == \E d \in dispatches : d.worker = w /\ d.awaited

Dispatch(e, w) ==
  [event |-> e, worker |-> w, claim |-> claims[e] + 1, attempt |-> row[e].attempts + 1,
   stage |-> "listening", lost |-> FALSE, awaited |-> TRUE]

(* drainOnce and claimBatch.  SKIP LOCKED and the limit may leave any of   *)
(* the claimable rows out.  When the answer of the statement is lost the   *)
(* rows stay locked and nothing dispatches them.                           *)
Claim(w) ==
  /\ w \in alive
  /\ ~Draining(w)
  /\ \E S \in SUBSET {e \in Events : Claimable(e)} :
       /\ S # {}
       /\ row' = [e \in Events |->
            IF e \in S
              THEN [status |-> "processing", attempts |-> row[e].attempts + 1,
                    lockedBy |-> w, due |-> FALSE]
              ELSE row[e]]
       /\ claims' = [e \in Events |-> IF e \in S THEN claims[e] + 1 ELSE claims[e]]
       /\ \/ NoFault /\ dispatches' = dispatches \union {Dispatch(e, w) : e \in S}
          \/ Fault /\ UNCHANGED dispatches
  /\ UNCHANGED <<alive, before, delivered, requeues>>

(***************************************************************************)
(* Dispatching: the heartbeat, the listeners, and the settlement.          *)
(***************************************************************************)

\* Mutant: the update is not guarded by locked_by.
OwnsAnyLease(d) == row[d.event].status = "processing"

(* The WHERE clause of renewLease, markCompleted and reschedule.           *)
Owns(d) == row[d.event].status = "processing" /\ row[d.event].lockedBy = d.worker

Become(d, new) == dispatches' = (dispatches \ {d}) \union {new}

(* A heartbeat while the listeners run.  Once it failed there are no more. *)
Renew(d) ==
  LET renewed == [row EXCEPT ![d.event].due = FALSE]
      failed  == [d EXCEPT !.lost = TRUE]
  IN  /\ d.stage = "listening"
      /\ ~d.lost
      /\ \/ Owns(d)  /\ NoFault /\ row' = renewed /\ UNCHANGED dispatches
         \/ ~Owns(d) /\ NoFault /\ UNCHANGED row /\ Become(d, failed)
         \/ /\ Fault
            /\ UNCHANGED row \/ (Owns(d) /\ row' = renewed)
            /\ Become(d, failed)
      /\ UNCHANGED <<alive, before, claims, delivered, requeues>>

\* Mutant: an emitAsync that rejects does not fail the dispatch.
CompleteAlways(d, ok) == IF d.lost THEN "rescheduling" ELSE "completing"

(* What dispatch() does once emitAsync has settled and the heartbeat has   *)
(* stopped.                                                                *)
NextStage(d, ok) == IF ok /\ ~d.lost THEN "completing" ELSE "rescheduling"

(* emitAsync resolves or rejects.  Which errors of a listener make it      *)
(* reject is the event library's affair; an event without listeners is     *)
(* rejected here.                                                          *)
ListenersSettle(d) ==
  /\ d.stage = "listening"
  /\ \E ok \in BOOLEAN :
       /\ Become(d, [d EXCEPT !.stage = NextStage(d, ok)])
       /\ delivered' = IF ok THEN delivered \union {d.event} ELSE delivered
  /\ UNCHANGED <<row, alive, before, claims, faults, requeues>>

\* Mutant: the settlement leaves locked_by behind.
KeepsLock(d, status) ==
  IF Owns(d) THEN [row EXCEPT ![d.event] = [@ EXCEPT !.status = status, !.due = FALSE]]
             ELSE row

(* The row after an update that is guarded by the lease.                   *)
Settled(d, status) ==
  IF Owns(d) THEN [row EXCEPT ![d.event] = [@ EXCEPT !.status = status,
                                                     !.lockedBy = NoWorker,
                                                     !.due = FALSE]]
             ELSE row

(* markCompleted; when the database fails, whether or not it applied the   *)
(* update, dispatch() goes on to reschedule.                               *)
Complete(d) ==
  LET completed == Settled(d, "completed")
  IN  /\ d.stage = "completing"
      /\ \/ NoFault /\ row' = completed /\ dispatches' = dispatches \ {d}
         \/ /\ Fault
            /\ row' \in {row, completed}
            /\ Become(d, [d EXCEPT !.stage = "rescheduling"])
      /\ UNCHANGED <<alive, before, claims, delivered, requeues>>

GiveUp(d) == d.attempt >= MaxAttempts

(* When an awaited dispatch rejects, so does the Promise.all of its batch: *)
(* drainOnce ends while the other dispatches of the batch are running.     *)
Unawaited(d) ==
  {IF d.awaited /\ o.worker = d.worker THEN [o EXCEPT !.awaited = FALSE] ELSE o :
     o \in dispatches \ {d}}

(* reschedule; when the database fails, dispatch() rejects.                *)
Reschedule(d) ==
  LET rescheduled == Settled(d, IF GiveUp(d) THEN "dead" ELSE "pending")
  IN  /\ d.stage = "rescheduling"
      /\ \/ NoFault /\ row' = rescheduled /\ dispatches' = dispatches \ {d}
         \/ /\ Fault
            /\ row' \in {row, rescheduled}
            /\ dispatches' = Unawaited(d)
      /\ UNCHANGED <<alive, before, claims, delivered, requeues>>

(***************************************************************************)
(* Time, crashes and operators.                                            *)
(***************************************************************************)

(* No dispatch of the process that holds the lease of e renews it.         *)
Abandoned(e) ==
  ~ \E d \in dispatches : d.event = e /\ d.worker = row[e].lockedBy /\ ~d.lost

(* available_at passes, or a lease runs out.  A live dispatch renews its   *)
(* lease five times before it runs out: only a stall of the process or of  *)
(* the database lets it.                                                   *)
Elapse(e) ==
  /\ row[e].status \in {"pending", "processing"}
  /\ ~row[e].due
  /\ \/ NoFault /\ (row[e].status = "pending" \/ Abandoned(e))
     \/ Fault /\ row[e].status = "processing" /\ ~Abandoned(e)
  /\ row' = [row EXCEPT ![e].due = TRUE]
  /\ UNCHANGED <<dispatches, alive, before, claims, delivered, requeues>>

(* A process dies.  Some process always runs: the deployment restarts it,  *)
(* with a new workerId.                                                    *)
Crash(w) ==
  /\ w \in alive
  /\ alive # {w}
  /\ Fault
  /\ alive' = alive \ {w}
  /\ dispatches' = {d \in dispatches : d.worker # w}
  /\ UNCHANGED <<row, before, claims, delivered, requeues>>

Requeued(e) ==
  /\ row[e].status = "dead"
  /\ requeues < MaxRequeues
  /\ requeues' = requeues + 1
  /\ row' = [row EXCEPT ![e] = [status |-> "pending", attempts |-> 0,
                                lockedBy |-> NoWorker, due |-> TRUE]]
  /\ UNCHANGED <<dispatches, alive, before, claims, delivered, faults>>

(* An operator requeues any dead letter of the organization.               *)
RequeueDeadLetter(e) == Requeued(e)

(* Reconnecting an integration requeues the oldest dead letter of an       *)
(* aggregate (whatever its type; the type only decides the answer).        *)
EnsureAggregateEventScheduled(e) ==
  /\ \A p \in Older(e) : row[p].status # "dead"
  /\ Requeued(e)

(***************************************************************************)
(* The specification.                                                      *)
(***************************************************************************)
DispatchStep(d) == ListenersSettle(d) \/ Complete(d) \/ Reschedule(d)

Next ==
  \/ \E e \in Events : \/ Enqueue(e)
                       \/ Elapse(e)
                       \/ RequeueDeadLetter(e)
                       \/ EnsureAggregateEventScheduled(e)
  \/ \E w \in Workers : Claim(w) \/ Crash(w)
  \/ \E d \in dispatches : Renew(d) \/ DispatchStep(d)

Spec == Init /\ [][Next]_vars

(* The poll timer keeps draining, listeners settle (their calls have       *)
(* timeouts), and time passes.                                             *)
FairSpec ==
  /\ Spec
  /\ WF_vars(\E w \in Workers : Claim(w))
  /\ WF_vars(\E d \in dispatches : DispatchStep(d))
  /\ WF_vars(NoFault /\ \E e \in Events : Elapse(e))
==============================================================================
