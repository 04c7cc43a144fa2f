-------------------------- MODULE FindingProjectionProps --------------------------
(***************************************************************************)
(* What triage promises to the people who change it and to the readers of  *)
(* its projection.                                                         *)
(***************************************************************************)
EXTENDS FindingProjection

Versions == 0 .. MaxVersion
Times    == 0 .. MaxClock
Entries  == SUBSET (Findings \X Versions)

BatchType ==
  [step   : {"idle", "resolved", "listed", "inspected", "marked"},
   cursor : Findings \union {0}, cutoff : Times, failed : Nat, began : Nat,
   page   : Entries, stale : Entries, doneAt : Times]

CheckType ==
  [step    : {"idle", "reconciled", "marked"},
   asked   : [Findings -> Versions], quiet : BOOLEAN,
   through : Times, doneAt : Times, uuid : Nat]

(* Records, index, watermark, state, batches and checks have their types.  *)
(* Nothing is projected that was not committed, and the watermark names an *)
(* index that exists and a cycle that had begun.                           *)
TypeOK ==
  /\ clock \in 1 .. MaxClock
  /\ record \in [Findings -> [version : Versions, at : Times]]
  /\ change \in [Findings -> Times]
  /\ committed \in [Events -> Times]
  /\ projected \subseteq Events
  /\ index \in [uuid : Nat, version : [Findings -> Versions]]
  /\ \A f \in Findings : index.version[f] <= record[f].version
  /\ mark \in [uuid : Nat, through : Times, doneAt : Times, failed : Nat, began : Nat]
  /\ mark.began <= mark.uuid /\ mark.uuid <= index.uuid /\ mark.through <= mark.doneAt
  /\ state \in [cursor : Findings \union {0}, cutoff : Times, failed : Nat, began : Nat,
                through : Times, doneAt : Times]
  /\ batch \in [Batches -> BatchType]
  /\ check \in CheckType
  /\ incidents \in 0 .. MaxIncidents

(* The outbox has completed the event of version v although its listener   *)
(* has not projected it, because it failed or is still at work; and no     *)
(* cycle that began at the given time or before had to see the version.    *)
Forgone(f, v, time) ==
  LET e == EventOf(f, v)
  IN phase[e] = "done" /\ e \notin projected /\ committed[e] >= time

(* A health check that answers "available" speaks the truth: every change  *)
(* committed before it began to read is in the index its watermark names,  *)
(* if it was committed before the cycle of that watermark began, whatever  *)
(* the outbox did with it, or if its listener has projected it.  The check *)
(* reads the outbox, the state and the watermark one by one, while changes *)
(* are committed late, events are parked, listeners fail unheard,          *)
(* processes lose their lock and the index is rebuilt.  Excepted is an     *)
(* index rebuilt in the middle of a cycle: the UUID is read when the       *)
(* watermark is written, not when the cycle begins                         *)
(* (security-analytics.service.ts:535-545).                                *)
HealthIsTrue ==
  LET uuid == IF check.step = "marked" THEN check.uuid ELSE Witnessed
  IN Available /\ uuid = index.uuid =>
       \A f \in Findings :
         \/ index.version[f] >= check.asked[f]
         \/ Forgone(f, check.asked[f], check.through)

(* Whatever was parked, aborted or rebuilt, the reconciler brings the      *)
(* projection up to the records, and the health of the organization comes  *)
(* back unless an event is outstanding.                                    *)
InSync == \A f \in Findings : index.version[f] = record[f].version

Untriaged == \A f \in Findings : record[f].version = 0

Recovers ==
  /\ <>[]InSync
  /\ []<>(Untriaged \/ EventLag \/ (Reconciled /\ MarkMatches(state)))
==============================================================================
