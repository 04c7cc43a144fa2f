-------------------------- MODULE FindingProjection --------------------------
(***************************************************************************)
(* The projection of finding triage, for one organization.  PostgreSQL     *)
(* holds the triage records; OpenSearch holds a copy of them that lists    *)
(* and searches read.  A change is committed together with an outbox       *)
(* event, whose listener projects it; a reconciler in each backend         *)
(* compares the copy with the records every five minutes and repairs it;   *)
(* a health check tells readers whether to trust it                        *)
(* (backend/src/findings, backend/src/analytics).                          *)
(*                                                                         *)
(* The outbox is used by its contract, OrderedDelivery: version v of a     *)
(* finding is an event of the finding's aggregate.  The listener's work is *)
(* apart from its event: handleProjection is bound by @OnEvent without     *)
(* suppressErrors, so the event library logs its error and emitAsync       *)
(* resolves; the event is completed before, after or without a projection. *)
(***************************************************************************)
EXTENDS Naturals, FiniteSets

CONSTANTS
  Findings,     \* numbers, in the order of the ids of their records
  PageSize,     \* records the reconciler reads in one batch
  MaxVersion,   \* bound: changes of one finding
  MaxClock,     \* bound: distinct times
  MaxIncidents, \* bound: failures of calls, processes and sessions, rebuilds,
                \* and changes of a finding after its first
  MaxBeforeLoss \* bound: incidents before a session is lost

ASSUME FindingsAssumption == Findings \subseteq Nat \ {0} /\ IsFiniteSet(Findings)
ASSUME BoundsAssumption ==
  /\ PageSize \in Nat \ {0}
  /\ MaxVersion \in Nat \ {0}
  /\ MaxClock \in Nat \ {0}
  /\ MaxIncidents \in Nat \ {0}
  /\ MaxBeforeLoss \in Nat

Batches == {"locked", "orphan"}
Events  == {(f - 1) * MaxVersion + v : f \in Findings, v \in 1 .. MaxVersion}

FindingOf(e) == ((e - 1) \div MaxVersion) + 1

\* Mutant: the payload carries the version after its own.
NextVersionOf(e) == ((e - 1) % MaxVersion) + 2

VersionOf(e) == ((e - 1) % MaxVersion) + 1

EventOf(f, v) == (f - 1) * MaxVersion + v

VARIABLES
  clock,    \* new Date(), the same for every backend
  record,   \* finding_triage: the version (0: no row) and updatedAt
  change,   \* per finding, updatedAt of the change that is being committed
  phase, before, begun, delivered,  \* the outbox
  index,    \* the observation index: its UUID and the projected versions
  mark,     \* the completion watermark in the control index
  state,    \* finding_projection_reconciliation
  batch,    \* the batch under the lock, and one whose session has lost it
  check,    \* a reader's health check
  committed, \* history: per event, when its change was committed
  projected, \* history: events that their listener has projected
  incidents \* incidents so far

outbox   == <<phase, before, begun, delivered>>
triage   == <<record, change, committed>>
recon    == <<mark, state, batch>>
vars     == <<clock, triage, outbox, index, recon, check, projected, incidents>>

Outbox == INSTANCE OrderedDelivery WITH AggregateOf <- [e \in Events |-> FindingOf(e)]

NoBatch == [step |-> "idle", cursor |-> 0, cutoff |-> 0, failed |-> 0,
            began |-> 0, page |-> {}, stale |-> {}, doneAt |-> 0]
NoCheck == [step |-> "idle", asked |-> [f \in Findings |-> 0], quiet |-> FALSE,
            through |-> 0, doneAt |-> 0, uuid |-> 0]

Init ==
  /\ clock = 1
  /\ record = [f \in Findings |-> [version |-> 0, at |-> 0]]
  /\ change = [f \in Findings |-> 0]
  /\ Outbox!Init
  /\ index = [uuid |-> 1, version |-> [f \in Findings |-> 0]]
  /\ mark = [uuid |-> 0, through |-> 0, doneAt |-> 0, failed |-> 0, began |-> 0]
  /\ state = [cursor |-> 0, cutoff |-> 0, failed |-> 0, began |-> 0, through |-> 0, doneAt |-> 0]
  /\ batch = [b \in Batches |-> NoBatch]
  /\ check = NoCheck
  /\ committed = [e \in Events |-> 0]
  /\ projected = {}
  /\ incidents = 0

NoIncident == UNCHANGED incidents

Incident ==
  /\ incidents < MaxIncidents
  /\ incidents' = incidents + 1

Tick ==
  /\ clock < MaxClock
  /\ clock' = clock + 1
  /\ UNCHANGED <<triage, outbox, index, recon, check, projected, incidents>>

(***************************************************************************)
(* A change of triage: commitWithRetry and commitChange.  The update is    *)
(* conditioned on the version that was read, so of two changes at the same *)
(* time one begins anew; only the one that commits is modelled.            *)
(***************************************************************************)
triageFrame == <<clock, index, recon, check, projected>>

(* updatedAt is read before anything is written.                           *)
BeginChange(f) ==
  /\ change[f] = 0
  /\ record[f].version < MaxVersion
  /\ change' = [change EXCEPT ![f] = clock]
  /\ IF record[f].version = 0 THEN NoIncident ELSE Incident
  /\ UNCHANGED <<triageFrame, record, committed, outbox>>

(* The record and its projection event commit together.                    *)
CommitChange(f) ==
  LET v == record[f].version + 1
  IN /\ change[f] # 0
     /\ record' = [record EXCEPT ![f] = [version |-> v, at |-> change[f]]]
     /\ change' = [change EXCEPT ![f] = 0]
     /\ committed' = [committed EXCEPT ![EventOf(f, v)] = clock]
     /\ Outbox!Enqueue(EventOf(f, v))
     /\ UNCHANGED <<triageFrame, incidents>>

(***************************************************************************)
(* The projection and its listener: projectFindingTriage and              *)
(* handleProjection.                                                       *)
(***************************************************************************)
projectFrame == <<clock, triage, recon, check>>

(* The script keeps a newer version that is already there.                 *)
Projected(f, v) == [index EXCEPT !.version[f] = IF @ < v THEN v ELSE @]

(* emitAsync resolves whatever becomes of the listener's run.              *)
Dispatch(e) ==
  /\ Outbox!Begin(e)
  /\ begun' = begun \union {e}
  /\ delivered' = delivered \union {e}
  /\ UNCHANGED <<projectFrame, phase, before, index, projected, incidents>>

(* A run of the listener writes, at any time after the dispatch, perhaps   *)
(* again.  One whose call fails or whose process dies never does, and      *)
(* nobody hears of it.                                                     *)
HandleProjection(e) ==
  /\ e \in begun
  /\ index' = Projected(FindingOf(e), VersionOf(e))
  /\ projected' = projected \union {e}
  /\ UNCHANGED <<projectFrame, outbox, incidents>>

Settle(e) ==
  /\ Outbox!Finish(e)
  /\ UNCHANGED <<projectFrame, index, projected, incidents>>

Park(e) ==
  /\ Outbox!Park(e)
  /\ Incident
  /\ UNCHANGED <<projectFrame, index, projected>>

Requeue(e) ==
  /\ Outbox!Requeue(e)
  /\ UNCHANGED <<projectFrame, index, projected, incidents>>

(* The observation index is deleted and its documents are indexed anew,    *)
(* without triage.                                                         *)
Rebuild ==
  /\ Incident
  /\ index' = [uuid |-> index.uuid + 1, version |-> [f \in Findings |-> 0]]
  /\ UNCHANGED <<projectFrame, outbox, projected>>

(***************************************************************************)
(* The reconciler: one batch of the organization, under the lock.  The     *)
(* lock is released with the last write of the batch.  A process whose     *)
(* database session dies has lost the lock and does not know it.           *)
(***************************************************************************)
batchFrame == <<clock, triage, outbox, check, projected>>

In(p, step) == batch[p].step = step

\* Mutant: a new cycle keeps the count of failures of the last one.
FailuresKept == [cursor |-> 0, cutoff |-> clock, failed |-> state.failed, began |-> index.uuid]

NewCycle == [cursor |-> 0, cutoff |-> clock, failed |-> 0, began |-> index.uuid]

(* resolveCycle: an unfinished cycle goes on where its last batch ended,   *)
(* whichever process ran it.                                               *)
Cycle ==
  IF state.cursor # 0
    THEN [cursor |-> state.cursor, cutoff |-> state.cutoff,
          failed |-> state.failed, began |-> state.began]
    ELSE NewCycle

(* A process that gets the lock reads the state of the cycle; one that     *)
(* does not skips the batch.                                               *)
StartBatch ==
  /\ In("locked", "idle")
  /\ batch' = [batch EXCEPT !["locked"] = [NoBatch EXCEPT
       !.step = "resolved", !.cursor = Cycle.cursor, !.cutoff = Cycle.cutoff,
       !.failed = Cycle.failed, !.began = Cycle.began]]
  /\ UNCHANGED <<batchFrame, index, mark, state, incidents>>

(* listProjectionPage: the records after the cursor that were updated by   *)
(* the cutoff, at most a page of them.                                     *)
Listed(cursor, cutoff) ==
  LET due == {f \in Findings : record[f].version > 0 /\ record[f].at <= cutoff /\ f > cursor}
  IN {f \in due : Cardinality({g \in due : g < f}) < PageSize}

ListPage(p) ==
  /\ In(p, "resolved")
  /\ batch' = [batch EXCEPT ![p].step = "listed",
       ![p].page = {<<f, record[f].version>> : f \in Listed(batch[p].cursor, batch[p].cutoff)}]
  /\ UNCHANGED <<batchFrame, index, mark, state, incidents>>

(* The page is compared with the index; what is older there is projected   *)
(* again.  When the comparison fails the whole page counts as failed.      *)
Inspect(p) ==
  /\ In(p, "listed")
  /\ \/ /\ batch' = [batch EXCEPT ![p].step = "inspected",
             ![p].stale = {r \in batch[p].page : index.version[r[1]] < r[2]}]
        /\ NoIncident
     \/ /\ batch' = [batch EXCEPT ![p].step = "inspected",
             ![p].failed = @ + Cardinality(batch[p].page)]
        /\ Incident
  /\ UNCHANGED <<batchFrame, index, mark, state>>

(* A projection that is rejected counts as failed; it may have been        *)
(* written all the same.                                                   *)
ProjectStale(p) ==
  /\ In(p, "inspected")
  /\ \E r \in batch[p].stale :
       \/ /\ index' = Projected(r[1], r[2])
          /\ batch' = [batch EXCEPT ![p].stale = @ \ {r}]
          /\ NoIncident
       \/ /\ index' \in {index, Projected(r[1], r[2])}
          /\ batch' = [batch EXCEPT ![p].stale = @ \ {r}, ![p].failed = @ + 1]
          /\ Incident
  /\ UNCHANGED <<batchFrame, mark, state>>

PageDone(p) == In(p, "inspected") /\ batch[p].stale = {}

FullPage(p) == Cardinality(batch[p].page) = PageSize

(* After a full page the cycle is not over: the id of its last record is   *)
(* saved as the cursor.                                                    *)
SaveCursor(p) ==
  /\ PageDone(p)
  /\ FullPage(p)
  /\ \E f \in {r[1] : r \in batch[p].page} :
       /\ \A r \in batch[p].page : r[1] <= f
       /\ state' = [state EXCEPT !.cursor = f, !.cutoff = batch[p].cutoff,
                                 !.failed = batch[p].failed, !.began = batch[p].began]
  /\ batch' = [batch EXCEPT ![p] = NoBatch]
  /\ UNCHANGED <<batchFrame, index, mark, incidents>>

(* The cycle is complete: the watermark carries the UUID the index has now.*)
WriteWatermark(p) ==
  /\ PageDone(p)
  /\ ~FullPage(p)
  /\ mark' = [uuid |-> index.uuid, through |-> batch[p].cutoff, doneAt |-> clock,
              failed |-> batch[p].failed, began |-> batch[p].began]
  /\ batch' = [batch EXCEPT ![p].step = "marked", ![p].doneAt = clock]
  /\ UNCHANGED <<batchFrame, index, state, incidents>>

Completed(b) ==
  [cursor |-> 0, cutoff |-> 0, failed |-> b.failed, began |-> 0,
   through |-> b.cutoff, doneAt |-> b.doneAt]

SaveCompleted(p) ==
  /\ In(p, "marked")
  /\ state' = Completed(batch[p])
  /\ batch' = [batch EXCEPT ![p] = NoBatch]
  /\ UNCHANGED <<batchFrame, index, mark, incidents>>

(* The process stops, or a call of the batch throws.                       *)
Abort(p) ==
  /\ ~In(p, "idle")
  /\ Incident
  /\ batch' = [batch EXCEPT ![p] = NoBatch]
  /\ UNCHANGED <<batchFrame, index, mark, state>>

(* The session that holds the lock dies; the batch goes on, and another    *)
(* process may get the lock.  Bound: explored on the first index, as the   *)
(* last incident.                                                          *)
LoseSession ==
  /\ ~In("locked", "idle")
  /\ index.uuid = 1 /\ incidents < MaxIncidents /\ incidents <= MaxBeforeLoss
  /\ incidents' = MaxIncidents
  /\ batch' = [locked |-> NoBatch, orphan |-> batch["locked"]]
  /\ UNCHANGED <<batchFrame, index, mark, state>>

(***************************************************************************)
(* The health check: getProjectionHealth of the query service, which reads *)
(* the outbox while the triage service reads state and watermark.          *)
(***************************************************************************)
checkFrame == <<clock, triage, outbox, index, recon, projected, incidents>>

(* The changes that were committed when the check began to read.           *)
Begun == IF check = NoCheck THEN [f \in Findings |-> record[f].version] ELSE check.asked

\* Mutant: a dead letter does not count as outstanding.
Undelivered == \E e \in Events : phase[e] = "queued"

EventLag == \E e \in Events : phase[e] \in {"queued", "parked"}

ReadOutbox ==
  /\ ~check.quiet
  /\ check' = IF EventLag \/ check.step = "marked"
       THEN NoCheck ELSE [check EXCEPT !.quiet = TRUE, !.asked = Begun]
  /\ UNCHANGED checkFrame

(* A cycle was completed, nothing failed, nothing is in progress, nothing  *)
(* changed since.                                                          *)
Reconciled ==
  /\ state.through # 0
  /\ state.cursor = 0
  /\ state.failed = 0
  /\ \A f \in Findings : record[f].at <= state.through

ReadState ==
  /\ check.step = "idle"
  /\ check' = IF Reconciled
       THEN [check EXCEPT !.step = "reconciled", !.asked = Begun,
                          !.through = state.through, !.doneAt = state.doneAt]
       ELSE NoCheck
  /\ UNCHANGED checkFrame

(* The watermark is of the current index and of the cycle that was read.   *)
MarkMatches(s) ==
  /\ mark.uuid = index.uuid
  /\ mark.through = s.through /\ mark.doneAt = s.doneAt /\ mark.failed = 0

(* For the property: the current index, unless the marked cycle began on   *)
(* another one than it was marked with.                                    *)
Witnessed == IF mark.began = mark.uuid THEN index.uuid ELSE 0

ReadWatermark ==
  /\ check.step = "reconciled"
  /\ check' = IF MarkMatches(check) /\ ~check.quiet
       THEN [NoCheck EXCEPT !.step = "marked", !.asked = check.asked,
                            !.through = check.through, !.uuid = Witnessed]
       ELSE NoCheck
  /\ UNCHANGED checkFrame

(* The last of the two reads is about to return, and the answer will be    *)
(* "available".                                                            *)
Available ==
  \/ check.step = "marked" /\ ~EventLag
  \/ check.step = "reconciled" /\ check.quiet /\ MarkMatches(check)

(***************************************************************************)
(* The specification.                                                      *)
(***************************************************************************)
BatchStep(p) ==
  \/ ListPage(p) \/ Inspect(p) \/ ProjectStale(p)
  \/ SaveCursor(p) \/ WriteWatermark(p) \/ SaveCompleted(p)

Next ==
  \/ Tick
  \/ \E f \in Findings : BeginChange(f) \/ CommitChange(f)
  \/ \E e \in Events : Dispatch(e) \/ HandleProjection(e) \/ Settle(e) \/ Park(e) \/ Requeue(e)
  \/ Rebuild
  \/ StartBatch
  \/ \E p \in Batches : BatchStep(p) \/ Abort(p)
  \/ LoseSession
  \/ ReadOutbox \/ ReadState \/ ReadWatermark

Spec == Init /\ [][Next]_vars

(* The timer of some backend starts batches and their calls return; that   *)
(* takes that the batches of the organizations before this one do not      *)
(* throw.  The outbox and the people who triage promise nothing.           *)
FairSpec ==
  /\ Spec
  /\ WF_vars(StartBatch)
  /\ \A p \in Batches : WF_vars(BatchStep(p))
==============================================================================
