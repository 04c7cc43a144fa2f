----------------------------- MODULE RunLifecycle -----------------------------
(***************************************************************************)
(* The life of a workflow run outside its workflow code: the row of        *)
(* workflow_runs, the executions of its id in Temporal, the callers that   *)
(* start it under an idempotency key, the worker that finalizes it, and    *)
(* the reconciler and the status queries that finalize what was missed     *)
(* (backend/src/workflows, worker/src/temporal/workflows/index.ts).        *)
(*                                                                         *)
(* One transaction or one Temporal request is one step.  Temporal itself   *)
(* is external: it refuses a start only while an execution of the id is    *)
(* open (the default id-reuse policy, which startPreparedRun leaves as is).*)
(***************************************************************************)
EXTENDS Naturals, Sequences, FiniteSets, FiniteSetsExt

CONSTANTS
  Runs,           \* runs, numbered in the order of (created_at, run_id)
  Callers,        \* concurrent requests to start a run
  PageSize,       \* the limit of reconcileOnce
  MaxExecutions,  \* bound: executions of one workflow id
  MaxFaults       \* bound: crashes, failed requests, terminations

ASSUME RunsAssumption == Runs \subseteq Nat \ {0} /\ IsFiniteSet(Runs)
ASSUME PageSizeAssumption == PageSize \in Nat \ {0}
ASSUME MaxFaultsAssumption == MaxFaults \in Nat

Verdicts == {"COMPLETED", "FAILED", "CANCELLED"}
Terminal == Verdicts \union {"TERMINATED"}   \* TERMINAL_STATUSES that a run can reach
Open     == "open"                           \* status NULL, or a result still to come
NoExec   == 0                                \* temporal_run_id NULL

VARIABLES
  row,       \* per run: does it exist, its temporal_run_id, its status
  runCount,  \* per run, what it added to the run count of its workflow
  event,     \* per run, the status in its run.status.terminal outbox event
  execs,     \* per run, the executions of its workflow id, oldest first
  call,      \* per caller, where it is in run()
  handles,   \* history: the <<run, execution>> pairs returned to callers
  scan,      \* the reconciler: is it active, its candidates, the next cursor
  cursor,    \* the reconciler's cursor between two passes; 0 is undefined
  reports,   \* closed statuses that were described and not yet written
  faults     \* faults so far

vars == <<row, runCount, event, execs, call, handles, scan, cursor, reports, faults>>

Idle == [step |-> "idle", run |-> 0, exec |-> NoExec, status |-> Open]
NoScan == [active |-> FALSE, todo |-> {}, next |-> 0]

Init ==
  /\ row = [r \in Runs |-> [exists |-> FALSE, exec |-> NoExec, status |-> Open]]
  /\ runCount = [r \in Runs |-> 0]
  /\ event = [r \in Runs |-> Open]
  /\ execs = [r \in Runs |-> <<>>]
  /\ call = [c \in Callers |-> Idle]
  /\ handles = {}
  /\ scan = NoScan
  /\ cursor = 0
  /\ reports = {}
  /\ faults = 0

NoFault == UNCHANGED faults

Fault ==
  /\ faults < MaxFaults
  /\ faults' = faults + 1

(***************************************************************************)
(* Starting a run: run(), prepareRunPayload and startPreparedRun.          *)
(***************************************************************************)
callVars == <<event, scan, cursor, reports>>

At(c, step) == call[c].step = step

Goto(c, step) == call' = [call EXCEPT ![c].step = step]

Leave(c) == call' = [call EXCEPT ![c] = Idle]

(* Answer the caller with a handle on execution x.                         *)
Answer(c, x) ==
  /\ handles' = handles \union {<<call[c].run, x>>}
  /\ Leave(c)

Latest(r) == Len(execs[r])
IsOpen(x) == x.state # "closed"

(* The row is inserted, or found with the same request (a run id derived   *)
(* from the idempotency key).                                              *)
Prepare(c, r) ==
  /\ At(c, "idle")
  /\ row' = [row EXCEPT ![r].exists = TRUE]
  /\ call' = [call EXCEPT ![c] = [Idle EXCEPT !.step = "find", !.run = r]]
  /\ UNCHANGED <<callVars, runCount, execs, handles, faults>>

(* Look for an execution that was already persisted; before the start and, *)
(* when Temporal refuses it, once more.                                    *)
Find(c) ==
  LET r == call[c].run
  IN  /\ At(c, "find") \/ At(c, "refind")
      /\ IF row[r].exec # NoExec
           THEN Answer(c, row[r].exec)
           ELSE /\ Goto(c, IF At(c, "find") THEN "start" ELSE "describe")
                /\ UNCHANGED handles
      /\ UNCHANGED <<callVars, row, runCount, execs, faults>>

NewExec == [state |-> "running", verdict |-> Open, closed |-> Open]

(* client.start: refused while the id has an open execution.  The process  *)
(* may die after Temporal accepted the start.                              *)
Start(c) ==
  LET r == call[c].run
  IN  /\ At(c, "start")
      /\ IF execs[r] # <<>> /\ IsOpen(execs[r][Latest(r)])
           THEN Goto(c, "refind") /\ NoFault /\ UNCHANGED execs
           ELSE /\ Latest(r) < MaxExecutions
                /\ execs' = [execs EXCEPT ![r] = Append(@, NewExec)]
                /\ \/ /\ NoFault
                      /\ call' = [call EXCEPT ![c].step = "persist", ![c].exec = Latest(r) + 1]
                   \/ Fault /\ Leave(c)
      /\ UNCHANGED <<callVars, row, runCount, handles>>

(* describeWorkflow of the execution that refused the start: the latest.   *)
Describe(c) ==
  LET r == call[c].run
  IN  /\ At(c, "describe")
      /\ call' = [call EXCEPT ![c].step   = "recover",
                              ![c].exec   = Latest(r),
                              ![c].status = execs[r][Latest(r)].closed]
      /\ UNCHANGED <<callVars, row, runCount, execs, handles, faults>>

\* Mutant: any execution that was started is returned.
AnyExecution(r, x) == TRUE

(* markStarted succeeds: the row names no execution yet, or this one.      *)
Agrees(r, x) == row[r].exec \in {NoExec, x}

\* Mutant: the run is counted whenever it is persisted.
EveryStart(r, x) == row[r].exec \in {NoExec, x}

(* ... and it is the update, not the second look, that found the row.      *)
FirstStart(r, x) == row[r].exec = NoExec

(* markStarted: a conflict or a lost database throws.                      *)
Persist(c) ==
  LET r == call[c].run
      x == call[c].exec
  IN  /\ At(c, "persist") \/ At(c, "recover")
      /\ \/ /\ NoFault /\ Agrees(r, x)
            /\ row' = IF FirstStart(r, x) THEN [row EXCEPT ![r].exec = x] ELSE row
            /\ runCount' = IF FirstStart(r, x) THEN [runCount EXCEPT ![r] = @ + 1] ELSE runCount
            /\ IF call[c].status # Open
                 THEN Goto(c, "report") /\ UNCHANGED handles
                 ELSE Answer(c, x)
         \/ /\ (NoFault /\ ~Agrees(r, x)) \/ Fault
            /\ Leave(c)
            /\ UNCHANGED <<row, runCount, handles>>
      /\ UNCHANGED <<callVars, execs>>

(***************************************************************************)
(* finalizeTerminalRun: one transaction on the locked row.                 *)
(***************************************************************************)

\* Mutant: a later report replaces the status.
LastReport(r, status) == status

(* The status the row ends with: the first terminal one stays.             *)
Settled(r, status) == IF row[r].status = Open THEN status ELSE row[r].status

(* The event carries the status of the row; its dedupe key lets the first  *)
(* one through.                                                            *)
Finalize(r, status) ==
  /\ row' = [row EXCEPT ![r].status = Settled(r, status)]
  /\ event' = IF event[r] = Open THEN [event EXCEPT ![r] = Settled(r, status)] ELSE event

(* A recovered execution that is already closed is finalized before the    *)
(* caller is answered; a failure to write it is only logged.               *)
Report(c) ==
  /\ At(c, "report")
  /\ \/ NoFault /\ Finalize(call[c].run, call[c].status)
     \/ Fault /\ UNCHANGED <<row, event>>
  /\ Answer(c, call[c].exec)
  /\ UNCHANGED <<runCount, execs, scan, cursor, reports>>

(***************************************************************************)
(* The execution in the worker: finalizeLifecycle of sentrisWorkflowRun.   *)
(***************************************************************************)
execVars == <<runCount, call, handles, scan, cursor, reports>>

SetExec(r, i, x) == execs' = [execs EXCEPT ![r][i] = x]

(* The body returned, threw, or was cancelled.                             *)
BodyEnds(r, i) ==
  /\ execs[r][i].state = "running"
  /\ \E v \in Verdicts :
       SetExec(r, i, [state |-> "finalizing", verdict |-> v, closed |-> Open])
  /\ UNCHANGED <<execVars, row, event, faults>>

(* finalizeRunActivity reports the verdict; when all its attempts failed   *)
(* the workflow ends all the same.                                         *)
FinalizeRun(r, i) ==
  /\ execs[r][i].state = "finalizing"
  /\ \/ NoFault /\ Finalize(r, execs[r][i].verdict)
     \/ Fault /\ UNCHANGED <<row, event>>
  /\ SetExec(r, i, [execs[r][i] EXCEPT !.state = "closing"])
  /\ UNCHANGED execVars

Close(r, i) ==
  /\ execs[r][i].state = "closing"
  /\ SetExec(r, i, [execs[r][i] EXCEPT !.state = "closed", !.closed = execs[r][i].verdict])
  /\ UNCHANGED <<execVars, row, event, faults>>

(* Reconciling the tool calls of the run throws: the workflow fails before *)
(* it reported its verdict.                                                *)
LifecycleFails(r, i) ==
  /\ execs[r][i].state = "finalizing"
  /\ Fault
  /\ SetExec(r, i, [execs[r][i] EXCEPT !.state = "closed", !.closed = "FAILED"])
  /\ UNCHANGED <<execVars, row, event>>

(* A parent that closes, or an operator of Temporal, terminates it.        *)
Terminate(r, i) ==
  /\ IsOpen(execs[r][i])
  /\ Fault
  /\ SetExec(r, i, [execs[r][i] EXCEPT !.state = "closed", !.closed = "TERMINATED"])
  /\ UNCHANGED <<execVars, row, event>>

(***************************************************************************)
(* The reconciler, and the status queries that finalize what they see.     *)
(***************************************************************************)
scanVars == <<row, runCount, event, execs, call, handles>>

Unfinalized(after) == {r \in Runs : row[r].exists /\ row[r].status = Open /\ r > after}

(* The first PageSize members of S, in order.                              *)
Page(S) == {r \in S : Cardinality({q \in S : q < r}) < PageSize}

\* Mutant: the cursor is set one past the page.
PastThePage(P) == IF Cardinality(P) = PageSize THEN Max(P) + 1 ELSE 0

\* Mutant: the cursor is not kept between two passes.
AlwaysFromTheStart(P) == 0

(* After a full page the next pass goes on behind it.                      *)
NextCursor(P) == IF Cardinality(P) = PageSize THEN Max(P) ELSE 0

(* listUnfinalized, from the cursor and, when nothing is left behind it,   *)
(* from the start.  A candidate carries the temporal_run_id that was read. *)
List ==
  LET behind == Page(Unfinalized(cursor))
      found  == IF behind = {} THEN Page(Unfinalized(0)) ELSE behind
  IN  /\ ~scan.active
      /\ scan' = [active |-> TRUE,
                  todo   |-> {[run |-> r, exec |-> row[r].exec] : r \in found},
                  next   |-> NextCursor(found)]
      /\ UNCHANGED <<scanVars, cursor, reports, faults>>

\* Mutant: a run that Temporal does not know is taken to have failed.
DescribedInferred(r, x) ==
  IF execs[r] = <<>> THEN "FAILED" ELSE execs[r][IF x = NoExec THEN Latest(r) ELSE x].closed

(* What describeWorkflow answers for execution x, or for the latest one.   *)
Described(r, x) ==
  IF execs[r] = <<>> THEN Open ELSE execs[r][IF x = NoExec THEN Latest(r) ELSE x].closed

(* reconcileRun describes a candidate; one that is open, unknown to        *)
(* Temporal, or whose description failed is left for a later pass.         *)
Reconcile(k) ==
  LET s == Described(k.run, k.exec)
  IN  /\ scan.active
      /\ ~ \E p \in reports : p.by = "reconciler" /\ p.run = k.run
      /\ \/ /\ NoFault /\ s # Open
            /\ reports' = reports \union {[run |-> k.run, status |-> s, by |-> "reconciler"]}
            /\ UNCHANGED scan
         \/ /\ (NoFault /\ s = Open) \/ Fault
            /\ scan' = [scan EXCEPT !.todo = @ \ {k}]
            /\ UNCHANGED reports
      /\ UNCHANGED <<scanVars, cursor>>

(* getRunStatus and resolveRunStatus describe an execution of a run whose  *)
(* row is not terminal.                                                    *)
Query(r) ==
  /\ row[r].exists
  /\ row[r].status = Open
  /\ \E x \in {NoExec, row[r].exec} :
       /\ Described(r, x) # Open
       /\ reports' = reports \union {[run |-> r, status |-> Described(r, x), by |-> "request"]}
  /\ UNCHANGED <<scanVars, scan, cursor, faults>>

(* A described status is written, or the write fails.                      *)
WriteReport(p) ==
  /\ \/ NoFault /\ Finalize(p.run, p.status)
     \/ Fault /\ UNCHANGED <<row, event>>
  /\ reports' = reports \ {p}
  /\ scan' = IF p.by = "reconciler"
               THEN [scan EXCEPT !.todo = {k \in @ : k.run # p.run}]
               ELSE scan
  /\ UNCHANGED <<runCount, execs, call, handles, cursor>>

(* All candidates are done.                                                *)
PassEnds ==
  /\ scan.active
  /\ scan.todo = {}
  /\ scan' = NoScan
  /\ cursor' = scan.next
  /\ UNCHANGED <<scanVars, reports, faults>>

(* The backend restarts: requests, the pass and its cursor are gone.       *)
Restart ==
  /\ Fault
  /\ call' = [c \in Callers |-> Idle]
  /\ scan' = NoScan
  /\ cursor' = 0
  /\ reports' = {}
  /\ UNCHANGED <<row, runCount, event, execs, handles>>

(***************************************************************************)
(* The specification.                                                      *)
(***************************************************************************)
Caller == \E c \in Callers : (\E r \in Runs : Prepare(c, r)) \/ Find(c) \/ Start(c)
                             \/ Describe(c) \/ Persist(c) \/ Report(c)

Execution(r, i) == BodyEnds(r, i) \/ FinalizeRun(r, i) \/ Close(r, i)

Executions ==
  \E r \in Runs : \E i \in DOMAIN execs[r] :
    Execution(r, i) \/ LifecycleFails(r, i) \/ Terminate(r, i)

Reconciler == List \/ (\E k \in scan.todo : Reconcile(k)) \/ PassEnds

Next ==
  \/ Caller
  \/ Executions
  \/ Reconciler
  \/ \E p \in reports : WriteReport(p)
  \/ \E r \in Runs : Query(r)
  \/ Restart

Spec == Init /\ [][Next]_vars

(* The reconciler's timer keeps firing, its requests are answered, and     *)
(* Temporal carries every execution to its end.                            *)
FairSpec ==
  /\ Spec
  /\ WF_vars(Reconciler)
  /\ WF_vars(\E p \in reports : WriteReport(p))
  /\ \A r \in Runs : WF_vars(\E i \in DOMAIN execs[r] : Execution(r, i))
==============================================================================
