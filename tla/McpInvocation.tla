----------------------------- MODULE McpInvocation -----------------------------
(***************************************************************************)
(* Tool invocations of one run.  An Update of the workflow prepares the    *)
(* invocation in the backend, dispatches it in an activity that claims it, *)
(* runs the tool and settles the result, and reconciles it when the        *)
(* activity does not say how it ended                                      *)
(* (worker/src/temporal/mcp-operation-executor.ts,                         *)
(* activities/mcp-invocation.activity.ts,                                  *)
(* backend/src/mcp-runtime/mcp-runtime.repository.ts).                     *)
(*                                                                         *)
(* Every call of the backend is a message: it may be served after its      *)
(* caller gave up, and its answer may be lost.  An activity may go on      *)
(* after Temporal gave it up.                                              *)
(***************************************************************************)
EXTENDS Naturals

CONSTANTS
  Invocations,  \* invocation ids, each one Update of the run
  Outbound,     \* those that an MCP runtime executes; components execute the others
  Attempts,     \* attempts of the prepare and reconcile activities
  MaxFaults     \* bound: lost, late and failed calls, dead workers

ASSUME OutboundAssumption == Outbound \subseteq Invocations
ASSUME AttemptsAssumption == Attempts \in Nat \ {0}
ASSUME MaxFaultsAssumption == MaxFaults \in Nat

Answered == {"completed", "remote_failure"}               \* what a tool may answer
Declined == {"not_run", "cancelled"}                      \* closed before dispatch
Terminal == Answered \union Declined \union {"ambiguous"}
Open     == {"prepared", "dispatched"}
None     == "none"

VARIABLES
  row,      \* mcp_invocations: status and result
  calls,    \* the backend's internal calls in flight
  handler,  \* per invocation, the Update's handler in the workflow
  act,      \* per invocation, the step of its dispatch activity
  ran,      \* history: how often the tool was started
  answer,   \* history: what the tool answered
  operations, \* the invocations that are MCP operations; the others are component
              \* tools.  Never changes
  expired,  \* invocations past their deadline
  run,      \* the workflow
  todo,     \* the rows the final sweep has still to close
  faults    \* faults so far

vars == <<row, calls, handler, act, ran, answer, operations, expired, run, todo, faults>>

Idle == [step |-> "idle", tries |-> 0, cause |-> None, result |-> None]

Init ==
  /\ row = [i \in Invocations |-> "absent"]
  /\ calls = {}
  /\ handler = [i \in Invocations |-> Idle]
  /\ act = [i \in Invocations |-> "none"]
  /\ ran = [i \in Invocations |-> 0]
  /\ answer = [i \in Invocations |-> None]
  /\ \E components \in SUBSET (Invocations \ Outbound) : operations = Outbound \union components
  /\ expired = {}
  /\ run = "open"
  /\ todo = {}
  /\ faults = 0

NoFault == UNCHANGED faults

Fault ==
  /\ faults < MaxFaults
  /\ faults' = faults + 1

(***************************************************************************)
(* The handler of an Update.                                               *)
(***************************************************************************)
Call(op, i, from, try, arg) == [op |-> op, inv |-> i, from |-> from, try |-> try, arg |-> arg]

Step(step, tries, cause) == [step |-> step, tries |-> tries, cause |-> cause, result |-> None]

Done(r) == [step |-> "done", tries |-> 0, cause |-> None, result |-> r]

\* Mutant: a handler that failed still carries a result.
FailedAsNotRun == [step |-> "failed", tries |-> 0, cause |-> None, result |-> "not_run"]

(* How an invocation is closed that was not dispatched: a component tool   *)
(* fails with a class of its own, an MCP operation like one whose tool     *)
(* failed.                                                                 *)
NotRun(i) == IF i \in operations THEN "remote_failure" ELSE "not_run"

Failed == [step |-> "failed", tries |-> 0, cause |-> None, result |-> None]

(* The caller's Update ends with r; B is what is left of the calls.        *)
Finish(i, r, B) ==
  /\ handler' = [handler EXCEPT ![i] = Done(r)]
  /\ calls' = B

(* The handler's activity failed: Temporal runs it again, or the Update    *)
(* fails.                                                                  *)
Retry(i, B) ==
  LET h == handler[i]
  IN  IF h.tries < Attempts
        THEN /\ handler' = [handler EXCEPT ![i] = Step(h.step, h.tries + 1, h.cause)]
             /\ calls' = B \union {Call(h.step, i, "handler", h.tries + 1, h.cause)}
        ELSE /\ handler' = [handler EXCEPT ![i] = Failed]
             /\ calls' = B

Causes(i) ==
  IF i \in expired THEN {"deadline"}
  ELSE IF run = "cancelling" THEN {"cancelled", "failure"}
  ELSE {"failure"}

Reconcile(i, B) ==
  \E cause \in Causes(i) :
    /\ handler' = [handler EXCEPT ![i] = Step("reconcile", 1, cause)]
    /\ calls' = B \union {Call("reconcile", i, "handler", 1, cause)}

(* Updates are accepted until the workflow finalizes.                      *)
Start(i) ==
  /\ run = "open"
  /\ handler[i] = Idle
  /\ IF i \in expired
       THEN Finish(i, NotRun(i), calls)
       ELSE /\ handler' = [handler EXCEPT ![i] = Step("prepare", 1, None)]
            /\ calls' = calls \union {Call("prepare", i, "handler", 1, None)}
  /\ UNCHANGED <<row, act, ran, answer, operations, expired, run, todo, faults>>

Alive(i) == run # "terminated"

(* The prepared invocation is dispatched, or closed at its deadline.       *)
Dispatch(i) ==
  /\ Alive(i)
  /\ handler[i].step = "prepared"
  /\ IF i \in expired
       THEN Reconcile(i, calls) /\ UNCHANGED act
       ELSE /\ handler' = [handler EXCEPT ![i] = Step("dispatch", 1, None)]
            /\ act' = [act EXCEPT ![i] = "queued"]
            /\ UNCHANGED calls
  /\ UNCHANGED <<row, ran, answer, operations, expired, run, todo, faults>>

(* The workflow was cancelled, and the prepare activity with it.           *)
PrepareCancelled(i) ==
  /\ run = "cancelling"
  /\ handler[i].step = "prepare"
  /\ handler' = [handler EXCEPT ![i] = Failed]
  /\ UNCHANGED <<row, calls, act, ran, answer, operations, expired, run, todo, faults>>

(* Temporal stops waiting for the activity, which may still be at work: no *)
(* heartbeat came through, or its time is over.                            *)
GiveUp(i) ==
  /\ Alive(i)
  /\ handler[i].step = "dispatch"
  /\ IF i \in expired THEN NoFault ELSE Fault
  /\ Reconcile(i, calls)
  /\ UNCHANGED <<row, act, ran, answer, operations, expired, run, todo>>

(***************************************************************************)
(* The dispatch activity.  Temporal runs it once.                          *)
(***************************************************************************)
WaitedFor(i) == Alive(i) /\ handler[i].step = "dispatch"

Returns(i, r, B) ==
  /\ act' = [act EXCEPT ![i] = "over"]
  /\ IF WaitedFor(i) THEN Finish(i, r, B) ELSE UNCHANGED handler /\ calls' = B

Fails(i, B) ==
  /\ act' = [act EXCEPT ![i] = "over"]
  /\ IF WaitedFor(i) THEN Reconcile(i, B) ELSE UNCHANGED handler /\ calls' = B

(* The activity calls the backend and waits.                               *)
Asks(i, op, arg) ==
  /\ act' = [act EXCEPT ![i] = op]
  /\ calls' = calls \union {Call(op, i, "activity", 1, arg)}
  /\ UNCHANGED handler

(* The deadline is looked at first; an MCP runtime is acquired before the  *)
(* claim, and may be unavailable.                                          *)
Begin(i) ==
  /\ act[i] = "queued"
  /\ \/ i \in expired /\ NoFault /\ Asks(i, "reconcile", "deadline")
     \/ i \notin expired /\ NoFault /\ Asks(i, "claim", "unchecked")
     \/ i \notin expired /\ i \in Outbound /\ Fault /\ Fails(i, calls)
  /\ UNCHANGED <<row, ran, answer, operations, expired, run, todo>>

(* The claimed operation goes to the tool.                                 *)
Execute(i) ==
  /\ act[i] = "execute"
  /\ act' = [act EXCEPT ![i] = "running"]
  /\ ran' = [ran EXCEPT ![i] = @ + 1]
  /\ UNCHANGED <<row, calls, handler, answer, operations, expired, run, todo, faults>>

(* The tool answers: its output, or its own failure.                       *)
Answers(i) ==
  /\ act[i] = "running"
  /\ \E r \in Answered : answer' = [answer EXCEPT ![i] = r] /\ Asks(i, "settle", r)
  /\ UNCHANGED <<row, ran, operations, expired, run, todo, faults>>

\* Mutant: an operation that ended without an answer counts as failed.
UnconfirmedFails == "remote_failure"

(* failedMcpOperation                                                      *)
Unconfirmed == "ambiguous"

(* No answer: an operation of an MCP runtime settles as unconfirmed; that  *)
(* of a component is reconciled by its activity, a component tool by the   *)
(* handler.                                                                *)
Unanswered(i) ==
  \/ i \in Outbound /\ Asks(i, "settle", Unconfirmed)
  \/ /\ i \in operations \ Outbound
     /\ \E cause \in {"cancelled", "failure"} : Asks(i, "reconcile", cause)
  \/ i \notin operations /\ Fails(i, calls)

(* The connection to the tool breaks, or its answer is no answer.          *)
Broken(i) ==
  /\ act[i] = "running"
  /\ Fault
  /\ Unanswered(i)
  /\ UNCHANGED <<row, ran, answer, operations, expired, run, todo>>

(* The activity is cancelled, by its deadline or with the workflow.  Only  *)
(* the settlement of an operation has a signal of its own.                 *)
Abort(i) ==
  /\ i \in expired \/ run = "cancelling"
  /\ WaitedFor(i)
  /\ \/ act[i] \in {"queued", "claim"} /\ Fails(i, calls)
     \/ act[i] = "settle" /\ i \notin operations /\ Fails(i, calls)
     \/ act[i] \in {"execute", "running"} /\ Unanswered(i)
  /\ UNCHANGED <<row, ran, answer, operations, expired, run, todo, faults>>

(* The worker dies.                                                        *)
Crash(i) ==
  /\ act[i] \notin {"none", "over"}
  /\ Fault
  /\ Fails(i, calls)
  /\ UNCHANGED <<row, ran, answer, operations, expired, run, todo>>

(***************************************************************************)
(* The backend.  Each call is one transaction, except the claim, which     *)
(* reads the invocation and its authority before.                          *)
(***************************************************************************)
Waiting(c) ==
  IF c.from = "handler"
    THEN /\ Alive(c.inv)
         /\ handler[c.inv].step = c.op
         /\ handler[c.inv].tries = c.try
    ELSE act[c.inv] = c.op

Error(c, B) == IF c.from = "handler" THEN Retry(c.inv, B) /\ UNCHANGED act ELSE Fails(c.inv, B)

Reply(c, r, B) ==
  IF c.from = "handler"
    THEN /\ UNCHANGED act
         /\ IF r \in Terminal
              THEN Finish(c.inv, r, B)
              ELSE /\ handler' = [handler EXCEPT ![c.inv] = Step("prepared", 1, None)]
                   /\ calls' = B
    ELSE IF r \in Terminal
           THEN Returns(c.inv, r, B)
           ELSE /\ act' = [act EXCEPT ![c.inv] = "execute"]
                /\ calls' = B
                /\ UNCHANGED handler

(* The call is served with r; nobody may wait any more, and the answer may *)
(* be lost.                                                                *)
Respond(c, r) ==
  IF Waiting(c)
    THEN \/ NoFault /\ Reply(c, r, calls \ {c})
         \/ Fault /\ Error(c, calls \ {c})
    ELSE NoFault /\ calls' = calls \ {c} /\ UNCHANGED <<handler, act>>

Refuse(c) ==
  /\ NoFault
  /\ IF Waiting(c)
       THEN Error(c, calls \ {c})
       ELSE calls' = calls \ {c} /\ UNCHANGED <<handler, act>>

SetRow(i, r) == row' = [row EXCEPT ![i] = r]

(* prepareInvocation, prepareOperation: an invocation is inserted once.    *)
ServePrepare(c) ==
  LET i == c.inv
  IN  /\ c.op = "prepare"
      /\ IF i \in expired
           THEN Refuse(c) /\ UNCHANGED row
           ELSE IF row[i] = "absent"
             THEN /\ SetRow(i, "prepared")
                  /\ Respond(c, "prepared")
             ELSE UNCHANGED row /\ Respond(c, row[i])
      /\ UNCHANGED todo

\* Mutant: whatever is open is cancelled on cancellation.
ReconciledByCause(i, cause) ==
  IF row[i] \in Terminal THEN row[i]
  ELSE IF cause = "cancelled" THEN "cancelled"
  ELSE IF row[i] = "dispatched" THEN "ambiguous"
  ELSE NotRun(i)

(* reconcileDispatchFailure, reconcileMcpOperationDispatchFailure: a       *)
(* result is returned as it is stored; what was dispatched is ambiguous.   *)
Reconciled(i, cause) ==
  IF row[i] \in Terminal THEN row[i]
  ELSE IF row[i] = "dispatched" THEN "ambiguous"
  ELSE IF cause = "cancelled" THEN "cancelled"
  ELSE NotRun(i)

ServeReconcile(c) ==
  LET r == Reconciled(c.inv, c.arg)
  IN  /\ c.op = "reconcile"
      /\ SetRow(c.inv, r)
      /\ Respond(c, r)
      /\ UNCHANGED todo

(* claimComponentDispatch, claimMcpOperationDispatch, up to the claim: the *)
(* invocation is prepared and in time.                                     *)
Check(c) ==
  LET i == c.inv
  IN  /\ c.op = "claim" /\ c.arg = "unchecked"
      /\ IF row[i] = "prepared" /\ i \notin expired
           THEN /\ calls' = (calls \ {c}) \union {[c EXCEPT !.arg = "checked"]}
                /\ UNCHANGED <<row, handler, act>> /\ NoFault
           ELSE LET r == Reconciled(i, "deadline")
                IN  SetRow(i, r) /\ Respond(c, r)
      /\ UNCHANGED todo

\* Mutant: the claim trusts what was read before.
Unclosed(i) == row[i] # "dispatched"

Claimable(i) == row[i] = "prepared"

(* claimAttempt, claimOperationAttempt: a second claim is ambiguous.       *)
Claim(c) ==
  LET i == c.inv
      r == IF Claimable(i) THEN "dispatched" ELSE Reconciled(i, "failure")
  IN  /\ c.op = "claim" /\ c.arg = "checked"
      /\ SetRow(i, r)
      /\ Respond(c, r)
      /\ UNCHANGED todo

\* Mutant: the last settlement wins.
Settleable(i) == row[i] # "prepared"

Unsettled(i) == row[i] = "dispatched"

(* settleAttempt, settleMcpOperationAttempt: a settlement that conflicts   *)
(* with the stored result is refused.                                      *)
Settle(c) ==
  LET i == c.inv
  IN  /\ c.op = "settle"
      /\ IF Unsettled(i)
           THEN SetRow(i, c.arg) /\ Respond(c, c.arg)
           ELSE Refuse(c) /\ UNCHANGED row
      /\ UNCHANGED todo

Serve(c) ==
  /\ ServePrepare(c) \/ ServeReconcile(c) \/ Check(c) \/ Claim(c) \/ Settle(c)
  /\ UNCHANGED <<ran, answer, operations, expired, run>>

(* The call never arrives, or its caller gives it up too early.            *)
Lose(c) ==
  /\ Waiting(c)
  /\ Fault
  /\ Error(c, calls) \/ Error(c, calls \ {c})
  /\ UNCHANGED <<row, ran, answer, operations, expired, run, todo>>

(***************************************************************************)
(* The end of the workflow: finalizeLifecycle.                             *)
(***************************************************************************)
runVars == <<calls, handler, act, ran, answer, operations, expired>>

(* The workflow is through, or cancelled: no Update is accepted any more.  *)
Finalize ==
  /\ run = "open"
  /\ run' \in {"draining", "cancelling"}
  /\ UNCHANGED <<row, runVars, todo, faults>>

\* Mutant: a handler that threw is not counted as finished.
Answering(i) == handler[i].step \notin {"idle", "done"}

Busy(i) == handler[i].step \notin {"idle", "done", "failed"}

(* reconcileRunInvocations: the rows of the run that are still open.       *)
Remaining == {i \in Invocations : row[i] \in Open}

(* condition(allHandlersFinished), then the sweep.                         *)
Sweep ==
  /\ run \in {"draining", "cancelling"}
  /\ \A i \in Invocations : ~Busy(i)
  /\ run' = "sweeping"
  /\ todo' = Remaining
  /\ UNCHANGED <<row, runVars, faults>>

SweepRow(i) ==
  /\ run = "sweeping"
  /\ i \in todo
  /\ SetRow(i, Reconciled(i, "cancelled"))
  /\ todo' = todo \ {i}
  /\ UNCHANGED <<runVars, run, faults>>

(* The sweep fails and Temporal runs it again.                             *)
SweepAgain ==
  /\ run = "sweeping"
  /\ Fault
  /\ todo' = Remaining
  /\ UNCHANGED <<row, runVars, run>>

Over ==
  /\ run = "sweeping"
  /\ todo = {}
  /\ run' = "over"
  /\ UNCHANGED <<row, runVars, todo, faults>>

(* The run is terminated from outside.                                     *)
Terminate ==
  /\ run \notin {"over", "terminated"}
  /\ run' = "terminated"
  /\ UNCHANGED <<row, runVars, todo, faults>>

Expire(i) ==
  /\ i \notin expired
  /\ expired' = expired \union {i}
  /\ UNCHANGED <<row, calls, handler, act, ran, answer, operations, run, todo, faults>>

(***************************************************************************)
(* The specification.                                                      *)
(***************************************************************************)
Activity(i) == Begin(i) \/ Execute(i) \/ Answers(i)

Ending == Sweep \/ (\E i \in Invocations : SweepRow(i)) \/ Over

Next ==
  \/ \E i \in Invocations :
       \/ Start(i) \/ Dispatch(i) \/ PrepareCancelled(i) \/ GiveUp(i)
       \/ Activity(i) \/ Broken(i) \/ Abort(i) \/ Crash(i) \/ Expire(i)
  \/ \E c \in calls : Serve(c) \/ Lose(c)
  \/ Finalize \/ Ending \/ SweepAgain \/ Terminate

Spec == Init /\ [][Next]_vars

(* Temporal carries on what it runs, the backend serves its calls and time *)
(* passes; tools may be silent, and nobody has to start or to end a run.   *)
FairSpec ==
  /\ Spec
  /\ \A i \in Invocations :
       /\ WF_vars(Dispatch(i))
       /\ WF_vars(Begin(i) \/ Execute(i))
       /\ WF_vars(Abort(i))
       /\ WF_vars(Expire(i))
       /\ WF_vars(\E c \in calls : c.inv = i /\ Serve(c))
  /\ WF_vars(Ending)
================================================================================
