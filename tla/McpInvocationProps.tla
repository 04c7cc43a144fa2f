-------------------------- MODULE McpInvocationProps --------------------------
(***************************************************************************)
(* What a tool invocation promises to its caller and to the tool.          *)
(***************************************************************************)
EXTENDS McpInvocation

CallType ==
  [op : {"prepare", "claim", "settle", "reconcile"}, inv : Invocations,
   from : {"handler", "activity"}, try : 1 .. Attempts,
   arg : {None, "unchecked", "checked", "failure", "deadline"} \union Terminal]

HandlerType ==
  [step : {"idle", "prepare", "prepared", "dispatch", "reconcile", "done", "failed"},
   tries : 0 .. Attempts,
   cause : {None, "failure", "deadline", "cancelled"},
   result : Terminal \union {None}]

(* Every variable has its type; a handler has a result exactly when it is  *)
(* done, and an activity waits only for a call that was made.              *)
TypeOK ==
  /\ row \in [Invocations -> {"absent"} \union Open \union Terminal]
  /\ calls \subseteq CallType
  /\ handler \in [Invocations -> HandlerType]
  /\ act \in [Invocations -> {"none", "queued", "claim", "execute", "running",
                              "settle", "reconcile", "over"}]
  /\ ran \in [Invocations -> Nat]
  /\ answer \in [Invocations -> Answered \union {None}]
  /\ Outbound \subseteq operations /\ operations \subseteq Invocations
  /\ expired \subseteq Invocations
  /\ run \in {"open", "draining", "cancelling", "sweeping", "over", "terminated"}
  /\ todo \subseteq Invocations
  /\ faults \in 0 .. MaxFaults
  /\ \A i \in Invocations : handler[i].result # None <=> handler[i].step = "done"

(* What is recorded as cancelled, or for a component tool as failed before *)
(* its dispatch, was never started and never will be, whatever claims are  *)
(* still on their way ("prepared becomes failed/cancelled, dispatched      *)
(* becomes ambiguous").                                                    *)
DeclinedNeverRuns ==
  \A i \in Invocations : row[i] \in Declined => ran[i] = 0

(* A completed record is what the tool answered, the one time it was       *)
(* started; a failed one is too, or it is an MCP operation whose tool was  *)
(* never started and never will be.  (settleTerminal,                      *)
(* mcpOperationReconciliationResult.)                                      *)
ConfirmedMeansRan ==
  \A i \in Invocations :
    row[i] \in Answered =>
      \/ ran[i] = 1 /\ answer[i] = row[i]
      \/ i \in operations /\ row[i] = "remote_failure" /\ ran[i] = 0

(* The caller is told what is recorded, now and later, even when the       *)
(* settlement, its answer and the reconciliation race; without a record it *)
(* is told what the code says when nothing ran.                            *)
ToldWhatIsRecorded ==
  \A i \in Invocations :
    handler[i].step = "done" =>
      \/ handler[i].result = row[i]
      \/ handler[i].result = NotRun(i) /\ row[i] = "absent"

(* A recorded result never changes ("terminal replay conflicts with stored *)
(* result" is refused).                                                    *)
ResultIsFinal ==
  [][\A i \in Invocations : row[i] \in Terminal => row'[i] = row[i]]_vars

(* Finalization does not hang: it waits for the handlers, they for their   *)
(* activities, and each of them comes to an end.                           *)
FinalizationEnds ==
  run \in {"draining", "cancelling"} ~> run \in {"over", "terminated"}
===============================================================================
