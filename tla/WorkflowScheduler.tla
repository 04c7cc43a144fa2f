-------------------------- MODULE WorkflowScheduler --------------------------
(***************************************************************************)
(* The DAG scheduler that runs a compiled workflow                         *)
(* (worker/src/temporal/workflow-scheduler.ts, runWorkflowWithScheduler).  *)
(*                                                                         *)
(* The scheduler takes every ready action as one batch, runs the batch     *)
(* concurrently, waits until all of it has settled, and then handles the   *)
(* outcomes one by one in completion order.  Handling an outcome walks the *)
(* graph: success delivers or skips the children, a skip spreads to the    *)
(* nodes that depended on it, a failure wakes the error-edge handlers and  *)
(* cancels or skips the success children.                                  *)
(*                                                                         *)
(* The mutually recursive functions of the source are modelled as a stack  *)
(* of loops, "work".  A frame [call, from, kids] is the loop               *)
(*     for (const child of kids) call(child, from)                         *)
(* and a step runs one iteration of the top loop and pushes the loops the  *)
(* called function starts.  The iteration order is a free choice: a source *)
(* node walks its edges once, so any order is that of some edge list.      *)
(***************************************************************************)
EXTENDS Naturals, Sequences, FiniteSets

CONSTANTS
  Nodes,                 \* refs of the actions
  Graphs,                \* the compiled definitions considered
  PreserveCancellation,  \* options.preserveCancellation
  NoNode                 \* undefined, where a ref is expected

Strategies == {"all", "any"}   \* the scheduler treats 'first' as 'any'

(* A definition: its success edges, its error edges, the join strategies.  *)
Graph == [succ : SUBSET (Nodes \X Nodes),
          err  : SUBSET (Nodes \X Nodes),
          join : [Nodes -> Strategies]]

ASSUME NodesFinite == IsFiniteSet(Nodes)
ASSUME GraphsTyped == Graphs \subseteq Graph
ASSUME NoNodeAssumption == NoNode \notin Nodes
ASSUME PreserveAssumption == PreserveCancellation \in BOOLEAN

VARIABLES
  graph,         \* the definition being run; never changes
  status,        \* "running", or how runWorkflowWithScheduler returned or threw
  pending,       \* actions that neither started nor were skipped or cancelled
  ready,         \* readyQueue: per action, the contexts queued for it
  nodeStates,    \* the scheduler's record of every action
  failedErrors,  \* actions with a recorded, not yet handled, error
  handledFailureSources, \* per handler, the failures its success will clear
  settled,       \* refs of the batch whose outcome is not yet handled
  work,          \* the loops in progress, innermost first
  failQueue,     \* the breadth-first queue of handleFailure
  result,        \* per action, what its run() promise has done
  active,        \* per action, the children its active ports selected
  context        \* per action, the context run() was called with

vars == <<graph, status, pending, ready, nodeStates, failedErrors,
          handledFailureSources, settled, work, failQueue, result, active, context>>

(* Everything only the main loop touches.                                  *)
batchVars == <<graph, status, settled, result, active, context>>

(***************************************************************************)
(* The maps built from definition.edges.                                   *)
(***************************************************************************)
SuccParents(n)  == {p \in Nodes : <<p, n>> \in graph.succ}
SuccChildren(n) == {c \in Nodes : <<n, c>> \in graph.succ}
FailParents(n)  == {p \in Nodes : <<p, n>> \in graph.err}
FailChildren(n) == {c \in Nodes : <<n, c>> \in graph.err}

NoContext == [triggeredBy |-> NoNode, failure |-> NoNode]

InitialNodeState(n) ==
  [successParents         |-> SuccParents(n),
   skippedParents         |-> {},
   inactiveFailureParents |-> {},
   triggeredBySuccess     |-> SuccParents(n) = {},
   failureTriggered       |-> FALSE,
   errorTriggeredBy       |-> NoNode,
   skipped                |-> FALSE]

Init ==
  /\ graph \in Graphs
  /\ status = "running"
  /\ pending = Nodes
  /\ nodeStates = [n \in Nodes |-> InitialNodeState(n)]
  /\ ready = [n \in Nodes |->
                IF SuccParents(n) = {} /\ FailParents(n) = {} THEN <<NoContext>> ELSE <<>>]
  /\ failedErrors = {}
  /\ handledFailureSources = [n \in Nodes |-> {}]
  /\ settled = <<>>
  /\ work = <<>>
  /\ failQueue = <<>>
  /\ result = [n \in Nodes |-> "none"]
  /\ active = [n \in Nodes |-> {}]
  /\ context = [n \in Nodes |-> NoContext]

(***************************************************************************)
(* The stack of loops.                                                     *)
(***************************************************************************)
Loop(call, from, kids) ==
  IF kids = {} THEN <<>> ELSE <<[call |-> call, from |-> from, kids |-> kids]>>

Top == Head(work)
Rest(c) == Loop(Top.call, Top.from, Top.kids \ {c}) \o Tail(work)

Calls(call, c) ==
  /\ status = "running"
  /\ work # <<>>
  /\ Top.call = call
  /\ c \in Top.kids

BatchSettled == \A n \in Nodes : result[n] # "running"
HandlingDone == work = <<>> /\ failQueue = <<>>
AtLoopHead   == status = "running" /\ BatchSettled /\ settled = <<>> /\ HandlingDone
QueueEmpty   == \A n \in Nodes : ready[n] = <<>>

\* Mutant: only the outcome that settled first is looked at.
CancelledFirst == settled # <<>> /\ result[Head(settled)] = "cancelled"

CancelledInBatch == \E i \in DOMAIN settled : result[settled[i]] = "cancelled"

(***************************************************************************)
(* The main loop.                                                          *)
(***************************************************************************)

(* Take the whole queue; an item whose action is no longer pending is      *)
(* dropped, so of two items for one action the first is the one that runs. *)
StartBatch ==
  LET started == {n \in pending : ready[n] # <<>>}
  IN  /\ AtLoopHead
      /\ ~QueueEmpty
      /\ pending # {}
      /\ pending' = pending \ started
      /\ ready'   = [n \in Nodes |-> <<>>]
      /\ result'  = [n \in Nodes |-> IF n \in started THEN "running" ELSE result[n]]
      /\ context' = [n \in Nodes |-> IF n \in started THEN Head(ready[n]) ELSE context[n]]
      /\ UNCHANGED <<graph, status, nodeStates, failedErrors, handledFailureSources,
                     settled, work, failQueue, active>>

(* run(ref) fulfils; an undefined activePorts activates every child.       *)
SettleOk(n) ==
  /\ status = "running"
  /\ result[n] = "running"
  /\ \E kids \in SUBSET SuccChildren(n) : active' = [active EXCEPT ![n] = kids]
  /\ result' = [result EXCEPT ![n] = "ok"]
  /\ settled' = Append(settled, n)
  /\ UNCHANGED <<graph, status, pending, ready, nodeStates, failedErrors,
                 handledFailureSources, work, failQueue, context>>

(* run(ref) rejects, with an ordinary error or with a Temporal cancellation. *)
SettleRejected(n) ==
  /\ status = "running"
  /\ result[n] = "running"
  /\ \E r \in {"err", "cancelled"} : result' = [result EXCEPT ![n] = r]
  /\ settled' = Append(settled, n)
  /\ UNCHANGED <<graph, status, pending, ready, nodeStates, failedErrors,
                 handledFailureSources, work, failQueue, active, context>>

(* A cancelled action of the settled batch is rethrown before any outcome  *)
(* of the batch is handled.                                                *)
RethrowCancellation ==
  /\ status = "running"
  /\ BatchSettled
  /\ PreserveCancellation
  /\ CancelledInBatch
  /\ status' = "cancelled"
  /\ UNCHANGED <<graph, pending, ready, nodeStates, failedErrors, handledFailureSources,
                 settled, work, failQueue, result, active, context>>

CanHandleOutcome ==
  /\ status = "running"
  /\ BatchSettled
  /\ settled # <<>>
  /\ HandlingDone
  /\ ~(PreserveCancellation /\ CancelledInBatch)

(* The failures that the success of n settles.                             *)
Clears(n) == handledFailureSources[n]

HandleSuccess ==
  LET n == Head(settled)
  IN  /\ CanHandleOutcome
      /\ result[n] = "ok"
      /\ failedErrors' = failedErrors \ Clears(n)
      /\ handledFailureSources' = [handledFailureSources EXCEPT ![n] = {}]
      /\ work' = Loop("fulfilled", n, active[n])
                   \o Loop("skipped", n, SuccChildren(n) \ active[n])
                   \o Loop("inactive", n, FailChildren(n))
      /\ settled' = Tail(settled)
      /\ UNCHANGED <<graph, status, pending, ready, nodeStates, failQueue,
                     result, active, context>>

\* Mutant: a failure that has an error edge is left to its handler.
RecordsUnhandled(n) == IF FailChildren(n) = {} THEN {n} ELSE {}

(* The error a rejected run() adds to failedErrors.                        *)
Records(n) == {n}

HandleFailure ==
  LET n == Head(settled)
  IN  /\ CanHandleOutcome
      /\ result[n] # "ok"
      /\ failedErrors' = failedErrors \union Records(n)
      /\ failQueue' = <<n>>
      /\ settled' = Tail(settled)
      /\ UNCHANGED <<graph, status, pending, ready, nodeStates, handledFailureSources,
                     work, result, active, context>>

ThrowDeadlock ==
  /\ AtLoopHead
  /\ pending # {}
  /\ QueueEmpty
  /\ status' = "deadlock"
  /\ UNCHANGED <<graph, pending, ready, nodeStates, failedErrors, handledFailureSources,
                 settled, work, failQueue, result, active, context>>

Return ==
  /\ AtLoopHead
  /\ pending = {}
  /\ status' = IF failedErrors = {} THEN "completed" ELSE "failed"
  /\ UNCHANGED <<graph, pending, ready, nodeStates, failedErrors, handledFailureSources,
                 settled, work, failQueue, result, active, context>>

(***************************************************************************)
(* processChild(c, parent, type): one parent of c is resolved.             *)
(***************************************************************************)

\* Mutant: a handler is queued with its success parent as the cause.
WrongCause(c, parent) ==
  IF FailParents(c) # {} /\ nodeStates[c].errorTriggeredBy = NoNode THEN ready
  ELSE [ready EXCEPT ![c] = Append(@, [triggeredBy |-> parent, failure |-> parent])]

(* queueReadyIfSatisfiedByFailureState: a node with error parents is       *)
(* queued only once one of them has failed.                                *)
QueueIfErrorState(c, parent) ==
  LET by == nodeStates[c].errorTriggeredBy
  IN  IF FailParents(c) # {}
        THEN IF by = NoNode
               THEN ready
               ELSE [ready EXCEPT ![c] = Append(@, [triggeredBy |-> by, failure |-> by])]
        ELSE [ready EXCEPT ![c] =
                Append(@, [triggeredBy |-> IF graph.join[c] = "all" THEN NoNode ELSE parent,
                           failure     |-> NoNode])]

(* The guards shared by every propagation to a child.                      *)
Undecided(c, parent) ==
  /\ c \in pending
  /\ ~nodeStates[c].failureTriggered
  /\ ~nodeStates[c].skipped
  /\ parent \in nodeStates[c].successParents

\* Mutant: a resolved parent is not struck off.
KeepsParent(c, parent) == nodeStates[c].successParents

(* The parents of c that are still to be resolved after this one.          *)
Remaining(c, parent) == nodeStates[c].successParents \ {parent}

(* The parent being resolved completes the join of c.                      *)
Triggers(c, type) ==
  /\ type = "fulfilled"
  /\ ~nodeStates[c].triggeredBySuccess
  /\ graph.join[c] = "all" => /\ nodeStates[c].successParents \subseteq {Top.from}
                             /\ nodeStates[c].skippedParents = {}

ProcessChild(c, type) ==
  LET parent  == Top.from
      old     == nodeStates[c]
      left    == Remaining(c, parent)
      dead    == IF type = "skipped" THEN old.skippedParents \union {parent}
                                     ELSE old.skippedParents
      done    == old.triggeredBySuccess \/ Triggers(c, type)
      skip    == left = {} /\ (IF graph.join[c] = "all" THEN dead # {} ELSE ~done)
  IN  /\ Calls(type, c)
      /\ IF Undecided(c, parent)
           THEN /\ nodeStates' = [nodeStates EXCEPT ![c] =
                     [old EXCEPT !.successParents = left,
                                 !.skippedParents = dead,
                                 !.triggeredBySuccess = done]]
                /\ ready' = IF Triggers(c, type) THEN QueueIfErrorState(c, parent) ELSE ready
                /\ work'  = IF skip THEN Loop("skip", c, {c}) \o Rest(c) ELSE Rest(c)
           ELSE /\ work' = Rest(c)
                /\ UNCHANGED <<nodeStates, ready>>
      /\ UNCHANGED <<batchVars, pending, failedErrors, handledFailureSources, failQueue>>

(* handleSkip(c): c will never run; tell its error and success children.   *)
HandleSkip(c) ==
  /\ Calls("skip", c)
  /\ IF c \in pending
       THEN /\ pending' = pending \ {c}
            /\ nodeStates' = [nodeStates EXCEPT ![c] = [@ EXCEPT !.skipped = TRUE]]
            /\ work' = Loop("inactive", c, FailChildren(c))
                         \o Loop("skipped", c, SuccChildren(c)) \o Rest(c)
       ELSE /\ work' = Rest(c)
            /\ UNCHANGED <<pending, nodeStates>>
  /\ UNCHANGED <<batchVars, ready, failedErrors, handledFailureSources, failQueue>>

(* The onNodeSkipped callback (an activity that records a trace event)     *)
(* rejects: the error leaves runWorkflowWithScheduler at once.             *)
SkipCallbackFails(c) ==
  /\ Calls("skip", c)
  /\ c \in pending
  /\ pending' = pending \ {c}
  /\ nodeStates' = [nodeStates EXCEPT ![c] = [@ EXCEPT !.skipped = TRUE]]
  /\ status' = "aborted"
  /\ UNCHANGED <<graph, ready, failedErrors, handledFailureSources, settled, work,
                 failQueue, result, active, context>>

\* Mutant: off by one, a handler is never given up.
NeverInactive(c, inactive) == Cardinality(inactive) > Cardinality(FailParents(c))

(* No error source of c is left that could still fail.                     *)
AllInactive(c, inactive) == Cardinality(inactive) = Cardinality(FailParents(c))

(* markInactiveFailureDependents: an error source of c will not fail; when *)
(* no error source is left that could, c is skipped.                       *)
MarkInactive(c) ==
  LET old      == nodeStates[c]
      inactive == old.inactiveFailureParents \union {Top.from}
  IN  /\ Calls("inactive", c)
      /\ IF /\ c \in pending
            /\ old.errorTriggeredBy = NoNode
            /\ ~old.failureTriggered
            /\ ~old.skipped
           THEN /\ nodeStates' = [nodeStates EXCEPT ![c] = [@ EXCEPT !.inactiveFailureParents = inactive]]
                /\ work' = IF AllInactive(c, inactive)
                             THEN Loop("skip", c, {c}) \o Rest(c)
                             ELSE Rest(c)
           ELSE /\ work' = Rest(c)
                /\ UNCHANGED nodeStates
      /\ UNCHANGED <<batchVars, pending, ready, failedErrors, handledFailureSources, failQueue>>

(***************************************************************************)
(* handleFailure: breadth first over the failed action and the actions     *)
(* cancelled because of it.                                                *)
(***************************************************************************)

\* Mutant: a handler does not wait for its success parents.
WakesEarly(c) == ~nodeStates[c].skipped

(* A handler of a failure is queued at once if it waits for nothing else.  *)
Wakes(c) == nodeStates[c].successParents = {} /\ ~nodeStates[c].skipped

(* Dequeue an action: wake its error-edge handlers, then loop over its     *)
(* success children.  (The source's "seen" set never excludes anything: a  *)
(* cancelled child is failureTriggered before it is enqueued.)             *)
PropagateFailure ==
  LET n        == Head(failQueue)
      handlers == {c \in FailChildren(n) : c # n /\ ~nodeStates[c].failureTriggered}
      woken    == {c \in handlers : Wakes(c)}
      item     == [triggeredBy |-> n, failure |-> n]
  IN  /\ status = "running"
      /\ work = <<>>
      /\ failQueue # <<>>
      /\ failQueue' = Tail(failQueue)
      /\ nodeStates' = [c \in Nodes |->
           [nodeStates[c] EXCEPT
              !.failureTriggered = @ \/ c = n,
              !.errorTriggeredBy = IF c \in handlers THEN n ELSE @]]
      /\ handledFailureSources' = [c \in Nodes |->
           IF c \in handlers THEN handledFailureSources[c] \union {n}
                             ELSE handledFailureSources[c]]
      /\ ready' = [c \in Nodes |-> IF c \in woken THEN Append(ready[c], item) ELSE ready[c]]
      /\ work' = Loop("cancel", n, SuccChildren(n))
      /\ UNCHANGED <<batchVars, pending, failedErrors>>

\* Mutant: an any-join that was already triggered is cancelled with its
\* last parent.
CancelsTriggered(c, left) == graph.join[c] = "all" \/ left = {}

(* The join of c can no longer be met without the failed parent.           *)
MustCancel(c, left) ==
  graph.join[c] = "all" \/ (left = {} /\ ~nodeStates[c].triggeredBySuccess)

(* One success child of a failed action: skipped when the failure has a    *)
(* handler, cancelled when its join can no longer be met.                  *)
CancelChild(c) ==
  LET from == Top.from
      left == Remaining(c, from)
  IN  /\ Calls("cancel", c)
      /\ \/ /\ nodeStates[c].failureTriggered
               \/ from \notin nodeStates[c].successParents
               \/ c \notin pending
            /\ work' = Rest(c)
            /\ UNCHANGED <<pending, nodeStates, failedErrors, failQueue>>
         \/ /\ ~nodeStates[c].failureTriggered
            /\ from \in nodeStates[c].successParents
            /\ c \in pending
            /\ FailChildren(from) # {}
            /\ work' = Loop("skipped", from, {c}) \o Rest(c)
            /\ UNCHANGED <<pending, nodeStates, failedErrors, failQueue>>
         \/ /\ ~nodeStates[c].failureTriggered
            /\ from \in nodeStates[c].successParents
            /\ c \in pending
            /\ FailChildren(from) = {}
            /\ nodeStates' = [nodeStates EXCEPT ![c] =
                  [@ EXCEPT !.successParents = left,
                            !.failureTriggered = MustCancel(c, left)]]
            /\ work' = Rest(c)
            /\ IF MustCancel(c, left)
                 THEN /\ pending' = pending \ {c}
                      /\ failedErrors' = failedErrors \union {c}
                      /\ failQueue' = Append(failQueue, c)
                 ELSE UNCHANGED <<pending, failedErrors, failQueue>>
      /\ UNCHANGED <<batchVars, ready, handledFailureSources>>

(***************************************************************************)
(* The specification.                                                      *)
(***************************************************************************)
Propagate ==
  \/ PropagateFailure
  \/ \E c \in Nodes : \/ \E type \in {"fulfilled", "skipped"} : ProcessChild(c, type)
                      \/ HandleSkip(c)
                      \/ SkipCallbackFails(c)
                      \/ MarkInactive(c)
                      \/ CancelChild(c)

Schedule ==
  StartBatch \/ RethrowCancellation \/ HandleSuccess \/ HandleFailure \/ ThrowDeadlock \/ Return

Settle == \E n \in Nodes : SettleOk(n) \/ SettleRejected(n)

Next == Schedule \/ Settle \/ Propagate

Spec == Init /\ [][Next]_vars

(* The workflow code runs whenever it can, and Temporal's activity         *)
(* timeouts make every run() promise settle.                               *)
FairSpec == Spec /\ WF_vars(Schedule) /\ WF_vars(Settle) /\ WF_vars(Propagate)
==============================================================================
