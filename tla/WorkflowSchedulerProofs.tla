------------------------ MODULE WorkflowSchedulerProofs ------------------------
(***************************************************************************)
(* Theorems about WorkflowScheduler, for every set of nodes and every set  *)
(* of definitions.                                                         *)
(***************************************************************************)
EXTENDS WorkflowSchedulerProps, FiniteSetTheorems, TLAPS

CallNames == {"fulfilled", "skipped", "skip", "inactive", "cancel"}

-------------------------------------------------------------------------------
(* Loops and the rest of the stack stay well typed.                        *)
LEMMA LoopType ==
  ASSUME NEW call \in CallNames, NEW from \in Nodes, NEW kids \in SUBSET Nodes
  PROVE  Loop(call, from, kids) \in Seq(Frame)
<1> DEFINE f == [call |-> call, from |-> from, kids |-> kids]
<1>1. CASE kids = {}
  BY <1>1 DEF Loop
<1>2. CASE kids # {}
  <2>1. f \in Frame
    BY <1>2 DEF Frame, CallNames
  <2>2. <<f>> \in Seq(Frame)
    <3> HIDE DEF f
    <3> QED BY <2>1
  <2> QED BY <1>2, <2>2 DEF Loop
<1> QED BY <1>1, <1>2

LEMMA RestType ==
  ASSUME work \in Seq(Frame), work # <<>>, NEW c
  PROVE  Rest(c) \in Seq(Frame)
<1>1. Top \in Frame /\ Tail(work) \in Seq(Frame)
  BY DEF Top
<1>2. Loop(Top.call, Top.from, Top.kids \ {c}) \in Seq(Frame)
  BY <1>1, LoopType DEF Frame, CallNames
<1> QED BY <1>1, <1>2 DEF Rest

(* The top frame, when a call is about to be made.                         *)
LEMMA TopType ==
  ASSUME Types, NEW call, NEW c, Calls(call, c)
  PROVE  /\ Top.from \in Nodes
         /\ c \in Nodes
         /\ Rest(c) \in Seq(Frame)
<1>1. work \in Seq(Frame) /\ work # <<>> /\ c \in Top.kids
  BY DEF Types, Calls
<1>2. Top \in Frame
  BY <1>1 DEF Top
<1> QED BY <1>1, <1>2, RestType DEF Frame

(* Changing fields of a node state keeps its type.                         *)
LEMMA NodeStateUpdate ==
  ASSUME NEW s \in NodeState,
         NEW left \in SUBSET Nodes, NEW dead \in SUBSET Nodes, NEW b \in BOOLEAN
  PROVE  /\ [s EXCEPT !.successParents = left, !.skippedParents = dead,
                       !.triggeredBySuccess = b] \in NodeState
         /\ [s EXCEPT !.successParents = left, !.failureTriggered = b] \in NodeState
         /\ [s EXCEPT !.inactiveFailureParents = left] \in NodeState
         /\ [s EXCEPT !.skipped = TRUE] \in NodeState
BY DEF NodeState

LEMMA NodeStateWoken ==
  ASSUME NEW s \in NodeState, NEW n \in Nodes, NEW c, NEW H
  PROVE  [s EXCEPT !.failureTriggered = @ \/ c = n,
                   !.errorTriggeredBy = IF c \in H THEN n ELSE @] \in NodeState
BY DEF NodeState

LEMMA ConcatType ==
  ASSUME NEW A \in Seq(Frame), NEW B \in Seq(Frame)
  PROVE  /\ A \o B \in Seq(Frame)
         /\ \A C \in Seq(Frame) : A \o B \o C \in Seq(Frame)
OBVIOUS

(* queueReadyIfSatisfiedByFailureState queues well-typed contexts.         *)
LEMMA QueueType ==
  ASSUME Types, NEW c \in Nodes, NEW parent \in Nodes
  PROVE  QueueIfErrorState(c, parent) \in [Nodes -> Seq(Contexts)]
<1> DEFINE by == nodeStates[c].errorTriggeredBy
           i1 == [triggeredBy |-> by, failure |-> by]
           i2 == [triggeredBy |-> IF graph.join[c] = "all" THEN NoNode ELSE parent,
                  failure     |-> NoNode]
<1>1. i1 \in Contexts /\ i2 \in Contexts
  BY DEF Types, NodeState, Contexts
<1>2. \/ QueueIfErrorState(c, parent) = ready
      \/ QueueIfErrorState(c, parent) = [ready EXCEPT ![c] = Append(@, i1)]
      \/ QueueIfErrorState(c, parent) = [ready EXCEPT ![c] = Append(@, i2)]
  BY DEF QueueIfErrorState
<1>3. ASSUME NEW i \in Contexts
      PROVE  [ready EXCEPT ![c] = Append(@, i)] \in [Nodes -> Seq(Contexts)]
  <2>1. ready[c] \in Seq(Contexts)
    BY DEF Types
  <2>2. Append(ready[c], i) \in Seq(Contexts)
    BY <2>1
  <2> QED BY <2>2 DEF Types
<1> HIDE DEF i1, i2
<1> QED BY <1>1, <1>2, <1>3 DEF Types

LEMMA InitTypes == Init => Types
<1> SUFFICES ASSUME Init PROVE Types
  OBVIOUS
<1>1. graph \in Graph
  BY GraphsTyped DEF Init
<1>2. nodeStates \in [Nodes -> NodeState]
  BY DEF Init, InitialNodeState, NodeState, SuccParents
<1>3. NoContext \in Contexts
  BY DEF NoContext, Contexts
<1>4. ready \in [Nodes -> Seq(Contexts)]
  BY <1>3 DEF Init
<1> QED BY <1>1, <1>2, <1>3, <1>4 DEF Init, Types

LEMMA ScheduleTypes == Types /\ Schedule => Types'
<1> SUFFICES ASSUME Types, Schedule PROVE Types'
  OBVIOUS
<1>1. CASE StartBatch
  <2>1. \A n \in Nodes : ready[n] # <<>> => Head(ready[n]) \in Contexts
    BY DEF Types
  <2>2. context' \in [Nodes -> Contexts]
    BY <1>1, <2>1 DEF StartBatch, Types
  <2>3. ready' \in [Nodes -> Seq(Contexts)]
    BY <1>1 DEF StartBatch
  <2>4. pending' \subseteq Nodes /\ result' \in [Nodes -> {"none", "running", "ok", "err", "cancelled"}]
    BY <1>1 DEF StartBatch, Types
  <2> QED BY <1>1, <2>2, <2>3, <2>4 DEF StartBatch, Types
<1>2. CASE RethrowCancellation
  BY <1>2 DEF RethrowCancellation, Types
<1>3. CASE HandleSuccess
  <2> DEFINE n == Head(settled)
  <2>1. settled # <<>>
    BY <1>3 DEF HandleSuccess, CanHandleOutcome
  <2>2. n \in Nodes /\ Tail(settled) \in Seq(Nodes)
    BY <2>1 DEF Types
  <2>3. active[n] \in SUBSET Nodes
    BY <2>2 DEF Types
  <2>4. SuccChildren(n) \in SUBSET Nodes /\ FailChildren(n) \in SUBSET Nodes
    BY DEF SuccChildren, FailChildren
  <2>5. /\ Loop("fulfilled", n, active[n]) \in Seq(Frame)
        /\ Loop("skipped", n, SuccChildren(n) \ active[n]) \in Seq(Frame)
        /\ Loop("inactive", n, FailChildren(n)) \in Seq(Frame)
    BY <2>2, <2>3, <2>4, LoopType DEF CallNames
  <2>6. work' \in Seq(Frame)
    <3>1. ASSUME NEW A \in Seq(Frame), NEW B \in Seq(Frame), NEW C \in Seq(Frame)
          PROVE  A \o B \o C \in Seq(Frame)
      OBVIOUS
    <3>2. work' = Loop("fulfilled", n, active[n])
                    \o Loop("skipped", n, SuccChildren(n) \ active[n])
                    \o Loop("inactive", n, FailChildren(n))
      BY <1>3 DEF HandleSuccess
    <3> QED BY <2>5, <3>1, <3>2
  <2> QED BY <1>3, <2>2, <2>6 DEF HandleSuccess, Types
<1>4. CASE HandleFailure
  <2>1. settled # <<>>
    BY <1>4 DEF HandleFailure, CanHandleOutcome
  <2>2. Head(settled) \in Nodes /\ Tail(settled) \in Seq(Nodes)
    BY <2>1 DEF Types
  <2> QED BY <1>4, <2>2 DEF HandleFailure, Types, Records
<1>5. CASE ThrowDeadlock
  BY <1>5 DEF ThrowDeadlock, Types
<1>6. CASE Return
  BY <1>6 DEF Return, Types
<1> QED BY <1>1, <1>2, <1>3, <1>4, <1>5, <1>6 DEF Schedule

LEMMA SettleTypes == Types /\ Settle => Types'
<1> SUFFICES ASSUME Types, NEW n \in Nodes, SettleOk(n) \/ SettleRejected(n) PROVE Types'
  BY DEF Settle
<1>1. CASE SettleOk(n)
  <2>1. PICK kids \in SUBSET SuccChildren(n) : active' = [active EXCEPT ![n] = kids]
    BY <1>1 DEF SettleOk
  <2>2. active' \in [Nodes -> SUBSET Nodes]
    BY <2>1 DEF Types, SuccChildren
  <2> QED BY <1>1, <2>2 DEF SettleOk, Types
<1>2. CASE SettleRejected(n)
  BY <1>2 DEF SettleRejected, Types
<1> QED BY <1>1, <1>2

LEMMA PropagateFailureTypes == Types /\ PropagateFailure => Types'
<1> SUFFICES ASSUME Types, PropagateFailure PROVE Types'
  OBVIOUS
<1> DEFINE n == Head(failQueue)
           item == [triggeredBy |-> n, failure |-> n]
<1>1. n \in Nodes /\ Tail(failQueue) \in Seq(Nodes)
  <2>1. failQueue # <<>> /\ failQueue \in Seq(Nodes)
    BY DEF PropagateFailure, Types
  <2> QED BY <2>1
<1>2. nodeStates' \in [Nodes -> NodeState]
  <2> DEFINE handlers == {c \in FailChildren(n) : c # n /\ ~nodeStates[c].failureTriggered}
             new(c) == [nodeStates[c] EXCEPT
                          !.failureTriggered = @ \/ c = n,
                          !.errorTriggeredBy = IF c \in handlers THEN n ELSE @]
  <2>1. nodeStates' = [c \in Nodes |-> new(c)]
    BY DEF PropagateFailure
  <2>2. ASSUME NEW c \in Nodes PROVE new(c) \in NodeState
    <3>1. nodeStates[c] \in NodeState
      BY DEF Types
    <3> HIDE DEF handlers, n
    <3> QED BY <1>1, <3>1, NodeStateWoken
  <2> HIDE DEF new
  <2> QED BY <2>1, <2>2
<1>3. item \in Contexts
  BY <1>1 DEF Contexts
<1>4. ready' \in [Nodes -> Seq(Contexts)]
  <2> DEFINE woken == {c \in FailChildren(n) :
                         /\ c # n /\ ~nodeStates[c].failureTriggered
                         /\ Wakes(c)}
  <2>1. ready' = [c \in Nodes |-> IF c \in woken THEN Append(ready[c], item) ELSE ready[c]]
    BY DEF PropagateFailure
  <2>2. ASSUME NEW c \in Nodes PROVE Append(ready[c], item) \in Seq(Contexts) /\ ready[c] \in Seq(Contexts)
    <3>1. ready[c] \in Seq(Contexts)
      BY DEF Types
    <3> HIDE DEF item
    <3> QED BY <1>3, <3>1
  <2> HIDE DEF item, woken
  <2> QED BY <2>1, <2>2
<1>5. handledFailureSources' \in [Nodes -> SUBSET Nodes]
  BY <1>1 DEF PropagateFailure, Types
<1>6. work' \in Seq(Frame)
  <2>1. work' = Loop("cancel", n, SuccChildren(n))
    BY DEF PropagateFailure
  <2>2. SuccChildren(n) \in SUBSET Nodes
    BY DEF SuccChildren
  <2> QED BY <1>1, <2>1, <2>2, LoopType DEF CallNames
<1> QED BY <1>1, <1>2, <1>4, <1>5, <1>6 DEF PropagateFailure, Types, batchVars

LEMMA ProcessChildTypes ==
  ASSUME Types, NEW c \in Nodes, NEW type \in {"fulfilled", "skipped"}, ProcessChild(c, type)
  PROVE  Types'
<1>1. Top.from \in Nodes /\ Rest(c) \in Seq(Frame)
  BY TopType DEF ProcessChild
<1>2. Loop("skip", c, {c}) \in Seq(Frame)
  BY LoopType DEF CallNames
<1>3. work' \in Seq(Frame)
  <2>1. work' = Rest(c) \/ work' = Loop("skip", c, {c}) \o Rest(c)
    BY DEF ProcessChild
  <2> QED BY <1>1, <1>2, <2>1, ConcatType
<1>4. nodeStates[c] \in NodeState
  BY DEF Types
<1>5. nodeStates' \in [Nodes -> NodeState]
  <2> DEFINE left    == nodeStates[c].successParents \ {Top.from}
             dead    == IF type = "skipped" THEN nodeStates[c].skippedParents \union {Top.from}
                                            ELSE nodeStates[c].skippedParents
             done    == nodeStates[c].triggeredBySuccess \/ Triggers(c, type)
  <2>1. CASE Undecided(c, Top.from)
    <3>1. nodeStates' = [nodeStates EXCEPT ![c] =
                           [nodeStates[c] EXCEPT !.successParents = left,
                                                 !.skippedParents = dead,
                                                 !.triggeredBySuccess = done]]
      BY <2>1, Zenon DEF ProcessChild, Remaining
    <3>2. left \in SUBSET Nodes /\ dead \in SUBSET Nodes /\ done \in BOOLEAN
      BY <1>1, <1>4 DEF NodeState, Triggers
    <3> HIDE DEF left, dead, done
    <3>3. [nodeStates[c] EXCEPT !.successParents = left, !.skippedParents = dead,
                                !.triggeredBySuccess = done] \in NodeState
      BY <3>2, <1>4, NodeStateUpdate
    <3> QED BY <3>1, <3>3 DEF Types
  <2>2. CASE ~Undecided(c, Top.from)
    BY <2>2 DEF ProcessChild, Types
  <2> QED BY <2>1, <2>2
<1>6. QueueIfErrorState(c, Top.from) \in [Nodes -> Seq(Contexts)]
  BY <1>1, QueueType
<1>7. ready' \in [Nodes -> Seq(Contexts)]
  <2>1. ready' = ready \/ ready' = QueueIfErrorState(c, Top.from)
    BY DEF ProcessChild
  <2> QED BY <1>6, <2>1 DEF Types
<1>8. UNCHANGED <<batchVars, pending, failedErrors, handledFailureSources, failQueue>>
  BY DEF ProcessChild
<1> QED BY <1>3, <1>5, <1>7, <1>8 DEF Types, batchVars

LEMMA HandleSkipTypes ==
  ASSUME Types, NEW c \in Nodes, HandleSkip(c) \/ SkipCallbackFails(c)
  PROVE  Types'
<1>1. nodeStates[c] \in NodeState
  BY DEF Types
<1>2. nodeStates' \in [Nodes -> NodeState]
  <2> DEFINE new == [nodeStates[c] EXCEPT !.skipped = TRUE]
  <2>1. nodeStates' = nodeStates \/ nodeStates' = [nodeStates EXCEPT ![c] = new]
    BY DEF HandleSkip, SkipCallbackFails
  <2>2. new \in NodeState
    BY <1>1, NodeStateUpdate
  <2> HIDE DEF new
  <2> QED BY <2>1, <2>2 DEF Types
<1>3. CASE SkipCallbackFails(c)
  BY <1>2, <1>3 DEF SkipCallbackFails, Types
<1>4. CASE HandleSkip(c)
  <2>1. Rest(c) \in Seq(Frame)
    BY <1>4, TopType DEF HandleSkip
  <2>2. /\ Loop("inactive", c, FailChildren(c)) \in Seq(Frame)
        /\ Loop("skipped", c, SuccChildren(c)) \in Seq(Frame)
    BY LoopType DEF CallNames, FailChildren, SuccChildren
  <2>3. \/ work' = Rest(c)
        \/ work' = Loop("inactive", c, FailChildren(c))
                     \o Loop("skipped", c, SuccChildren(c)) \o Rest(c)
    BY <1>4 DEF HandleSkip
  <2>4. work' \in Seq(Frame)
    <3>1. CASE work' = Rest(c)
      BY <2>1, <3>1
    <3>2. CASE work' = Loop("inactive", c, FailChildren(c))
                         \o Loop("skipped", c, SuccChildren(c)) \o Rest(c)
      BY <2>1, <2>2, <3>2, ConcatType
    <3> QED BY <2>3, <3>1, <3>2
  <2> QED BY <1>2, <1>4, <2>4 DEF HandleSkip, Types, batchVars
<1> QED BY <1>3, <1>4

LEMMA MarkInactiveTypes ==
  ASSUME Types, NEW c \in Nodes, MarkInactive(c)
  PROVE  Types'
<1>1. Top.from \in Nodes /\ Rest(c) \in Seq(Frame)
  BY TopType DEF MarkInactive
<1>2. Loop("skip", c, {c}) \in Seq(Frame)
  BY LoopType DEF CallNames
<1>3. work' \in Seq(Frame)
  <2>1. work' = Rest(c) \/ work' = Loop("skip", c, {c}) \o Rest(c)
    BY DEF MarkInactive
  <2> QED BY <1>1, <1>2, <2>1, ConcatType
<1>4. nodeStates[c] \in NodeState
  BY DEF Types
<1>5. nodeStates' \in [Nodes -> NodeState]
  <2> DEFINE inactive == nodeStates[c].inactiveFailureParents \union {Top.from}
             new == [nodeStates[c] EXCEPT !.inactiveFailureParents = inactive]
  <2>1. nodeStates' = nodeStates \/ nodeStates' = [nodeStates EXCEPT ![c] = new]
    BY DEF MarkInactive
  <2>2. inactive \in SUBSET Nodes
    BY <1>1, <1>4 DEF NodeState
  <2>3. new \in NodeState
    <3> HIDE DEF inactive
    <3> QED BY <1>4, <2>2, NodeStateUpdate
  <2> HIDE DEF new
  <2> QED BY <2>1, <2>3 DEF Types
<1> QED BY <1>3, <1>5 DEF MarkInactive, Types, batchVars

LEMMA CancelChildTypes ==
  ASSUME Types, NEW c \in Nodes, CancelChild(c)
  PROVE  Types'
<1>1. Top.from \in Nodes /\ Rest(c) \in Seq(Frame)
  BY TopType DEF CancelChild
<1>2. Loop("skipped", Top.from, {c}) \in Seq(Frame)
  BY <1>1, LoopType DEF CallNames
<1>3. work' \in Seq(Frame)
  <2>1. work' = Rest(c) \/ work' = Loop("skipped", Top.from, {c}) \o Rest(c)
    BY DEF CancelChild
  <2> QED BY <1>1, <1>2, <2>1, ConcatType
<1>4. nodeStates[c] \in NodeState
  BY DEF Types
<1>5. nodeStates' \in [Nodes -> NodeState]
  <2> DEFINE left == nodeStates[c].successParents \ {Top.from}
             must == MustCancel(c, left)
             new  == [nodeStates[c] EXCEPT !.successParents = left, !.failureTriggered = must]
  <2>1. nodeStates' = nodeStates \/ nodeStates' = [nodeStates EXCEPT ![c] = new]
    BY DEF CancelChild, Remaining
  <2>2. left \in SUBSET Nodes /\ must \in BOOLEAN
    BY <1>1, <1>4 DEF NodeState, MustCancel
  <2>3. new \in NodeState
    <3> HIDE DEF left, must
    <3> QED BY <1>4, <2>2, NodeStateUpdate
  <2> HIDE DEF new
  <2> QED BY <2>1, <2>3 DEF Types
<1>6. failQueue' = failQueue \/ failQueue' = Append(failQueue, c)
  BY DEF CancelChild
<1>7. /\ pending' = pending \/ pending' = pending \ {c}
      /\ failedErrors' = failedErrors \/ failedErrors' = failedErrors \union {c}
  BY DEF CancelChild
<1>8. failQueue' \in Seq(Nodes) /\ pending' \subseteq Nodes /\ failedErrors' \subseteq Nodes
  <2>1. failQueue \in Seq(Nodes) /\ Append(failQueue, c) \in Seq(Nodes)
    BY DEF Types
  <2>2. failQueue' \in Seq(Nodes)
    BY <1>6, <2>1
  <2>3. pending' \subseteq Nodes /\ failedErrors' \subseteq Nodes
    BY <1>7 DEF Types
  <2> QED BY <2>2, <2>3
<1>9. UNCHANGED <<batchVars, ready, handledFailureSources>>
  BY DEF CancelChild
<1> QED BY <1>3, <1>5, <1>8, <1>9 DEF Types, batchVars

LEMMA PropagateTypes == Types /\ Propagate => Types'
BY PropagateFailureTypes, ProcessChildTypes, HandleSkipTypes, MarkInactiveTypes,
   CancelChildTypes DEF Propagate

LEMMA TypesNext == Types /\ [Next]_vars => Types'
<1>1. Types /\ UNCHANGED vars => Types'
  BY DEF Types, vars
<1> QED BY <1>1, ScheduleTypes, SettleTypes, PropagateTypes DEF Next

-------------------------------------------------------------------------------
(***************************************************************************)
(* StartSound.                                                             *)
(***************************************************************************)

(* What processChild does to the state of its child.                       *)
LEMMA ProcessChildEffect ==
  ASSUME Types, NEW c \in Nodes, NEW type \in {"fulfilled", "skipped"}, ProcessChild(c, type)
  PROVE  /\ \A n \in Nodes \ {c} : nodeStates'[n] = nodeStates[n]
         /\ nodeStates'[c].skipped = nodeStates[c].skipped
         /\ nodeStates'[c].failureTriggered = nodeStates[c].failureTriggered
         /\ nodeStates'[c].errorTriggeredBy = nodeStates[c].errorTriggeredBy
         /\ nodeStates'[c].inactiveFailureParents = nodeStates[c].inactiveFailureParents
         /\ ~Undecided(c, Top.from) => UNCHANGED <<nodeStates, ready>>
         /\ Undecided(c, Top.from) =>
              /\ nodeStates'[c].successParents = nodeStates[c].successParents \ {Top.from}
              /\ nodeStates'[c].skippedParents =
                   IF type = "skipped" THEN nodeStates[c].skippedParents \union {Top.from}
                                       ELSE nodeStates[c].skippedParents
              /\ nodeStates'[c].triggeredBySuccess =
                   (nodeStates[c].triggeredBySuccess \/ Triggers(c, type))
<1> DEFINE left == nodeStates[c].successParents \ {Top.from}
           dead == IF type = "skipped" THEN nodeStates[c].skippedParents \union {Top.from}
                                       ELSE nodeStates[c].skippedParents
           done == nodeStates[c].triggeredBySuccess \/ Triggers(c, type)
           new  == [nodeStates[c] EXCEPT !.successParents = left,
                                         !.skippedParents = dead,
                                         !.triggeredBySuccess = done]
<1>1. nodeStates \in [Nodes -> NodeState] /\ nodeStates[c] \in NodeState
  BY DEF Types
<1>2. CASE Undecided(c, Top.from)
  <2>1. nodeStates' = [nodeStates EXCEPT ![c] = new]
    BY <1>2, Zenon DEF ProcessChild, Remaining, Triggers
  <2>2. /\ new.successParents = left /\ new.skippedParents = dead
        /\ new.triggeredBySuccess = done
        /\ new.skipped = nodeStates[c].skipped
        /\ new.failureTriggered = nodeStates[c].failureTriggered
        /\ new.errorTriggeredBy = nodeStates[c].errorTriggeredBy
        /\ new.inactiveFailureParents = nodeStates[c].inactiveFailureParents
    <3> HIDE DEF left, dead, done
    <3> QED BY <1>1 DEF NodeState
  <2> HIDE DEF new
  <2>3. nodeStates'[c] = new /\ \A n \in Nodes \ {c} : nodeStates'[n] = nodeStates[n]
    BY <1>1, <2>1
  <2> QED BY <1>2, <2>2, <2>3
<1>3. CASE ~Undecided(c, Top.from)
  BY <1>3, Zenon DEF ProcessChild
<1> QED BY <1>2, <1>3

(* What dequeuing a failure does to the state of any action.               *)
LEMMA PropagateFailureEffect ==
  ASSUME Types, PropagateFailure, NEW c \in Nodes
  PROVE  /\ nodeStates'[c].skipped = nodeStates[c].skipped
         /\ nodeStates'[c].successParents = nodeStates[c].successParents
         /\ nodeStates'[c].skippedParents = nodeStates[c].skippedParents
         /\ nodeStates'[c].triggeredBySuccess = nodeStates[c].triggeredBySuccess
         /\ nodeStates'[c].inactiveFailureParents = nodeStates[c].inactiveFailureParents
         /\ nodeStates'[c].failureTriggered =
              (nodeStates[c].failureTriggered \/ c = Head(failQueue))
         /\ \/ nodeStates'[c].errorTriggeredBy = nodeStates[c].errorTriggeredBy
            \/ /\ nodeStates'[c].errorTriggeredBy = Head(failQueue)
               /\ c \in FailChildren(Head(failQueue))
<1> DEFINE n == Head(failQueue)
           H == {x \in FailChildren(n) : x # n /\ ~nodeStates[x].failureTriggered}
           new(x) == [nodeStates[x] EXCEPT
                        !.failureTriggered = @ \/ x = n,
                        !.errorTriggeredBy = IF x \in H THEN n ELSE @]
<1>1. nodeStates' = [x \in Nodes |-> new(x)]
  BY DEF PropagateFailure
<1>2. nodeStates[c] \in NodeState
  BY DEF Types
<1>3. /\ new(c).skipped = nodeStates[c].skipped
      /\ new(c).successParents = nodeStates[c].successParents
      /\ new(c).skippedParents = nodeStates[c].skippedParents
      /\ new(c).triggeredBySuccess = nodeStates[c].triggeredBySuccess
      /\ new(c).inactiveFailureParents = nodeStates[c].inactiveFailureParents
      /\ new(c).failureTriggered = (nodeStates[c].failureTriggered \/ c = n)
      /\ new(c).errorTriggeredBy = IF c \in H THEN n ELSE nodeStates[c].errorTriggeredBy
  <2> HIDE DEF H, n
  <2> QED BY <1>2 DEF NodeState
<1>4. c \in H => c \in FailChildren(n)
  OBVIOUS
<1>5. nodeStates'[c] = new(c)
  <2> HIDE DEF new
  <2> QED BY <1>1
<1> HIDE DEF new, H
<1> QED BY <1>3, <1>4, <1>5

(* What an action delivered, and that it failed, is never taken back.      *)
LEMMA Monotone ==
  ASSUME Types, PendingFresh, Next
  PROVE  /\ graph' = graph
         /\ \A p, n \in Nodes : Delivered(p, n) => Delivered(p, n)'
         /\ \A p \in Nodes : HasFailed(p) => HasFailed(p)'
<1>1. CASE Schedule
  <2>1. CASE StartBatch
    BY <2>1 DEF StartBatch, PendingFresh, Delivered, HasFailed, Types
  <2>2. CASE RethrowCancellation
    BY <2>2 DEF RethrowCancellation, Delivered, HasFailed, Types
  <2>3. CASE HandleSuccess
    BY <2>3 DEF HandleSuccess, PendingFresh, Delivered, HasFailed, Types
  <2>4. CASE HandleFailure
    BY <2>4 DEF HandleFailure, PendingFresh, Delivered, HasFailed, Types
  <2>5. CASE ThrowDeadlock
    BY <2>5 DEF ThrowDeadlock, Delivered, HasFailed, Types
  <2>6. CASE Return
    BY <2>6 DEF Return, Delivered, HasFailed, Types
  <2> QED
    BY <1>1, <2>1, <2>2, <2>3, <2>4, <2>5, <2>6 DEF Schedule
<1>2. CASE Settle
  <2>1. PICK m \in Nodes : SettleOk(m) \/ SettleRejected(m)
    BY <1>2 DEF Settle
  <2>2. result[m] = "running" /\ UNCHANGED <<graph, pending, nodeStates>>
    BY <2>1 DEF SettleOk, SettleRejected
  <2>3. \A p \in Nodes : p # m => result'[p] = result[p] /\ active'[p] = active[p]
    BY <2>1 DEF SettleOk, SettleRejected, Types
  <2> QED BY <2>2, <2>3 DEF Delivered, HasFailed
<1>3. CASE Propagate
  <2>1. UNCHANGED <<graph, result, active>>
    BY <1>3, Zenon DEF Propagate, PropagateFailure, ProcessChild, HandleSkip, SkipCallbackFails,
       MarkInactive, CancelChild, batchVars
  <2>2. ASSUME NEW p \in Nodes, p \notin pending, ~nodeStates[p].skipped
        PROVE  p \notin pending' /\ ~(nodeStates[p].skipped)'
    <3>1. CASE PropagateFailure
      <4>1. pending' = pending
        BY <3>1 DEF PropagateFailure
      <4> QED BY <2>2, <3>1, <4>1, PropagateFailureEffect
    <3>2. ASSUME NEW c \in Nodes, NEW type \in {"fulfilled", "skipped"}, ProcessChild(c, type)
          PROVE  p \notin pending' /\ ~(nodeStates[p].skipped)'
      <4>1. pending' = pending
        BY <3>2 DEF ProcessChild
      <4> QED BY <2>2, <3>2, <4>1, ProcessChildEffect
    <3>3. ASSUME NEW c \in Nodes, HandleSkip(c) \/ SkipCallbackFails(c)
          PROVE  p \notin pending' /\ ~(nodeStates[p].skipped)'
      BY <2>2, <3>3 DEF HandleSkip, SkipCallbackFails, Types
    <3>4. ASSUME NEW c \in Nodes, MarkInactive(c)
          PROVE  p \notin pending' /\ ~(nodeStates[p].skipped)'
      BY <2>2, <3>4 DEF MarkInactive, Types
    <3>5. ASSUME NEW c \in Nodes, CancelChild(c)
          PROVE  p \notin pending' /\ ~(nodeStates[p].skipped)'
      BY <2>2, <3>5 DEF CancelChild, Types
    <3> QED BY <1>3, <3>1, <3>2, <3>3, <3>4, <3>5 DEF Propagate
  <2> QED BY <2>1, <2>2 DEF Delivered, HasFailed
<1> QED BY <1>1, <1>2, <1>3 DEF Next

(* So a join that is met stays met.                                        *)
LEMMA MetForever ==
  ASSUME Types, PendingFresh, Next, NEW n \in Nodes
  PROVE  /\ JoinMet(n) => JoinMet(n)'
         /\ ErrorMet(n) => ErrorMet(n)'
<1>1. SuccParents(n)' = SuccParents(n) /\ FailParents(n)' = FailParents(n)
  BY Monotone DEF SuccParents, FailParents
<1>2. SuccParents(n) \subseteq Nodes /\ FailParents(n) \subseteq Nodes
  BY DEF SuccParents, FailParents
<1> QED BY <1>1, <1>2, Monotone DEF JoinMet, ErrorMet

(* Soundness of the loops on the stack, frame by frame.                    *)
LEMMA LoopSound ==
  ASSUME NEW call, NEW from, NEW kids,
         call = "fulfilled" => \A c \in kids : Delivered(from, c),
         call = "skip" => kids \subseteq {from}
  PROVE  \A i \in DOMAIN Loop(call, from, kids) : FrameSound(Loop(call, from, kids)[i])
<1>1. CASE kids = {}
  BY <1>1 DEF Loop
<1>2. CASE kids # {}
  <2> DEFINE f == [call |-> call, from |-> from, kids |-> kids]
  <2>1. FrameSound(f)
    BY <1>2 DEF FrameSound
  <2>2. Loop(call, from, kids) = <<f>>
    BY <1>2 DEF Loop
  <2> HIDE DEF f
  <2> QED BY <2>1, <2>2
<1> QED BY <1>1, <1>2

LEMMA ConcatSound ==
  ASSUME NEW A \in Seq(Frame), NEW B \in Seq(Frame),
         \A i \in DOMAIN A : FrameSound(A[i]),
         \A i \in DOMAIN B : FrameSound(B[i])
  PROVE  /\ A \o B \in Seq(Frame)
         /\ \A i \in DOMAIN (A \o B) : FrameSound((A \o B)[i])
<1>1. ASSUME NEW i \in DOMAIN (A \o B)
      PROVE  FrameSound((A \o B)[i])
  <2>1. CASE i <= Len(A)
    BY <2>1
  <2>2. CASE i > Len(A)
    BY <2>2
  <2> QED BY <2>1, <2>2
<1> QED BY <1>1

LEMMA RestSound ==
  ASSUME Types, FramesSound, NEW call, NEW c, Calls(call, c)
  PROVE  \A i \in DOMAIN Rest(c) : FrameSound(Rest(c)[i])
<1>1. work \in Seq(Frame) /\ work # <<>> /\ c \in Top.kids /\ Top = work[1]
  BY DEF Types, Calls, Top
<1>2. Top \in Frame /\ FrameSound(Top)
  BY <1>1 DEF FramesSound
<1>3. Tail(work) \in Seq(Frame) /\ \A i \in DOMAIN Tail(work) : FrameSound(Tail(work)[i])
  BY <1>1 DEF FramesSound
<1> DEFINE L == Loop(Top.call, Top.from, Top.kids \ {c})
<1>4. L \in Seq(Frame)
  BY <1>2, LoopType DEF Frame, CallNames
<1>5. \A i \in DOMAIN L : FrameSound(L[i])
  <2>1. Top.call = "fulfilled" => \A x \in Top.kids \ {c} : Delivered(Top.from, x)
    BY <1>2 DEF FrameSound
  <2>2. Top.call = "skip" => Top.kids \ {c} \subseteq {Top.from}
    BY <1>2 DEF FrameSound
  <2> QED BY <2>1, <2>2, LoopSound
<1> HIDE DEF L
<1>6. Rest(c) = L \o Tail(work)
  BY DEF Rest, L
<1> QED BY <1>3, <1>4, <1>5, <1>6, ConcatSound

LEMMA FramesStep ==
  ASSUME Types, Types', PendingFresh, Next,
         \A i \in DOMAIN work' : FrameSound(work'[i])
  PROVE  FramesSound'
<1> SUFFICES ASSUME NEW i \in DOMAIN work' PROVE FrameSound(work[i])'
  BY DEF FramesSound
<1>1. work'[i] \in Frame
  BY DEF Types
<1>2. FrameSound(work'[i])
  OBVIOUS
<1>3. \A p, n \in Nodes : Delivered(p, n) => Delivered(p, n)'
  BY Monotone
<1>4. work'[i].from \in Nodes /\ work'[i].kids \subseteq Nodes
  BY <1>1 DEF Frame
<1> QED BY <1>2, <1>3, <1>4 DEF FrameSound

(* Actions that change neither the graph walk nor the results.             *)
LEMMA StartInvUnchanged ==
  ASSUME StartInv,
         UNCHANGED <<graph, pending, ready, nodeStates, settled, work, failQueue, result, active>>
  PROVE  StartInv'
<1>1. PendingFresh' /\ QueuesSound'
  BY DEF StartInv, PendingFresh, QueuesSound, HasFailed
<1>2. JoinProgress'
  BY DEF StartInv, JoinProgress, JoinMet, Delivered, SuccParents
<1>3. ErrorTrue'
  BY DEF StartInv, ErrorTrue, HasFailed, FailParents
<1>4. ReadySound'
  BY DEF StartInv, ReadySound, JoinMet, ErrorMet, Delivered, HasFailed, SuccParents, FailParents
<1>5. DeadIsSkipped'
  BY DEF StartInv, DeadIsSkipped, JoinDead, SuccParents, Top
<1>6. FramesSound'
  BY DEF StartInv, FramesSound, FrameSound, Delivered
<1>7. StartedMet'
  BY DEF StartInv, StartedMet, JoinMet, ErrorMet, Delivered, HasFailed, SuccParents, FailParents
<1> QED BY <1>1, <1>2, <1>3, <1>4, <1>5, <1>6, <1>7 DEF StartInv

LEMMA InitStartInv == Init => StartInv
<1> SUFFICES ASSUME Init PROVE StartInv
  OBVIOUS
<1>1. \A n \in Nodes : /\ nodeStates[n].successParents = SuccParents(n)
                       /\ nodeStates[n].skippedParents = {}
                       /\ nodeStates[n].triggeredBySuccess = (SuccParents(n) = {})
                       /\ nodeStates[n].failureTriggered = FALSE
                       /\ nodeStates[n].errorTriggeredBy = NoNode
                       /\ nodeStates[n].skipped = FALSE
                       /\ result[n] = "none"
  BY DEF Init, InitialNodeState
<1>2. PendingFresh /\ JoinProgress /\ ErrorTrue
  BY <1>1 DEF Init, PendingFresh, JoinProgress, ErrorTrue, JoinMet
<1>3. ReadySound
  BY DEF Init, ReadySound, JoinMet, ErrorMet
<1>4. DeadIsSkipped
  BY <1>1 DEF Init, DeadIsSkipped, JoinDead
<1>5. FramesSound /\ QueuesSound /\ StartedMet
  BY <1>1 DEF Init, FramesSound, QueuesSound, StartedMet
<1> QED BY <1>2, <1>3, <1>4, <1>5 DEF StartInv

(* While the stack is empty no join is dead.                               *)
LEMMA NoneDead ==
  ASSUME StartInv, work = <<>> \/ Top.call # "skip"
  PROVE  \A n \in pending : ~JoinDead(n)
BY DEF StartInv, DeadIsSkipped

LEMMA StartBatchInv ==
  ASSUME Types, StartInv, StartBatch
  PROVE  StartInv'
<1> DEFINE started == {n \in pending : ready[n] # <<>>}
<1>1. Next /\ PendingFresh /\ pending \subseteq Nodes
  BY DEF Next, Schedule, StartInv, Types
<1>2. work = <<>> /\ failQueue = <<>> /\ settled = <<>>
  BY DEF StartBatch, AtLoopHead, HandlingDone
<1>3. /\ pending' = pending \ started
      /\ \A n \in Nodes : result'[n] = IF n \in started THEN "running" ELSE result[n]
      /\ \A n \in Nodes : ready'[n] = <<>>
      /\ UNCHANGED <<graph, nodeStates, settled, work, failQueue, active>>
  BY DEF StartBatch, Types
<1> HIDE DEF started
<1>4. PendingFresh'
  BY <1>1, <1>3 DEF PendingFresh
<1>5. JoinProgress'
  <2> SUFFICES ASSUME NEW n \in pending' PROVE
        /\ nodeStates[n].successParents \subseteq SuccParents(n)
        /\ graph.join[n] = "all" =>
             \A p \in SuccParents(n) \ nodeStates[n].successParents :
               p \in nodeStates[n].skippedParents \/ Delivered(p, n)'
        /\ graph.join[n] = "any" /\ nodeStates[n].triggeredBySuccess => JoinMet(n)'
    BY <1>3 DEF JoinProgress, SuccParents
  <2>1. n \in pending /\ n \in Nodes
    BY <1>1, <1>3
  <2>2. SuccParents(n) \subseteq Nodes
    BY DEF SuccParents
  <2> QED BY <1>1, <2>1, <2>2, Monotone, MetForever DEF StartInv, JoinProgress
<1>6. ErrorTrue'
  <2>1. ASSUME NEW n \in Nodes, nodeStates[n].errorTriggeredBy # NoNode
        PROVE  /\ nodeStates[n].errorTriggeredBy \in FailParents(n)
               /\ HasFailed(nodeStates[n].errorTriggeredBy)'
    <3>1. nodeStates[n].errorTriggeredBy \in FailParents(n) /\ HasFailed(nodeStates[n].errorTriggeredBy)
      BY <2>1 DEF StartInv, ErrorTrue
    <3>2. nodeStates[n].errorTriggeredBy \in Nodes
      BY <3>1 DEF FailParents
    <3> QED BY <1>1, <1>3, <3>1, <3>2, Monotone DEF HasFailed
  <2> QED BY <1>3, <2>1 DEF ErrorTrue, FailParents
<1>7. ReadySound'
  BY <1>1, <1>3 DEF ReadySound
<1>8. DeadIsSkipped'
  <2>1. \A n \in pending : ~JoinDead(n)
    BY <1>2, NoneDead
  <2> QED BY <1>3, <2>1 DEF DeadIsSkipped, JoinDead, SuccParents
<1>9. FramesSound' /\ QueuesSound'
  BY <1>2, <1>3 DEF FramesSound, QueuesSound
<1>10. StartedMet'
  <2> SUFFICES ASSUME NEW n \in Nodes, result'[n] # "none" PROVE JoinMet(n)' /\ ErrorMet(n)'
    BY DEF StartedMet
  <2>1. JoinMet(n) /\ ErrorMet(n)
    BY <1>3 DEF StartInv, StartedMet, ReadySound, started
  <2> QED BY <1>1, <2>1, MetForever
<1> QED BY <1>4, <1>5, <1>6, <1>7, <1>8, <1>9, <1>10 DEF StartInv

(* A step that leaves the relevant part of a node state alone keeps what   *)
(* the invariant says of that action.                                      *)
LEMMA ProgressKept ==
  ASSUME Types, StartInv, Next, NEW n \in pending, n \in pending',
         nodeStates'[n].successParents = nodeStates[n].successParents,
         nodeStates'[n].skippedParents = nodeStates[n].skippedParents,
         nodeStates'[n].triggeredBySuccess = nodeStates[n].triggeredBySuccess
  PROVE  /\ nodeStates'[n].successParents \subseteq SuccParents(n)'
         /\ graph'.join[n] = "all" =>
              \A p \in SuccParents(n)' \ nodeStates'[n].successParents :
                p \in nodeStates'[n].skippedParents \/ Delivered(p, n)'
         /\ graph'.join[n] = "any" /\ nodeStates'[n].triggeredBySuccess => JoinMet(n)'
<1>1. PendingFresh /\ n \in Nodes
  BY DEF StartInv, Types
<1>2. graph' = graph /\ SuccParents(n)' = SuccParents(n) /\ SuccParents(n) \subseteq Nodes
  BY <1>1, Monotone DEF SuccParents
<1> QED BY <1>1, <1>2, Monotone, MetForever DEF StartInv, JoinProgress

LEMMA ErrorKept ==
  ASSUME Types, StartInv, Next, NEW n \in Nodes,
         nodeStates'[n].errorTriggeredBy = nodeStates[n].errorTriggeredBy,
         nodeStates'[n].errorTriggeredBy # NoNode
  PROVE  /\ nodeStates'[n].errorTriggeredBy \in FailParents(n)'
         /\ HasFailed(nodeStates[n].errorTriggeredBy)'
<1> DEFINE by == nodeStates[n].errorTriggeredBy
<1>1. by \in FailParents(n) /\ HasFailed(by)
  BY DEF StartInv, ErrorTrue
<1>2. by \in Nodes /\ PendingFresh
  BY <1>1 DEF FailParents, StartInv
<1>3. FailParents(n)' = FailParents(n)
  BY <1>2, Monotone DEF FailParents
<1>4. HasFailed(by) => nodeStates'[n].errorTriggeredBy = by
  OBVIOUS
<1>5. \A p \in Nodes : HasFailed(p) => HasFailed(p)'
  BY <1>2, Monotone
<1>6. HasFailed(nodeStates'[n].errorTriggeredBy) = HasFailed(by)
  OBVIOUS
<1> QED BY <1>1, <1>2, <1>3, <1>5 DEF HasFailed

LEMMA StartedKept ==
  ASSUME Types, StartInv, Next, \A n \in Nodes : result'[n] # "none" => result[n] # "none"
  PROVE  StartedMet'
BY MetForever DEF StartInv, StartedMet

LEMMA ReadyKept ==
  ASSUME Types, StartInv, Next, NEW n \in pending, ready'[n] # <<>> => ready[n] # <<>>
  PROVE  ready'[n] # <<>> => JoinMet(n)' /\ ErrorMet(n)'
BY MetForever DEF StartInv, ReadySound, Types

LEMMA FailQueueKept ==
  ASSUME Types, StartInv, Next, NEW q \in Nodes, HasFailed(q)
  PROVE  HasFailed(q)'
BY Monotone DEF StartInv

LEMMA HandleOutcomeInv ==
  ASSUME Types, Types', StartInv, HandleSuccess \/ HandleFailure
  PROVE  StartInv'
<1> DEFINE n == Head(settled)
<1>1. Next /\ pending \subseteq Nodes
  BY DEF Next, Schedule, Types
<1>2. /\ UNCHANGED <<graph, pending, ready, nodeStates, result, active>>
      /\ work = <<>> /\ failQueue = <<>> /\ settled # <<>>
      /\ settled' = Tail(settled)
  BY DEF HandleSuccess, HandleFailure, CanHandleOutcome, HandlingDone
<1>3. n \in Nodes /\ result[n] \in {"ok", "err", "cancelled"}
  BY <1>2 DEF StartInv, QueuesSound, Types
<1>4. PendingFresh'
  BY <1>2 DEF StartInv, PendingFresh
<1>5. JoinProgress'
  BY <1>2 DEF StartInv, JoinProgress, JoinMet, Delivered, SuccParents
<1>6. ErrorTrue'
  BY <1>2 DEF StartInv, ErrorTrue, HasFailed, FailParents
<1>7. ReadySound' /\ StartedMet'
  BY <1>1, <1>2, ReadyKept, StartedKept DEF ReadySound
<1>8. DeadIsSkipped'
  <2>1. \A m \in pending : ~JoinDead(m)
    BY <1>2, NoneDead
  <2> QED BY <1>2, <2>1 DEF DeadIsSkipped, JoinDead, SuccParents
<1>9. FramesSound' /\ (\A i \in DOMAIN failQueue' : HasFailed(failQueue[i])')
  <2>1. CASE HandleSuccess
    <3>1. work' = Loop("fulfilled", n, active[n])
                    \o Loop("skipped", n, SuccChildren(n) \ active[n])
                    \o Loop("inactive", n, FailChildren(n))
          /\ failQueue' = <<>> /\ result[n] = "ok"
      BY <1>2, <2>1 DEF HandleSuccess
    <3> DEFINE A == Loop("fulfilled", n, active[n])
               B == Loop("skipped", n, SuccChildren(n) \ active[n])
               C == Loop("inactive", n, FailChildren(n))
    <3>2. A \in Seq(Frame) /\ B \in Seq(Frame) /\ C \in Seq(Frame)
      BY <1>3, LoopType DEF CallNames, Types, SuccChildren, FailChildren
    <3>3. /\ \A i \in DOMAIN A : FrameSound(A[i])
          /\ \A i \in DOMAIN B : FrameSound(B[i])
          /\ \A i \in DOMAIN C : FrameSound(C[i])
      <4>1. \A c \in active[n] : Delivered(n, c)
        BY <3>1 DEF Delivered
      <4> HIDE DEF n
      <4> QED BY <4>1, LoopSound
    <3> HIDE DEF A, B, C
    <3>4. B \o C \in Seq(Frame) /\ \A i \in DOMAIN (B \o C) : FrameSound((B \o C)[i])
      BY <3>2, <3>3, ConcatSound
    <3>5. A \o (B \o C) \in Seq(Frame) /\ \A i \in DOMAIN (A \o (B \o C)) : FrameSound((A \o (B \o C))[i])
      BY <3>2, <3>3, <3>4, ConcatSound
    <3>6. (A \o B) \o C = A \o (B \o C)
      BY <3>2
    <3>7. work' = A \o (B \o C)
      BY <3>1, <3>6 DEF A, B, C
    <3>8. \A i \in DOMAIN work' : FrameSound(work'[i])
      BY <3>5, <3>7
    <3>9. PendingFresh
      BY DEF StartInv
    <3>10. FramesSound'
      BY <1>1, <3>8, <3>9, FramesStep
    <3> QED BY <3>1, <3>10
  <2>2. CASE HandleFailure
    <3>1. work' = <<>> /\ failQueue' = <<n>> /\ result[n] \in {"err", "cancelled"}
      BY <1>2, <1>3, <2>2 DEF HandleFailure
    <3> QED BY <1>2, <3>1 DEF FramesSound, HasFailed
  <2> QED BY <2>1, <2>2
<1>10. QueuesSound'
  <2>1. \A i \in DOMAIN settled' : result[settled'[i]] \in {"ok", "err", "cancelled"}
    BY <1>2 DEF StartInv, QueuesSound, Types
  <2> QED BY <1>2, <1>9, <2>1 DEF QueuesSound
<1> QED BY <1>4, <1>5, <1>6, <1>7, <1>8, <1>9, <1>10 DEF StartInv

LEMMA SettleInv ==
  ASSUME Types, Types', StartInv, NEW n \in Nodes, SettleOk(n) \/ SettleRejected(n)
  PROVE  StartInv'
<1>1. Next /\ pending \subseteq Nodes
  BY DEF Next, Settle, Types
<1>2. /\ UNCHANGED <<graph, pending, ready, nodeStates, work, failQueue>>
      /\ settled' = Append(settled, n)
      /\ result[n] = "running"
      /\ result'[n] \in {"ok", "err", "cancelled"}
      /\ \A m \in Nodes \ {n} : result'[m] = result[m]
  BY DEF SettleOk, SettleRejected, Types
<1>3. PendingFresh'
  BY <1>1, <1>2 DEF StartInv, PendingFresh
<1>4. JoinProgress'
  BY <1>1, <1>2, ProgressKept DEF JoinProgress
<1>5. ErrorTrue'
  BY <1>1, <1>2, ErrorKept DEF ErrorTrue
<1>6. ReadySound'
  BY <1>1, <1>2, ReadyKept DEF ReadySound
<1>7. DeadIsSkipped'
  BY <1>2 DEF StartInv, DeadIsSkipped, JoinDead, SuccParents, Top
<1>8. FramesSound'
  BY <1>1, <1>2, FramesStep DEF StartInv, FramesSound
<1>9. QueuesSound'
  <2>1. ASSUME NEW i \in DOMAIN settled'
        PROVE  result'[settled'[i]] \in {"ok", "err", "cancelled"}
    <3>1. CASE i \in DOMAIN settled
      <4>1. settled'[i] = settled[i] /\ settled[i] \in Nodes
        BY <1>2, <3>1 DEF Types
      <4> QED BY <1>2, <3>1, <4>1 DEF StartInv, QueuesSound
    <3>2. CASE i \notin DOMAIN settled
      <4>1. settled'[i] = n
        BY <1>2, <3>2 DEF Types
      <4> QED BY <1>2, <4>1
    <3> QED BY <3>1, <3>2
  <2>2. ASSUME NEW i \in DOMAIN failQueue
        PROVE  HasFailed(failQueue[i])'
    <3>1. failQueue[i] \in Nodes /\ HasFailed(failQueue[i])
      BY DEF Types, StartInv, QueuesSound
    <3> QED BY <1>2, <3>1 DEF HasFailed
  <2> QED BY <1>2, <2>1, <2>2 DEF QueuesSound
<1>10. StartedMet'
  BY <1>1, <1>2, StartedKept
<1> QED BY <1>3, <1>4, <1>5, <1>6, <1>7, <1>8, <1>9, <1>10 DEF StartInv

LEMMA PropagateFailureInv ==
  ASSUME Types, Types', StartInv, PropagateFailure
  PROVE  StartInv'
<1>0. PICK n : n = Head(failQueue)
  OBVIOUS
<1>1. Next /\ pending \subseteq Nodes /\ PendingFresh
  BY DEF Next, Propagate, Types, StartInv
<1>2. /\ UNCHANGED <<graph, pending, settled, result, active>>
      /\ work = <<>> /\ failQueue # <<>> /\ failQueue' = Tail(failQueue)
      /\ work' = Loop("cancel", n, SuccChildren(n))
  BY <1>0 DEF PropagateFailure, batchVars
<1>3. n \in Nodes /\ HasFailed(n) /\ n \notin pending
  <2>1. n \in Nodes /\ HasFailed(n)
    BY <1>0, <1>2 DEF StartInv, QueuesSound, Types
  <2> QED BY <2>1 DEF HasFailed, StartInv, PendingFresh
<1>4. HasFailed(n)'
  BY <1>1, <1>3, FailQueueKept
<1>5. \A m \in Nodes : ready'[m] # ready[m] => m \in FailChildren(n) /\ Wakes(m)
  BY <1>0 DEF PropagateFailure, Types
<1>6. PendingFresh'
  <2> SUFFICES ASSUME NEW m \in pending PROVE
        result[m] = "none" /\ ~nodeStates'[m].skipped /\ ~nodeStates'[m].failureTriggered
    BY <1>2 DEF PendingFresh
  <2> QED BY <1>0, <1>1, <1>3, PropagateFailureEffect DEF PendingFresh
<1>7. JoinProgress'
  BY <1>1, <1>2, PropagateFailureEffect, ProgressKept DEF JoinProgress
<1>8. ErrorTrue'
  <2> SUFFICES ASSUME NEW m \in Nodes, nodeStates'[m].errorTriggeredBy # NoNode
               PROVE  /\ nodeStates'[m].errorTriggeredBy \in FailParents(m)'
                      /\ HasFailed(nodeStates[m].errorTriggeredBy)'
    BY DEF ErrorTrue
  <2>1. CASE nodeStates'[m].errorTriggeredBy = nodeStates[m].errorTriggeredBy
    BY <1>1, <2>1, ErrorKept
  <2>2. CASE nodeStates'[m].errorTriggeredBy # nodeStates[m].errorTriggeredBy
    <3>1. nodeStates'[m].errorTriggeredBy = n /\ m \in FailChildren(n)
      BY <1>0, <2>2, PropagateFailureEffect
    <3>2. n \in FailParents(m)'
      BY <1>2, <1>3, <3>1 DEF FailParents, FailChildren
    <3>3. HasFailed(nodeStates[m].errorTriggeredBy)'
      BY <1>4, <3>1 DEF HasFailed
    <3> QED BY <3>1, <3>2, <3>3
  <2> QED BY <2>1, <2>2
<1>9. ReadySound'
  <2> SUFFICES ASSUME NEW m \in pending, ready'[m] # <<>>
               PROVE  JoinMet(m)' /\ ErrorMet(m)'
    BY <1>2 DEF ReadySound
  <2>1. CASE ready'[m] = ready[m]
    BY <1>1, <2>1, ReadyKept
  <2>2. CASE ready'[m] # ready[m]
    <3>1. m \in Nodes /\ m \in FailChildren(n) /\ nodeStates[m].successParents = {}
      BY <1>1, <1>5, <2>2 DEF Wakes
    <3>2. ErrorMet(m)
      BY <1>3, <3>1 DEF ErrorMet, FailParents, FailChildren
    <3>3. ~JoinDead(m)
      BY <1>2, NoneDead
    <3>4. JoinMet(m)
      <4>1. CASE SuccParents(m) = {}
        BY <4>1 DEF JoinMet
      <4>2. CASE SuccParents(m) # {} /\ graph.join[m] = "all"
        BY <3>1, <3>3, <4>2 DEF JoinMet, JoinDead, StartInv, JoinProgress
      <4>3. CASE SuccParents(m) # {} /\ graph.join[m] = "any"
        BY <3>1, <3>3, <4>3 DEF JoinDead, StartInv, JoinProgress
      <4>4. graph.join[m] \in {"all", "any"}
        BY <3>1 DEF Types, Graph, Strategies
      <4> QED BY <4>1, <4>2, <4>3, <4>4
    <3> QED BY <1>1, <3>1, <3>2, <3>4, MetForever
  <2> QED BY <2>1, <2>2
<1>10. DeadIsSkipped'
  <2>1. \A m \in pending : ~JoinDead(m)
    BY <1>2, NoneDead
  <2>2. \A m \in pending : JoinDead(m)' = JoinDead(m)
    BY <1>1, <1>2, PropagateFailureEffect DEF JoinDead, SuccParents
  <2> QED BY <1>2, <2>1, <2>2 DEF DeadIsSkipped
<1>11. FramesSound'
  <2>1. \A i \in DOMAIN work' : FrameSound(work'[i])
    BY <1>2, LoopSound
  <2> QED BY <1>1, <2>1, FramesStep
<1>12. QueuesSound'
  <2>1. ASSUME NEW i \in DOMAIN failQueue'
        PROVE  HasFailed(failQueue[i])'
    <3>1. PICK q \in Nodes : q = failQueue'[i] /\ HasFailed(q)
      <4>1. failQueue'[i] = failQueue[i + 1] /\ i + 1 \in DOMAIN failQueue
        BY <1>2 DEF Types
      <4> QED BY <4>1 DEF Types, StartInv, QueuesSound
    <3>2. HasFailed(q)'
      BY <1>1, <3>1, FailQueueKept
    <3> QED BY <3>1, <3>2 DEF HasFailed
  <2> QED BY <1>2, <2>1 DEF StartInv, QueuesSound
<1>13. StartedMet'
  BY <1>1, <1>2, StartedKept
<1> QED BY <1>6, <1>7, <1>8, <1>9, <1>10, <1>11, <1>12, <1>13 DEF StartInv

(* An iteration of the top loop that starts the loops L first.             *)
LEMMA FramesKept ==
  ASSUME Types, Types', StartInv, Next, NEW call, NEW c, Calls(call, c),
         NEW L \in Seq(Frame), \A i \in DOMAIN L : FrameSound(L[i]),
         work' = Rest(c) \/ work' = L \o Rest(c)
  PROVE  FramesSound'
<1>1. PendingFresh /\ FramesSound
  BY DEF StartInv
<1>2. c \in Top.kids
  BY DEF Calls
<1>3. Rest(c) \in Seq(Frame)
  BY <1>2, TopType DEF Calls
<1>4. \A i \in DOMAIN Rest(c) : FrameSound(Rest(c)[i])
  BY <1>1, RestSound
<1>5. \A i \in DOMAIN (L \o Rest(c)) : FrameSound((L \o Rest(c))[i])
  BY <1>3, <1>4, ConcatSound
<1>6. \A i \in DOMAIN work' : FrameSound(work'[i])
  BY <1>4, <1>5
<1> QED BY <1>1, <1>6, FramesStep

LEMMA QueuesKept ==
  ASSUME Types, StartInv, Next, UNCHANGED <<settled, result, failQueue>>
  PROVE  QueuesSound'
<1>1. ASSUME NEW i \in DOMAIN failQueue
      PROVE  HasFailed(failQueue[i])'
  <2>1. PICK q \in Nodes : q = failQueue[i] /\ HasFailed(q)
    BY DEF Types, StartInv, QueuesSound
  <2>2. HasFailed(q)' /\ q = failQueue'[i]
    BY <2>1, FailQueueKept
  <2> QED BY <2>2 DEF HasFailed
<1> QED BY <1>1 DEF StartInv, QueuesSound

(* Which loops processChild starts: a dead join is skipped at once.        *)
LEMMA ProcessChildLoops ==
  ASSUME Types, NEW c \in Nodes, NEW type \in {"fulfilled", "skipped"}, ProcessChild(c, type)
  PROVE  /\ work' = Rest(c) \/ work' = Loop("skip", c, {c}) \o Rest(c)
         /\ Undecided(c, Top.from) /\ JoinDead(c)' => work' = Loop("skip", c, {c}) \o Rest(c)
<1>1. work' = Rest(c) \/ work' = Loop("skip", c, {c}) \o Rest(c)
  BY Zenon DEF ProcessChild
<1>2. ASSUME Undecided(c, Top.from), JoinDead(c)'
      PROVE  work' = Loop("skip", c, {c}) \o Rest(c)
  <2> DEFINE left == nodeStates[c].successParents \ {Top.from}
             dead == IF type = "skipped" THEN nodeStates[c].skippedParents \union {Top.from}
                                         ELSE nodeStates[c].skippedParents
             done == nodeStates[c].triggeredBySuccess \/ Triggers(c, type)
             skip == left = {} /\ (IF graph.join[c] = "all" THEN dead # {} ELSE ~done)
  <2>1. graph' = graph
    BY DEF ProcessChild, batchVars
  <2>2. skip
    BY <1>2, <2>1, ProcessChildEffect DEF JoinDead
  <2>3. work' = IF skip THEN Loop("skip", c, {c}) \o Rest(c) ELSE Rest(c)
    BY <1>2, Zenon DEF ProcessChild, Remaining
  <2> QED BY <2>2, <2>3
<1> QED BY <1>1, <1>2

LEMMA ProcessChildInv ==
  ASSUME Types, Types', StartInv, NEW c \in Nodes, NEW type \in {"fulfilled", "skipped"},
         ProcessChild(c, type)
  PROVE  StartInv'
<1>0. PICK parent : parent = Top.from
  OBVIOUS
<1>1. Next /\ pending \subseteq Nodes /\ PendingFresh /\ Calls(type, c)
  BY DEF Next, Propagate, Types, StartInv, ProcessChild
<1>2. /\ UNCHANGED <<graph, pending, settled, result, active, failQueue>>
      /\ ready' = ready \/ (Undecided(c, parent) /\ Triggers(c, type)
                            /\ ready' = QueueIfErrorState(c, parent))
  BY <1>0, Zenon DEF ProcessChild, batchVars
<1>3. parent \in Nodes
  BY <1>0, <1>1, TopType DEF Calls
<1>4. type = "fulfilled" => Delivered(parent, c)
  BY <1>0, <1>1 DEF Calls, StartInv, FramesSound, FrameSound, Top, Types
<1>5. \A n \in pending : ~JoinDead(n)
  BY <1>1, NoneDead DEF Calls
<1>6. PendingFresh'
  BY <1>1, <1>2, ProcessChildEffect DEF PendingFresh
<1>7. Undecided(c, parent) /\ Triggers(c, type) => JoinMet(c)
  <2> SUFFICES ASSUME Undecided(c, parent), Triggers(c, type) PROVE JoinMet(c)
    OBVIOUS
  <2>1. c \in pending /\ parent \in nodeStates[c].successParents /\ Delivered(parent, c)
    BY <1>4 DEF Undecided, Triggers
  <2>2. parent \in SuccParents(c)
    BY <2>1 DEF StartInv, JoinProgress
  <2>3. graph.join[c] \in {"all", "any"}
    BY DEF Types, Graph, Strategies
  <2>4. CASE graph.join[c] = "all"
    BY <1>0, <2>1, <2>4 DEF Triggers, StartInv, JoinProgress, JoinMet
  <2>5. CASE graph.join[c] = "any"
    BY <2>1, <2>2, <2>5 DEF JoinMet
  <2> QED BY <2>3, <2>4, <2>5
<1>8. JoinProgress'
  <2> SUFFICES ASSUME NEW n \in pending PROVE
        /\ nodeStates'[n].successParents \subseteq SuccParents(n)'
        /\ graph'.join[n] = "all" =>
             \A p \in SuccParents(n)' \ nodeStates'[n].successParents :
               p \in nodeStates'[n].skippedParents \/ Delivered(p, n)'
        /\ graph'.join[n] = "any" /\ nodeStates'[n].triggeredBySuccess => JoinMet(n)'
    BY <1>2 DEF JoinProgress
  <2>1. CASE n # c \/ ~Undecided(c, parent)
    BY <1>0, <1>1, <1>2, <2>1, ProcessChildEffect, ProgressKept
  <2>2. CASE n = c /\ Undecided(c, parent)
    <3>1. /\ nodeStates'[c].successParents = nodeStates[c].successParents \ {parent}
          /\ nodeStates'[c].skippedParents = IF type = "skipped"
                                             THEN nodeStates[c].skippedParents \union {parent}
                                             ELSE nodeStates[c].skippedParents
          /\ nodeStates'[c].triggeredBySuccess =
               (nodeStates[c].triggeredBySuccess \/ Triggers(c, type))
      BY <1>0, <2>2, ProcessChildEffect
    <3>2. SuccParents(c)' = SuccParents(c) /\ SuccParents(c) \subseteq Nodes
      BY <1>2 DEF SuccParents
    <3>3. /\ nodeStates[c].successParents \subseteq SuccParents(c)
          /\ graph.join[c] = "all" =>
               \A p \in SuccParents(c) \ nodeStates[c].successParents :
                 p \in nodeStates[c].skippedParents \/ Delivered(p, c)
          /\ graph.join[c] = "any" /\ nodeStates[c].triggeredBySuccess => JoinMet(c)
      BY <2>2 DEF StartInv, JoinProgress
    <3>4. \A p \in Nodes : Delivered(p, c) => Delivered(p, c)'
      BY <1>1, Monotone
    <3>5. ASSUME graph.join[c] = "all", NEW p \in SuccParents(c),
                 p \notin nodeStates'[c].successParents
          PROVE  p \in nodeStates'[c].skippedParents \/ Delivered(p, c)'
      BY <1>4, <3>1, <3>2, <3>3, <3>4, <3>5
    <3>6. ASSUME graph.join[c] = "any", nodeStates'[c].triggeredBySuccess
          PROVE  JoinMet(c)'
      <4>1. JoinMet(c)
        BY <1>7, <2>2, <3>1, <3>3, <3>6
      <4> QED BY <1>1, <4>1, MetForever
    <3> QED BY <1>2, <2>2, <3>1, <3>2, <3>3, <3>5, <3>6
  <2> QED BY <2>1, <2>2
<1>9. ErrorTrue'
  <2>1. \A n \in Nodes : nodeStates'[n].errorTriggeredBy = nodeStates[n].errorTriggeredBy
    BY ProcessChildEffect
  <2> QED BY <1>1, <2>1, ErrorKept DEF ErrorTrue
<1>10. ReadySound'
  <2> SUFFICES ASSUME NEW n \in pending, ready'[n] # <<>>
               PROVE  JoinMet(n)' /\ ErrorMet(n)'
    BY <1>2 DEF ReadySound
  <2>1. CASE ready'[n] = ready[n]
    BY <1>1, <2>1, ReadyKept
  <2>2. CASE ready'[n] # ready[n]
    <3>1. Undecided(c, parent) /\ Triggers(c, type) /\ ready' = QueueIfErrorState(c, parent)
      BY <1>2, <2>2
    <3>2. n = c /\ (FailParents(c) # {} => nodeStates[c].errorTriggeredBy # NoNode)
      BY <2>2, <3>1 DEF QueueIfErrorState, Types
    <3>3. ErrorMet(c)
      BY <3>2 DEF StartInv, ErrorTrue, ErrorMet
    <3>4. JoinMet(c)
      BY <1>7, <3>1
    <3> QED BY <1>1, <3>2, <3>3, <3>4, MetForever
  <2> QED BY <2>1, <2>2
<1>11. DeadIsSkipped'
  <2> SUFFICES ASSUME NEW n \in pending, JoinDead(n)'
               PROVE  (work # <<>> /\ Top.call = "skip" /\ n \in Top.kids)'
    BY <1>2 DEF DeadIsSkipped
  <2>1. n = c /\ Undecided(c, parent)
    <3>1. SUFFICES ASSUME n # c \/ ~Undecided(c, parent) PROVE FALSE
      OBVIOUS
    <3>2. nodeStates'[n] = nodeStates[n]
      BY <1>0, <1>1, <3>1, ProcessChildEffect
    <3> QED BY <1>2, <1>5, <3>2 DEF JoinDead, SuccParents
  <2>2. work' = Loop("skip", c, {c}) \o Rest(c)
    BY <1>0, <2>1, ProcessChildLoops
  <2>3. Rest(c) \in Seq(Frame)
    BY <1>1, TopType DEF Calls
  <2>4. Loop("skip", c, {c}) = <<[call |-> "skip", from |-> c, kids |-> {c}]>>
    BY DEF Loop
  <2>5. work' # <<>> /\ Head(work') = [call |-> "skip", from |-> c, kids |-> {c}]
    BY <2>2, <2>3, <2>4
  <2> QED BY <2>1, <2>5 DEF Top
<1>12. FramesSound'
  <2>1. Loop("skip", c, {c}) \in Seq(Frame)
    BY LoopType DEF CallNames
  <2>2. \A i \in DOMAIN Loop("skip", c, {c}) : FrameSound(Loop("skip", c, {c})[i])
    BY LoopSound
  <2> QED BY <1>1, <2>1, <2>2, FramesKept, ProcessChildLoops
<1>13. QueuesSound' /\ StartedMet'
  BY <1>1, <1>2, QueuesKept, StartedKept
<1> QED BY <1>6, <1>8, <1>9, <1>10, <1>11, <1>12, <1>13 DEF StartInv

LEMMA HandleSkipInv ==
  ASSUME Types, Types', StartInv, NEW c \in Nodes, HandleSkip(c) \/ SkipCallbackFails(c)
  PROVE  StartInv'
<1>1. Next /\ pending \subseteq Nodes /\ PendingFresh /\ Calls("skip", c)
  BY DEF Next, Propagate, Types, StartInv, HandleSkip, SkipCallbackFails
<1>2. /\ UNCHANGED <<graph, ready, settled, result, active, failQueue>>
      /\ pending' = pending \ {c}
      /\ \A n \in pending' : nodeStates'[n] = nodeStates[n]
      /\ \A n \in Nodes : nodeStates'[n].errorTriggeredBy = nodeStates[n].errorTriggeredBy
  <2> DEFINE new == [nodeStates[c] EXCEPT !.skipped = TRUE]
  <2>1. new.errorTriggeredBy = nodeStates[c].errorTriggeredBy
    BY DEF Types, NodeState
  <2>2. /\ UNCHANGED <<graph, ready, settled, result, active, failQueue>>
        /\ pending' = pending \ {c}
        /\ nodeStates' = [nodeStates EXCEPT ![c] = new] \/ nodeStates' = nodeStates
    BY DEF HandleSkip, SkipCallbackFails, batchVars
  <2> HIDE DEF new
  <2> QED BY <2>1, <2>2 DEF Types
<1>3. work # <<>> /\ Top.call = "skip" /\ Top.kids = {c}
  <2>1. work # <<>> /\ Top.call = "skip" /\ c \in Top.kids /\ Top = work[1] /\ 1 \in DOMAIN work
    BY <1>1 DEF Calls, Top, Types
  <2>2. FrameSound(Top)
    BY <2>1 DEF StartInv, FramesSound
  <2> QED BY <2>1, <2>2 DEF FrameSound
<1>4. PendingFresh'
  BY <1>1, <1>2 DEF PendingFresh
<1>5. JoinProgress'
  BY <1>1, <1>2, ProgressKept DEF JoinProgress
<1>6. ErrorTrue'
  BY <1>1, <1>2, ErrorKept DEF ErrorTrue
<1>7. ReadySound'
  BY <1>1, <1>2, ReadyKept DEF ReadySound
<1>8. \A n \in pending' : ~JoinDead(n)'
  <2> SUFFICES ASSUME NEW n \in pending', JoinDead(n)' PROVE FALSE
    OBVIOUS
  <2>1. JoinDead(n) /\ n \in pending /\ n # c
    BY <1>2 DEF JoinDead, SuccParents
  <2> QED BY <1>3, <2>1 DEF StartInv, DeadIsSkipped
<1>9. FramesSound'
  <2>1. CASE HandleSkip(c)
    <3> DEFINE A == Loop("inactive", c, FailChildren(c))
               B == Loop("skipped", c, SuccChildren(c))
    <3>1. A \in Seq(Frame) /\ B \in Seq(Frame)
      BY LoopType DEF CallNames, FailChildren, SuccChildren
    <3>2. (\A i \in DOMAIN A : FrameSound(A[i])) /\ (\A i \in DOMAIN B : FrameSound(B[i]))
      BY LoopSound
    <3>3. work' = Rest(c) \/ work' = A \o B \o Rest(c)
      BY <2>1 DEF HandleSkip
    <3> HIDE DEF A, B
    <3>4. A \o B \in Seq(Frame) /\ \A i \in DOMAIN (A \o B) : FrameSound((A \o B)[i])
      BY <3>1, <3>2, ConcatSound
    <3> QED BY <1>1, <3>3, <3>4, FramesKept
  <2>2. CASE SkipCallbackFails(c)
    <3>1. work' = work
      BY <2>2 DEF SkipCallbackFails
    <3> QED BY <1>1, <3>1, FramesStep DEF StartInv, FramesSound
  <2> QED BY <2>1, <2>2
<1>10. QueuesSound' /\ StartedMet' /\ DeadIsSkipped'
  BY <1>1, <1>2, <1>8, QueuesKept, StartedKept DEF DeadIsSkipped
<1> QED BY <1>4, <1>5, <1>6, <1>7, <1>9, <1>10 DEF StartInv

(* What marking an error source inactive does: one more of them is inactive, *)
(* and the action is skipped when no other is left.                        *)
LEMMA MarkInactiveEffect ==
  ASSUME Types, NEW c \in Nodes, MarkInactive(c)
  PROVE  /\ \A n \in Nodes :
              /\ nodeStates'[n].successParents = nodeStates[n].successParents
              /\ nodeStates'[n].skippedParents = nodeStates[n].skippedParents
              /\ nodeStates'[n].triggeredBySuccess = nodeStates[n].triggeredBySuccess
              /\ nodeStates'[n].failureTriggered = nodeStates[n].failureTriggered
              /\ nodeStates'[n].errorTriggeredBy = nodeStates[n].errorTriggeredBy
              /\ nodeStates'[n].skipped = nodeStates[n].skipped
              /\ n # c => nodeStates'[n] = nodeStates[n]
         /\ \/ UNCHANGED nodeStates /\ work' = Rest(c)
            \/ /\ nodeStates'[c].inactiveFailureParents =
                    nodeStates[c].inactiveFailureParents \union {Top.from}
               /\ \/ work' = Rest(c)
                  \/ /\ work' = Loop("skip", c, {c}) \o Rest(c)
                     /\ AllInactive(c, nodeStates'[c].inactiveFailureParents)
<1> DEFINE inactive == nodeStates[c].inactiveFailureParents \union {Top.from}
           new == [nodeStates[c] EXCEPT !.inactiveFailureParents = inactive]
<1>1. /\ new.successParents = nodeStates[c].successParents
      /\ new.skippedParents = nodeStates[c].skippedParents
      /\ new.triggeredBySuccess = nodeStates[c].triggeredBySuccess
      /\ new.failureTriggered = nodeStates[c].failureTriggered
      /\ new.errorTriggeredBy = nodeStates[c].errorTriggeredBy
      /\ new.skipped = nodeStates[c].skipped
      /\ new.inactiveFailureParents = inactive
  <2> HIDE DEF inactive
  <2> QED BY DEF Types, NodeState
<1>2. \/ nodeStates' = nodeStates /\ work' = Rest(c)
      \/ /\ nodeStates' = [nodeStates EXCEPT ![c] = new]
         /\ work' = IF AllInactive(c, inactive)
                      THEN Loop("skip", c, {c}) \o Rest(c) ELSE Rest(c)
  BY DEF MarkInactive
<1>3. nodeStates \in [Nodes -> NodeState]
  BY DEF Types
<1>4. inactive = nodeStates[c].inactiveFailureParents \union {Top.from}
  OBVIOUS
<1> HIDE DEF new, inactive
<1> QED BY <1>1, <1>2, <1>3, <1>4

LEMMA MarkInactiveInv ==
  ASSUME Types, Types', StartInv, NEW c \in Nodes, MarkInactive(c)
  PROVE  StartInv'
<1>1. Next /\ pending \subseteq Nodes /\ PendingFresh /\ Calls("inactive", c)
  BY DEF Next, Propagate, Types, StartInv, MarkInactive
<1>2. /\ UNCHANGED <<graph, pending, ready, settled, result, active, failQueue>>
      /\ \A n \in Nodes :
           /\ nodeStates'[n].successParents = nodeStates[n].successParents
           /\ nodeStates'[n].skippedParents = nodeStates[n].skippedParents
           /\ nodeStates'[n].triggeredBySuccess = nodeStates[n].triggeredBySuccess
           /\ nodeStates'[n].failureTriggered = nodeStates[n].failureTriggered
           /\ nodeStates'[n].errorTriggeredBy = nodeStates[n].errorTriggeredBy
           /\ nodeStates'[n].skipped = nodeStates[n].skipped
  <2>1. UNCHANGED <<graph, pending, ready, settled, result, active, failQueue>>
    BY DEF MarkInactive, batchVars
  <2> QED BY <2>1, MarkInactiveEffect
<1>3. PendingFresh'
  BY <1>1, <1>2 DEF PendingFresh
<1>4. JoinProgress'
  BY <1>1, <1>2, ProgressKept DEF JoinProgress
<1>5. ErrorTrue'
  BY <1>1, <1>2, ErrorKept DEF ErrorTrue
<1>6. ReadySound'
  BY <1>1, <1>2, ReadyKept DEF ReadySound
<1>7. DeadIsSkipped'
  <2>1. \A n \in pending : ~JoinDead(n)
    BY <1>1, NoneDead DEF Calls
  <2>2. \A n \in pending : JoinDead(n)' = JoinDead(n)
    BY <1>1, <1>2 DEF JoinDead, SuccParents
  <2> QED BY <1>2, <2>1, <2>2 DEF DeadIsSkipped
<1>8. FramesSound'
  <2>1. Loop("skip", c, {c}) \in Seq(Frame)
    BY LoopType DEF CallNames
  <2>2. \A i \in DOMAIN Loop("skip", c, {c}) : FrameSound(Loop("skip", c, {c})[i])
    BY LoopSound
  <2>3. work' = Rest(c) \/ work' = Loop("skip", c, {c}) \o Rest(c)
    BY DEF MarkInactive
  <2> QED BY <1>1, <2>1, <2>2, <2>3, FramesKept
<1>9. QueuesSound' /\ StartedMet'
  BY <1>1, <1>2, QueuesKept, StartedKept
<1> QED BY <1>3, <1>4, <1>5, <1>6, <1>7, <1>8, <1>9 DEF StartInv

(* What cancelling a child does: nothing, or c loses a parent, or c fails. *)
LEMMA CancelChildEffect ==
  ASSUME Types, NEW c \in Nodes, CancelChild(c)
  PROVE  /\ \A n \in Nodes : n # c => nodeStates'[n] = nodeStates[n]
         /\ nodeStates'[c].skipped = nodeStates[c].skipped
         /\ nodeStates'[c].skippedParents = nodeStates[c].skippedParents
         /\ nodeStates'[c].triggeredBySuccess = nodeStates[c].triggeredBySuccess
         /\ nodeStates'[c].errorTriggeredBy = nodeStates[c].errorTriggeredBy
         /\ nodeStates'[c].inactiveFailureParents = nodeStates[c].inactiveFailureParents
         /\ \/ nodeStates' = nodeStates /\ pending' = pending /\ failQueue' = failQueue
            \/ /\ c \in pending
               /\ nodeStates'[c].successParents = nodeStates[c].successParents \ {Top.from}
               /\ nodeStates'[c].failureTriggered = MustCancel(c, nodeStates'[c].successParents)
               /\ IF nodeStates'[c].failureTriggered
                    THEN pending' = pending \ {c} /\ failQueue' = Append(failQueue, c)
                    ELSE pending' = pending /\ failQueue' = failQueue
<1> DEFINE left == nodeStates[c].successParents \ {Top.from}
           must == MustCancel(c, left)
           new  == [nodeStates[c] EXCEPT !.successParents = left, !.failureTriggered = must]
<1>1. nodeStates \in [Nodes -> NodeState] /\ nodeStates[c] \in NodeState
  BY DEF Types
<1>2. \/ nodeStates' = nodeStates /\ pending' = pending /\ failQueue' = failQueue
      \/ /\ c \in pending
         /\ nodeStates' = [nodeStates EXCEPT ![c] = new]
         /\ IF must THEN pending' = pending \ {c} /\ failQueue' = Append(failQueue, c)
                    ELSE pending' = pending /\ failQueue' = failQueue
  BY DEF CancelChild, Remaining
<1>3. /\ new.successParents = left /\ new.failureTriggered = must
      /\ new.skipped = nodeStates[c].skipped
      /\ new.skippedParents = nodeStates[c].skippedParents
      /\ new.triggeredBySuccess = nodeStates[c].triggeredBySuccess
      /\ new.errorTriggeredBy = nodeStates[c].errorTriggeredBy
      /\ new.inactiveFailureParents = nodeStates[c].inactiveFailureParents
  <2> HIDE DEF left, must
  <2> QED BY <1>1 DEF NodeState
<1>4. must = MustCancel(c, left)
  OBVIOUS
<1>5. left = nodeStates[c].successParents \ {Top.from}
  OBVIOUS
<1> HIDE DEF new, must, left
<1> QED BY <1>1, <1>2, <1>3, <1>4, <1>5

LEMMA CancelChildInv ==
  ASSUME Types, Types', StartInv, NEW c \in Nodes, CancelChild(c)
  PROVE  StartInv'
<1>1. Next /\ pending \subseteq Nodes /\ PendingFresh /\ Calls("cancel", c)
  BY DEF Next, Propagate, Types, StartInv, CancelChild
<1>2. /\ UNCHANGED <<graph, ready, settled, result, active>>
      /\ pending' \subseteq pending
      /\ work' = Rest(c) \/ work' = Loop("skipped", Top.from, {c}) \o Rest(c)
  BY DEF CancelChild, batchVars
<1>3. \A n \in pending : ~JoinDead(n)
  BY <1>1, NoneDead DEF Calls
<1>4. PendingFresh'
  BY <1>1, <1>2, CancelChildEffect DEF PendingFresh
<1>5. ASSUME c \in pending', nodeStates'[c].successParents # nodeStates[c].successParents
      PROVE  /\ nodeStates'[c].successParents \subseteq nodeStates[c].successParents
             /\ graph.join[c] # "all"
             /\ nodeStates'[c].successParents = {} => nodeStates[c].triggeredBySuccess
  BY <1>5, CancelChildEffect DEF MustCancel
<1>6. JoinProgress'
  <2> SUFFICES ASSUME NEW n \in pending' PROVE
        /\ nodeStates'[n].successParents \subseteq SuccParents(n)'
        /\ graph'.join[n] = "all" =>
             \A p \in SuccParents(n)' \ nodeStates'[n].successParents :
               p \in nodeStates'[n].skippedParents \/ Delivered(p, n)'
        /\ graph'.join[n] = "any" /\ nodeStates'[n].triggeredBySuccess => JoinMet(n)'
    BY <1>2 DEF JoinProgress
  <2>1. n \in pending /\ n \in Nodes
    BY <1>1, <1>2
  <2>2. /\ nodeStates'[n].skippedParents = nodeStates[n].skippedParents
        /\ nodeStates'[n].triggeredBySuccess = nodeStates[n].triggeredBySuccess
    BY <2>1, CancelChildEffect
  <2>3. CASE nodeStates'[n].successParents = nodeStates[n].successParents
    BY <1>1, <2>1, <2>2, <2>3, ProgressKept
  <2>4. CASE nodeStates'[n].successParents # nodeStates[n].successParents
    <3>1. n = c
      BY <2>1, <2>4, CancelChildEffect
    <3>2. SuccParents(c)' = SuccParents(c)
      BY <1>2 DEF SuccParents
    <3>3. nodeStates[c].successParents \subseteq SuccParents(c)
      BY <2>1, <3>1 DEF StartInv, JoinProgress
    <3>4. graph.join[n] = "any" /\ nodeStates[n].triggeredBySuccess => JoinMet(n)'
      BY <1>1, <2>1, MetForever DEF StartInv, JoinProgress
    <3> QED BY <1>2, <1>5, <2>2, <2>4, <3>1, <3>2, <3>3, <3>4
  <2> QED BY <2>3, <2>4
<1>7. ErrorTrue'
  <2>1. \A n \in Nodes : nodeStates'[n].errorTriggeredBy = nodeStates[n].errorTriggeredBy
    BY CancelChildEffect
  <2> QED BY <1>1, <2>1, ErrorKept DEF ErrorTrue
<1>8. ReadySound'
  BY <1>1, <1>2, ReadyKept DEF ReadySound
<1>9. DeadIsSkipped'
  <2> SUFFICES ASSUME NEW n \in pending', JoinDead(n)' PROVE FALSE
    BY DEF DeadIsSkipped
  <2>1. n \in pending /\ n \in Nodes /\ ~JoinDead(n)
    BY <1>1, <1>2, <1>3
  <2>2. /\ nodeStates'[n].skippedParents = nodeStates[n].skippedParents
        /\ nodeStates'[n].triggeredBySuccess = nodeStates[n].triggeredBySuccess
        /\ SuccParents(n)' = SuccParents(n)
    BY <1>2, <2>1, CancelChildEffect DEF SuccParents
  <2>3. nodeStates'[n].successParents # nodeStates[n].successParents
    BY <1>2, <2>1, <2>2 DEF JoinDead
  <2>4. n = c
    BY <2>1, <2>3, CancelChildEffect
  <2> QED BY <1>2, <1>5, <2>2, <2>3, <2>4 DEF JoinDead
<1>10. FramesSound'
  <2>1. Top.from \in Nodes
    BY <1>1, TopType
  <2> DEFINE L == Loop("skipped", Top.from, {c})
  <2>2. L \in Seq(Frame)
    BY <2>1, LoopType DEF CallNames
  <2>3. \A i \in DOMAIN L : FrameSound(L[i])
    BY LoopSound
  <2>4. work' = Rest(c) \/ work' = L \o Rest(c)
    BY <1>2
  <2> HIDE DEF L
  <2> QED BY <1>1, <2>2, <2>3, <2>4, FramesKept
<1>11. QueuesSound'
  <2>1. CASE failQueue' = failQueue
    BY <1>1, <1>2, <2>1, QueuesKept
  <2>2. CASE failQueue' # failQueue
    <3>1. failQueue' = Append(failQueue, c) /\ c \in pending /\ c \notin pending'
      BY <2>2, CancelChildEffect
    <3>2. HasFailed(c)'
      <4>1. result'[c] = "none" /\ ~nodeStates'[c].skipped
        BY <1>1, <1>2, <3>1, CancelChildEffect DEF PendingFresh
      <4> QED BY <3>1, <4>1 DEF HasFailed
    <3>3. ASSUME NEW i \in DOMAIN failQueue'
          PROVE  HasFailed(failQueue[i])'
      <4>1. PICK q \in Nodes : q = failQueue'[i] /\ (q = c \/ HasFailed(q))
        <5>1. \A j \in DOMAIN failQueue : failQueue[j] \in Nodes /\ HasFailed(failQueue[j])
          BY DEF Types, StartInv, QueuesSound
        <5>2. failQueue'[i] = IF i \in DOMAIN failQueue THEN failQueue[i] ELSE c
          BY <3>1 DEF Types
        <5> QED BY <5>1, <5>2
      <4>2. HasFailed(q)'
        <5>1. CASE q = c
          BY <3>2, <5>1 DEF HasFailed
        <5>2. CASE HasFailed(q)
          BY <1>1, <5>2, FailQueueKept
        <5> QED BY <4>1, <5>1, <5>2
      <4> QED BY <4>1, <4>2 DEF HasFailed
    <3> QED BY <1>2, <3>3 DEF StartInv, QueuesSound
  <2> QED BY <2>1, <2>2
<1>12. StartedMet'
  BY <1>1, <1>2, StartedKept
<1> QED BY <1>4, <1>6, <1>7, <1>8, <1>9, <1>10, <1>11, <1>12 DEF StartInv

(* Every step keeps it.                                                    *)
LEMMA StartInvNext == Types /\ StartInv /\ [Next]_vars => Types' /\ StartInv'
<1> SUFFICES ASSUME Types, StartInv, [Next]_vars PROVE Types' /\ StartInv'
  OBVIOUS
<1>1. CASE UNCHANGED vars
  <2>1. StartInv'
    BY <1>1, StartInvUnchanged DEF vars
  <2>2. Types'
    BY <1>1 DEF vars, Types
  <2> QED BY <2>1, <2>2
<1>2. CASE Next
  <2>1. Types'
    BY <1>2, ScheduleTypes, SettleTypes, PropagateTypes DEF Next
  <2>2. CASE Schedule
    <3>1. CASE StartBatch
      BY <2>1, <3>1, StartBatchInv
    <3>2. CASE HandleSuccess \/ HandleFailure
      BY <2>1, <3>2, HandleOutcomeInv
    <3>3. CASE RethrowCancellation \/ ThrowDeadlock \/ Return
      BY <2>1, <3>3, StartInvUnchanged DEF RethrowCancellation, ThrowDeadlock, Return
    <3> QED BY <2>2, <3>1, <3>2, <3>3 DEF Schedule
  <2>3. CASE Settle
    BY <2>1, <2>3, SettleInv DEF Settle
  <2>4. CASE Propagate
    BY <2>1, <2>4, PropagateFailureInv, ProcessChildInv, HandleSkipInv, MarkInactiveInv,
       CancelChildInv DEF Propagate
  <2> QED BY <1>2, <2>2, <2>3, <2>4 DEF Next
<1> QED BY <1>1, <1>2

(* The invariant in the words of the contract.                             *)
(* A parent that is resolved is struck off before it is noted as skipped.  *)
ParentsApart ==
  \A n \in Nodes : nodeStates[n].successParents \intersect nodeStates[n].skippedParents = {}

LEMMA ParentsApartNext == Types /\ ParentsApart /\ [Next]_vars => ParentsApart'
<1> SUFFICES ASSUME Types, ParentsApart, [Next]_vars, NEW n \in Nodes
             PROVE  nodeStates'[n].successParents \intersect nodeStates'[n].skippedParents = {}
  BY DEF ParentsApart
<1>1. CASE /\ nodeStates'[n].successParents = nodeStates[n].successParents
           /\ nodeStates'[n].skippedParents = nodeStates[n].skippedParents
  BY <1>1 DEF ParentsApart
<1>2. CASE Schedule \/ Settle \/ UNCHANGED vars
  BY <1>1, <1>2 DEF Schedule, Settle, StartBatch, RethrowCancellation, HandleSuccess, HandleFailure,
     ThrowDeadlock, Return, SettleOk, SettleRejected, vars
<1>3. CASE PropagateFailure
  BY <1>1, <1>3, PropagateFailureEffect
<1>4. ASSUME NEW c \in Nodes, HandleSkip(c) \/ SkipCallbackFails(c)
      PROVE  nodeStates'[n].successParents \intersect nodeStates'[n].skippedParents = {}
  <2>1. \/ UNCHANGED nodeStates
        \/ nodeStates' = [nodeStates EXCEPT ![c] = [nodeStates[c] EXCEPT !.skipped = TRUE]]
    BY <1>4 DEF HandleSkip, SkipCallbackFails
  <2>2. nodeStates \in [Nodes -> NodeState] /\ nodeStates[c] \in NodeState
    BY DEF Types
  <2>3. /\ [nodeStates[c] EXCEPT !.skipped = TRUE].successParents = nodeStates[c].successParents
        /\ [nodeStates[c] EXCEPT !.skipped = TRUE].skippedParents = nodeStates[c].skippedParents
    BY <2>2 DEF NodeState
  <2> QED BY <1>1, <2>1, <2>2, <2>3
<1>5. ASSUME NEW c \in Nodes, MarkInactive(c)
      PROVE  nodeStates'[n].successParents \intersect nodeStates'[n].skippedParents = {}
  BY <1>1, <1>5, MarkInactiveEffect
<1>6. ASSUME NEW c \in Nodes, CancelChild(c)
      PROVE  nodeStates'[n].successParents \intersect nodeStates'[n].skippedParents = {}
  BY <1>1, <1>6, CancelChildEffect DEF ParentsApart
<1>7. ASSUME NEW c \in Nodes, NEW type \in {"fulfilled", "skipped"}, ProcessChild(c, type)
      PROVE  nodeStates'[n].successParents \intersect nodeStates'[n].skippedParents = {}
  BY <1>1, <1>7, ProcessChildEffect DEF ParentsApart
<1> QED BY <1>2, <1>3, <1>4, <1>5, <1>6, <1>7 DEF Next, Propagate

(* Every variable of the scheduler keeps its type, and no parent of an     *)
(* action is both outstanding and skipped.                                 *)
THEOREM TypeCorrect == Spec => []TypeOK
<1>1. Init => Types /\ ParentsApart
  BY InitTypes DEF Init, InitialNodeState, ParentsApart
<1>2. Types /\ ParentsApart => TypeOK
  BY DEF TypeOK, ParentsApart
<1> QED BY <1>1, <1>2, TypesNext, ParentsApartNext, PTL DEF Spec

LEMMA StartInvImplies == Types /\ StartInv => StartSound
<1> SUFFICES ASSUME Types, StartInv, NEW n \in Nodes, result[n] # "none"
             PROVE  Contract!MayRun(n)
  BY DEF StartSound
<1>1. JoinMet(n) /\ ErrorMet(n)
  BY DEF StartInv, StartedMet
<1>2. \A p \in Nodes : Delivered(p, n) => Contract!Delivers(p, n)
  BY DEF Delivered, Contract!Delivers, Phase
<1>3. \A p \in Nodes : HasFailed(p) => Contract!Failed(p)
  BY DEF HasFailed, Contract!Failed, Phase
<1>4. SuccParents(n) \subseteq Nodes /\ FailParents(n) \subseteq Nodes
  BY DEF SuccParents, FailParents
<1>5. Contract!SuccParents(n) = SuccParents(n) /\ Contract!FailParents(n) = FailParents(n)
  BY DEF SuccParents, FailParents, Contract!SuccParents, Contract!FailParents
<1> QED BY <1>1, <1>2, <1>3, <1>4, <1>5 DEF JoinMet, ErrorMet, Contract!MayRun

(* No action starts before its join is met and, for an error handler, one  *)
(* of its error sources has failed, in whatever order a batch settles.     *)
THEOREM StartSoundCorrect == Spec => []StartSound
BY InitTypes, InitStartInv, StartInvNext, StartInvImplies, PTL DEF Spec

-------------------------------------------------------------------------------
(***************************************************************************)
(* ContractInv: what the scheduler knows of parents, failures and causes   *)
(* is what happened, and what has happened never changes.                  *)
(***************************************************************************)

(* What has ended does not change any more.                                *)
LEMMA EndedForever ==
  ASSUME Types, PendingFresh, Next, NEW p \in Nodes, HasEnded(p)
  PROVE  /\ HasEnded(p)'
         /\ HasFailed(p)' <=> HasFailed(p)
         /\ \A n \in Nodes : Delivered(p, n)' <=> Delivered(p, n)
         /\ result'[p] = result[p]
<1>1. CASE Schedule
  <2>1. CASE StartBatch
    <3>1. p \notin pending /\ p \notin pending' /\ result'[p] = result[p]
      BY <2>1 DEF StartBatch, PendingFresh, HasEnded, Types
    <3> QED BY <2>1, <3>1 DEF StartBatch, HasEnded, HasFailed, Delivered
  <2>2. CASE RethrowCancellation \/ HandleSuccess \/ HandleFailure \/ ThrowDeadlock \/ Return
    <3>1. UNCHANGED <<pending, result, active, nodeStates>>
      BY <2>2 DEF RethrowCancellation, HandleSuccess, HandleFailure, ThrowDeadlock, Return
    <3> QED BY <3>1 DEF HasEnded, HasFailed, Delivered
  <2> QED BY <1>1, <2>1, <2>2 DEF Schedule
<1>2. CASE Settle
  <2>1. PICK n \in Nodes : SettleOk(n) \/ SettleRejected(n)
    BY <1>2 DEF Settle
  <2>2. p # n
    BY <2>1 DEF SettleOk, SettleRejected, HasEnded
  <2>3. UNCHANGED <<pending, nodeStates>> /\ result'[p] = result[p] /\ active'[p] = active[p]
    BY <2>1, <2>2 DEF SettleOk, SettleRejected, Types
  <2> QED BY <2>3 DEF HasEnded, HasFailed, Delivered
<1>3. CASE Propagate
  <2>1. UNCHANGED <<result, active>>
    BY <1>3, Zenon DEF Propagate, PropagateFailure, ProcessChild, HandleSkip, SkipCallbackFails,
       MarkInactive, CancelChild, batchVars
  <2>2. pending' \subseteq pending
    BY <1>3, Zenon DEF Propagate, PropagateFailure, ProcessChild, HandleSkip, SkipCallbackFails,
       MarkInactive, CancelChild, batchVars
  <2>3. p \notin pending
    BY DEF PendingFresh, HasEnded
  <2>4. (nodeStates[p].skipped)' <=> nodeStates[p].skipped
    <3>1. CASE PropagateFailure
      BY <3>1, PropagateFailureEffect
    <3>2. ASSUME NEW c \in Nodes, NEW type \in {"fulfilled", "skipped"}, ProcessChild(c, type)
          PROVE  (nodeStates[p].skipped)' <=> nodeStates[p].skipped
      BY <3>2, ProcessChildEffect
    <3>3. ASSUME NEW c \in Nodes, HandleSkip(c) \/ SkipCallbackFails(c)
          PROVE  (nodeStates[p].skipped)' <=> nodeStates[p].skipped
      BY <2>3, <3>3 DEF HandleSkip, SkipCallbackFails, Types
    <3>4. ASSUME NEW c \in Nodes, MarkInactive(c)
          PROVE  (nodeStates[p].skipped)' <=> nodeStates[p].skipped
      BY <3>4, MarkInactiveEffect
    <3>5. ASSUME NEW c \in Nodes, CancelChild(c)
          PROVE  (nodeStates[p].skipped)' <=> nodeStates[p].skipped
      BY <3>5, CancelChildEffect
    <3> QED BY <1>3, <3>1, <3>2, <3>3, <3>4, <3>5 DEF Propagate
  <2> QED BY <2>1, <2>2, <2>3, <2>4 DEF HasEnded, HasFailed, Delivered
<1> QED BY <1>1, <1>2, <1>3 DEF Next

LEMMA FailedEnded == \A p : HasFailed(p) => HasEnded(p)
BY DEF HasFailed, HasEnded

LEMMA DeliveredEnded == \A p, n : Delivered(p, n) => HasEnded(p) /\ ~HasFailed(p)
BY DEF Delivered, HasFailed, HasEnded

LEMMA GraphForever ==
  ASSUME Types, PendingFresh, Next
  PROVE  /\ graph' = graph
         /\ \A n : /\ SuccParents(n)' = SuccParents(n)
                   /\ FailParents(n)' = FailParents(n)
                   /\ SuccChildren(n)' = SuccChildren(n)
                   /\ FailChildren(n)' = FailChildren(n)
<1>1. graph' = graph
  BY Monotone
<1> QED BY <1>1 DEF SuccParents, FailParents, SuccChildren, FailChildren

LEMMA EdgeTypes ==
  \A n : /\ SuccParents(n) \subseteq Nodes /\ FailParents(n) \subseteq Nodes
         /\ SuccChildren(n) \subseteq Nodes /\ FailChildren(n) \subseteq Nodes
BY DEF SuccParents, FailParents, SuccChildren, FailChildren

(* What may be skipped once may be skipped from then on, and what a loop   *)
(* is right to tell stays right.                                           *)
LEMMA DeadForever ==
  ASSUME Types, PendingFresh, Next, NEW n \in Nodes
  PROVE  /\ PathDead(n) => PathDead(n)'
         /\ NoErrorLeft(n) => NoErrorLeft(n)'
<1>1. /\ graph' = graph
      /\ SuccParents(n)' = SuccParents(n) /\ SuccParents(n) \subseteq Nodes
      /\ FailParents(n)' = FailParents(n) /\ FailParents(n) \subseteq Nodes
      /\ \A p : FailChildren(p)' = FailChildren(p)
  BY GraphForever, EdgeTypes
<1>2. \A p \in Nodes : HasEnded(p) =>
        /\ HasEnded(p)'
        /\ HasFailed(p)' <=> HasFailed(p)
        /\ Delivered(p, n)' <=> Delivered(p, n)
  BY EndedForever
<1>3. \A p \in Nodes : HasEnded(p) => (Blameless(p)' <=> Blameless(p))
  BY <1>1, <1>2 DEF Blameless
<1> QED BY <1>1, <1>2, <1>3 DEF PathDead, NoErrorLeft

LEMMA FrameTrueForever ==
  ASSUME Types, PendingFresh, Next, NEW f \in Frame, FrameTrue(f)
  PROVE  FrameTrue(f)'
<1>1. f.from \in Nodes /\ f.kids \subseteq Nodes /\ f.call \in CallNames
  BY DEF Frame, CallNames
<1>2. HasEnded(f.from) =>
        /\ HasEnded(f.from)'
        /\ HasFailed(f.from)' <=> HasFailed(f.from)
        /\ \A c \in Nodes : Delivered(f.from, c)' <=> Delivered(f.from, c)
  BY <1>1, EndedForever
<1>3. FailChildren(f.from)' = FailChildren(f.from)
  BY GraphForever
<1>4. HasEnded(f.from) => (Blameless(f.from)' <=> Blameless(f.from))
  BY <1>2, <1>3 DEF Blameless
<1>5. CASE f.call = "fulfilled"
  BY <1>2, <1>5 DEF FrameTrue
<1>6. CASE f.call = "skipped"
  BY <1>1, <1>2, <1>4, <1>6 DEF FrameTrue
<1>7. CASE f.call = "inactive"
  BY <1>2, <1>3, <1>7 DEF FrameTrue
<1>8. CASE f.call = "cancel"
  BY <1>2, <1>8, FailedEnded DEF FrameTrue
<1>9. CASE f.call = "skip"
  BY <1>1, <1>9, DeadForever DEF FrameTrue
<1> QED BY <1>1, <1>5, <1>6, <1>7, <1>8, <1>9 DEF CallNames

LEMMA PendingShrinks == Next => pending' \subseteq pending
<1>1. Schedule => pending' \subseteq pending
  BY DEF Schedule, StartBatch, RethrowCancellation, HandleSuccess, HandleFailure, ThrowDeadlock, Return
<1>2. Settle => pending' \subseteq pending
  BY DEF Settle, SettleOk, SettleRejected
<1>3. Propagate => pending' \subseteq pending
  BY Zenon DEF Propagate, PropagateFailure, ProcessChild, HandleSkip, SkipCallbackFails,
     MarkInactive, CancelChild, batchVars
<1> QED BY <1>1, <1>2, <1>3 DEF Next

LEMMA InitContractInv == Init => ContractInv /\ CancellationNotMasked
<1> SUFFICES ASSUME Init PROVE ContractInv /\ CancellationNotMasked
  OBVIOUS
<1>1. \A n \in Nodes : /\ nodeStates[n].successParents = SuccParents(n)
                       /\ nodeStates[n].skippedParents = {}
                       /\ nodeStates[n].inactiveFailureParents = {}
                       /\ result[n] = "none"
                       /\ n \in pending
                       /\ handledFailureSources[n] = {}
  BY DEF Init, InitialNodeState
<1>2. ParentsTrue /\ InactiveTrue
  BY <1>1 DEF ParentsTrue, InactiveTrue, Init
<1>3. FramesTrue /\ HandlingQuiet
  BY DEF FramesTrue, HandlingQuiet, HandlingDone, Init
<1>4. ErrorsTrue /\ Accounted
  BY <1>1 DEF ErrorsTrue, Accounted, HasFailed, Init
<1>5. CausesTrue
  <2>1. ASSUME NEW n \in Nodes, NEW i \in DOMAIN ready[n]
        PROVE  FailParents(n) = {} /\ ready[n][i] = NoContext
    BY DEF Init
  <2>2. \A n \in Nodes : FailParents(n) = {} => CauseTrue(n, NoContext)
    BY DEF CauseTrue, NoContext
  <2> QED BY <1>1, <2>1, <2>2 DEF CausesTrue
<1>6. CancellationNotMasked
  BY <1>1 DEF CancellationNotMasked
<1>7. PortsChosen
  BY DEF Init, PortsChosen
<1> QED BY <1>2, <1>3, <1>4, <1>5, <1>6, <1>7 DEF ContractInv

-------------------------------------------------------------------------------
(* ParentsTrue: what is believed of the parents of a pending action.       *)
LEMMA ParentsKept ==
  ASSUME Types, StartInv, ContractInv, Next, NEW n \in pending,
         nodeStates'[n].successParents = nodeStates[n].successParents,
         nodeStates'[n].skippedParents = nodeStates[n].skippedParents,
         nodeStates'[n].triggeredBySuccess = nodeStates[n].triggeredBySuccess
  PROVE  /\ \A p \in SuccParents(n)' \ nodeStates'[n].successParents :
              /\ HasEnded(p)'
              /\ graph'.join[n] = "any" /\ Delivered(p, n)' => nodeStates'[n].triggeredBySuccess
         /\ \A p \in nodeStates'[n].skippedParents :
              /\ p \in SuccParents(n)' /\ HasEnded(p)'
              /\ ~Delivered(p, n)' /\ Blameless(p)'
<1>1. PendingFresh /\ n \in Nodes
  BY DEF StartInv, Types
<1>2. /\ graph' = graph /\ SuccParents(n)' = SuccParents(n) /\ SuccParents(n) \subseteq Nodes
      /\ \A p : FailChildren(p)' = FailChildren(p)
  BY <1>1, GraphForever, EdgeTypes
<1>3. \A p \in Nodes : HasEnded(p) =>
        /\ HasEnded(p)'
        /\ HasFailed(p)' <=> HasFailed(p)
        /\ Delivered(p, n)' <=> Delivered(p, n)
  BY <1>1, EndedForever
<1>4. \A p \in Nodes : HasEnded(p) => (Blameless(p)' <=> Blameless(p))
  BY <1>2, <1>3 DEF Blameless
<1> QED BY <1>1, <1>2, <1>3, <1>4 DEF ContractInv, ParentsTrue

(* The loop on top of the stack tells the truth.                           *)
LEMMA TopTrue ==
  ASSUME Types, FramesTrue, NEW call, NEW c, Calls(call, c)
  PROVE  Top \in Frame /\ FrameTrue(Top)
<1>1. work # <<>> /\ 1 \in DOMAIN work /\ Top = work[1] /\ work[1] \in Frame
  BY DEF Calls, Top, Types
<1> QED BY <1>1 DEF FramesTrue

LEMMA ProcessChildParents ==
  ASSUME Types, StartInv, ContractInv, NEW c \in Nodes, NEW type \in {"fulfilled", "skipped"},
         ProcessChild(c, type)
  PROVE  ParentsTrue'
<1>0. PICK parent : parent = Top.from
  OBVIOUS
<1>1. Next /\ pending \subseteq Nodes /\ PendingFresh /\ Calls(type, c)
  BY DEF Next, Propagate, Types, StartInv, ProcessChild
<1>2. UNCHANGED <<graph, pending>>
  BY DEF ProcessChild, batchVars
<1>3. Top \in Frame /\ FrameTrue(Top) /\ parent \in Nodes /\ Top.call = type /\ c \in Top.kids
  BY <1>0, <1>1, TopTrue DEF ContractInv, Frame, Calls
<1>4. HasEnded(parent)
  BY <1>0, <1>3 DEF FrameTrue
<1>5. type = "skipped" => Blameless(parent) /\ ~Delivered(parent, c)
  BY <1>0, <1>3 DEF FrameTrue
<1> SUFFICES ASSUME NEW n \in pending
             PROVE  /\ \A p \in SuccParents(n)' \ nodeStates'[n].successParents :
                         /\ HasEnded(p)'
                         /\ graph'.join[n] = "any" /\ Delivered(p, n)'
                              => nodeStates'[n].triggeredBySuccess
                    /\ \A p \in nodeStates'[n].skippedParents :
                         /\ p \in SuccParents(n)' /\ HasEnded(p)'
                         /\ ~Delivered(p, n)' /\ Blameless(p)'
  BY <1>2 DEF ParentsTrue
<1>6. CASE n # c \/ ~Undecided(c, parent)
  BY <1>0, <1>1, <1>6, ProcessChildEffect, ParentsKept
<1>7. CASE n = c /\ Undecided(c, parent)
  <2>1. /\ nodeStates'[c].successParents = nodeStates[c].successParents \ {parent}
        /\ nodeStates'[c].skippedParents = IF type = "skipped"
                                           THEN nodeStates[c].skippedParents \union {parent}
                                           ELSE nodeStates[c].skippedParents
        /\ nodeStates'[c].triggeredBySuccess =
             (nodeStates[c].triggeredBySuccess \/ Triggers(c, type))
    BY <1>0, <1>7, ProcessChildEffect
  <2>2. /\ SuccParents(c)' = SuccParents(c) /\ SuccParents(c) \subseteq Nodes
        /\ \A p : FailChildren(p)' = FailChildren(p)
    BY <1>1, GraphForever, EdgeTypes
  <2>3. \A p \in Nodes : HasEnded(p) =>
          /\ HasEnded(p)'
          /\ HasFailed(p)' <=> HasFailed(p)
          /\ Delivered(p, c)' <=> Delivered(p, c)
    BY <1>1, EndedForever
  <2>4. \A p \in Nodes : HasEnded(p) => (Blameless(p)' <=> Blameless(p))
    BY <2>2, <2>3 DEF Blameless
  <2>5. parent \in SuccParents(c)
    BY <1>7 DEF Undecided, StartInv, JoinProgress
  <2>6. graph.join[c] = "any" /\ Delivered(parent, c) => nodeStates'[c].triggeredBySuccess
    <3>1. graph.join[c] = "any" /\ Delivered(parent, c) => type = "fulfilled"
      BY <1>5
    <3> QED BY <2>1, <3>1 DEF Triggers
  <2>7. /\ \A p \in SuccParents(c) \ nodeStates[c].successParents :
             /\ HasEnded(p)
             /\ graph.join[c] = "any" /\ Delivered(p, c) => nodeStates[c].triggeredBySuccess
        /\ \A p \in nodeStates[c].skippedParents :
             p \in SuccParents(c) /\ HasEnded(p) /\ ~Delivered(p, c) /\ Blameless(p)
    BY <1>7 DEF ContractInv, ParentsTrue
  <2>8. ASSUME NEW p \in SuccParents(c), p \notin nodeStates'[c].successParents
        PROVE  /\ HasEnded(p)'
               /\ graph.join[c] = "any" /\ Delivered(p, c)' => nodeStates'[c].triggeredBySuccess
    <3>1. CASE p = parent
      BY <1>4, <2>2, <2>3, <2>6, <3>1
    <3>2. CASE p # parent
      BY <2>1, <2>2, <2>3, <2>7, <2>8, <3>2
    <3> QED BY <3>1, <3>2
  <2>9. ASSUME NEW p \in nodeStates'[c].skippedParents
        PROVE  p \in SuccParents(c) /\ HasEnded(p)' /\ ~Delivered(p, c)' /\ Blameless(p)'
    <3>1. CASE p \in nodeStates[c].skippedParents
      BY <2>2, <2>3, <2>4, <2>7, <3>1
    <3>2. CASE p = parent /\ type = "skipped"
      BY <1>4, <1>5, <2>2, <2>3, <2>4, <2>5, <3>2
    <3> QED BY <2>1, <3>1, <3>2
  <2> QED BY <1>2, <1>7, <2>2, <2>8, <2>9
<1> QED BY <1>6, <1>7

(* Only an any-join outlives the unhandled failure of a parent.            *)
LEMMA CancelChildParents ==
  ASSUME Types, StartInv, ContractInv, NEW c \in Nodes, CancelChild(c)
  PROVE  ParentsTrue'
<1>0. PICK from : from = Top.from
  OBVIOUS
<1>1. Next /\ pending \subseteq Nodes /\ PendingFresh /\ Calls("cancel", c)
  BY DEF Next, Propagate, Types, StartInv, CancelChild
<1>2. graph' = graph /\ pending' \subseteq pending
  BY <1>1, GraphForever, PendingShrinks
<1>3. Top \in Frame /\ FrameTrue(Top) /\ from \in Nodes /\ Top.call = "cancel"
  BY <1>0, <1>1, TopTrue DEF ContractInv, Frame, Calls
<1>4. HasFailed(from) /\ HasEnded(from) /\ ~Delivered(from, c)
  BY <1>0, <1>3, FailedEnded, DeliveredEnded DEF FrameTrue
<1> SUFFICES ASSUME NEW n \in pending'
             PROVE  /\ \A p \in SuccParents(n)' \ nodeStates'[n].successParents :
                         /\ HasEnded(p)'
                         /\ graph'.join[n] = "any" /\ Delivered(p, n)'
                              => nodeStates'[n].triggeredBySuccess
                    /\ \A p \in nodeStates'[n].skippedParents :
                         /\ p \in SuccParents(n)' /\ HasEnded(p)'
                         /\ ~Delivered(p, n)' /\ Blameless(p)'
  BY DEF ParentsTrue
<1>5. n \in pending
  BY <1>2
<1>6. CASE nodeStates'[n].successParents = nodeStates[n].successParents
  <2>1. /\ nodeStates'[n].skippedParents = nodeStates[n].skippedParents
        /\ nodeStates'[n].triggeredBySuccess = nodeStates[n].triggeredBySuccess
    BY <1>1, <1>5, CancelChildEffect
  <2> QED BY <1>1, <1>5, <1>6, <2>1, ParentsKept
<1>7. CASE nodeStates'[n].successParents # nodeStates[n].successParents
  <2>1. /\ n = c
        /\ nodeStates'[c].successParents = nodeStates[c].successParents \ {from}
        /\ nodeStates'[c].skippedParents = nodeStates[c].skippedParents
        /\ nodeStates'[c].triggeredBySuccess = nodeStates[c].triggeredBySuccess
    BY <1>0, <1>1, <1>5, <1>7, CancelChildEffect
  <2>2. /\ SuccParents(c)' = SuccParents(c) /\ SuccParents(c) \subseteq Nodes
        /\ \A p : FailChildren(p)' = FailChildren(p)
    BY <1>1, GraphForever, EdgeTypes
  <2>3. \A p \in Nodes : HasEnded(p) =>
          /\ HasEnded(p)'
          /\ HasFailed(p)' <=> HasFailed(p)
          /\ Delivered(p, c)' <=> Delivered(p, c)
    BY <1>1, EndedForever
  <2>4. \A p \in Nodes : HasEnded(p) => (Blameless(p)' <=> Blameless(p))
    BY <2>2, <2>3 DEF Blameless
  <2>5. /\ \A p \in SuccParents(c) \ nodeStates[c].successParents :
             /\ HasEnded(p)
             /\ graph.join[c] = "any" /\ Delivered(p, c) => nodeStates[c].triggeredBySuccess
        /\ \A p \in nodeStates[c].skippedParents :
             p \in SuccParents(c) /\ HasEnded(p) /\ ~Delivered(p, c) /\ Blameless(p)
    BY <1>5, <2>1 DEF ContractInv, ParentsTrue
  <2> QED BY <1>2, <1>3, <1>4, <2>1, <2>2, <2>3, <2>4, <2>5
<1> QED BY <1>6, <1>7

LEMMA ParentsTrueNext ==
  ASSUME Types, StartInv, ContractInv, Next
  PROVE  ParentsTrue'
<1>1. ASSUME \A n \in pending' :
               /\ nodeStates'[n].successParents = nodeStates[n].successParents
               /\ nodeStates'[n].skippedParents = nodeStates[n].skippedParents
               /\ nodeStates'[n].triggeredBySuccess = nodeStates[n].triggeredBySuccess
      PROVE  ParentsTrue'
  BY <1>1, PendingShrinks, ParentsKept DEF ParentsTrue
<1>2. CASE Schedule \/ Settle
  BY <1>1, <1>2 DEF Schedule, Settle, StartBatch, RethrowCancellation, HandleSuccess, HandleFailure,
     ThrowDeadlock, Return, SettleOk, SettleRejected
<1>3. CASE PropagateFailure
  <2>1. pending' \subseteq Nodes
    BY PendingShrinks DEF Types
  <2> QED BY <1>1, <1>3, <2>1, PropagateFailureEffect
<1>4. ASSUME NEW c \in Nodes, HandleSkip(c) \/ SkipCallbackFails(c)
      PROVE  ParentsTrue'
  BY <1>1, <1>4 DEF HandleSkip, SkipCallbackFails, Types
<1>5. ASSUME NEW c \in Nodes, MarkInactive(c)
      PROVE  ParentsTrue'
  <2>1. pending' \subseteq Nodes
    BY PendingShrinks DEF Types
  <2> QED BY <1>1, <1>5, <2>1, MarkInactiveEffect
<1> QED BY <1>2, <1>3, <1>4, <1>5, ProcessChildParents, CancelChildParents DEF Next, Propagate

-------------------------------------------------------------------------------
(* InactiveTrue: an error source is given up only when it cannot fail.     *)
LEMMA InactiveTrueNext ==
  ASSUME Types, StartInv, ContractInv, Next
  PROVE  InactiveTrue'
<1>1. PendingFresh
  BY DEF StartInv
<1>2. \A n \in Nodes : FailParents(n)' = FailParents(n) /\ FailParents(n) \subseteq Nodes
  BY <1>1, GraphForever, EdgeTypes
<1>3. \A p \in Nodes : HasEnded(p) => HasEnded(p)' /\ (HasFailed(p)' <=> HasFailed(p))
  BY <1>1, EndedForever
<1>4. \A n \in Nodes : \A p \in nodeStates[n].inactiveFailureParents :
        p \in FailParents(n) /\ HasEnded(p) /\ ~HasFailed(p)
  BY DEF ContractInv, InactiveTrue
<1>5. ASSUME NEW n \in Nodes,
             nodeStates'[n].inactiveFailureParents = nodeStates[n].inactiveFailureParents
      PROVE  \A p \in nodeStates'[n].inactiveFailureParents :
               p \in FailParents(n)' /\ HasEnded(p)' /\ ~HasFailed(p)'
  BY <1>2, <1>3, <1>4, <1>5
<1>6. ASSUME \A n \in Nodes :
               nodeStates'[n].inactiveFailureParents = nodeStates[n].inactiveFailureParents
      PROVE  InactiveTrue'
  BY <1>5, <1>6 DEF InactiveTrue
<1>7. CASE Schedule \/ Settle
  BY <1>6, <1>7 DEF Schedule, Settle, StartBatch, RethrowCancellation, HandleSuccess, HandleFailure,
     ThrowDeadlock, Return, SettleOk, SettleRejected
<1>8. CASE PropagateFailure
  BY <1>6, <1>8, PropagateFailureEffect
<1>9. ASSUME NEW c \in Nodes, NEW type \in {"fulfilled", "skipped"}, ProcessChild(c, type)
      PROVE  InactiveTrue'
  BY <1>6, <1>9, ProcessChildEffect
<1>10. ASSUME NEW c \in Nodes, CancelChild(c)
       PROVE  InactiveTrue'
  BY <1>6, <1>10, CancelChildEffect
<1>11. ASSUME NEW c \in Nodes, HandleSkip(c) \/ SkipCallbackFails(c)
       PROVE  InactiveTrue'
  <2> DEFINE new == [nodeStates[c] EXCEPT !.skipped = TRUE]
  <2>1. new.inactiveFailureParents = nodeStates[c].inactiveFailureParents
    BY DEF Types, NodeState
  <2>2. nodeStates' = [nodeStates EXCEPT ![c] = new] \/ nodeStates' = nodeStates
    BY <1>11 DEF HandleSkip, SkipCallbackFails
  <2> HIDE DEF new
  <2> QED BY <1>6, <2>1, <2>2 DEF Types
<1>12. ASSUME NEW c \in Nodes, MarkInactive(c)
       PROVE  InactiveTrue'
  <2>1. Calls("inactive", c)
    BY <1>12 DEF MarkInactive
  <2>2. Top \in Frame /\ FrameTrue(Top) /\ Top.call = "inactive" /\ c \in Top.kids
    BY <2>1, TopTrue DEF ContractInv, Calls
  <2>3. PICK from \in Nodes : from = Top.from
    BY <2>2 DEF Frame
  <2>4. HasEnded(from) /\ ~HasFailed(from) /\ from \in FailParents(c)
    BY <2>2, <2>3 DEF FrameTrue, FailChildren, FailParents
  <2>5. \/ nodeStates'[c].inactiveFailureParents = nodeStates[c].inactiveFailureParents
        \/ nodeStates'[c].inactiveFailureParents =
             nodeStates[c].inactiveFailureParents \union {from}
    BY <1>12, <2>3, MarkInactiveEffect
  <2>6. \A p \in nodeStates'[c].inactiveFailureParents :
          p \in FailParents(c)' /\ HasEnded(p)' /\ ~HasFailed(p)'
    BY <1>2, <1>3, <1>4, <2>4, <2>5
  <2>7. \A n \in Nodes : n # c => nodeStates'[n] = nodeStates[n]
    BY <1>12, MarkInactiveEffect
  <2> QED BY <1>5, <2>6, <2>7 DEF InactiveTrue
<1> QED BY <1>7, <1>8, <1>9, <1>10, <1>11, <1>12 DEF Next, Propagate

-------------------------------------------------------------------------------
(* FramesTrue: the frames that may be on the stack.                        *)
TrueFrames == {f \in Frame : FrameTrue(f)}

LEMMA FramesTrueSeq == Types => (FramesTrue <=> work \in Seq(TrueFrames))
BY DEF Types, FramesTrue, TrueFrames

LEMMA TrueFramesForever ==
  ASSUME Types, PendingFresh, Next
  PROVE  \A s \in Seq(TrueFrames) : s \in Seq(TrueFrames')
<1>1. TrueFrames \subseteq TrueFrames'
  BY FrameTrueForever DEF TrueFrames
<1> QED BY <1>1

LEMMA LoopTrue ==
  ASSUME NEW call \in CallNames, NEW from \in Nodes, NEW kids \in SUBSET Nodes,
         \A f \in Frame : f.call = call /\ f.from = from /\ f.kids = kids => FrameTrue(f)'
  PROVE  Loop(call, from, kids) \in Seq(TrueFrames')
<1> DEFINE f == [call |-> call, from |-> from, kids |-> kids]
<1>1. CASE kids = {}
  BY <1>1 DEF Loop
<1>2. CASE kids # {}
  <2>1. f \in Frame
    BY <1>2 DEF Frame, CallNames
  <2>2. f \in TrueFrames'
    BY <2>1 DEF TrueFrames
  <2>3. Loop(call, from, kids) = <<f>>
    BY <1>2 DEF Loop
  <2> HIDE DEF f
  <2> QED BY <2>2, <2>3
<1> QED BY <1>1, <1>2

LEMMA SeqConcat ==
  ASSUME NEW S, NEW A \in Seq(S), NEW B \in Seq(S)
  PROVE  A \o B \in Seq(S)
OBVIOUS

(* The remaining iterations of the top loop say no more than it said.      *)
LEMMA RestTrue ==
  ASSUME Types, PendingFresh, FramesTrue, Next, NEW call, NEW c, Calls(call, c)
  PROVE  Rest(c) \in Seq(TrueFrames')
<1>1. Top \in Frame /\ FrameTrue(Top)
  BY TopTrue
<1>2. Tail(work) \in Seq(TrueFrames)
  BY FramesTrueSeq DEF Calls
<1>3. PICK f \in Frame : f = Top
  BY <1>1
<1>4. f.from \in Nodes /\ f.kids \subseteq Nodes /\ f.call \in CallNames
  BY DEF Frame, CallNames
<1>5. FrameTrue(f)'
  BY <1>1, <1>3, FrameTrueForever
<1>6. \A g \in Frame : g.call = f.call /\ g.from = f.from /\ g.kids = f.kids \ {c} => FrameTrue(g)'
  BY <1>4, <1>5 DEF FrameTrue, CallNames
<1>7. Loop(f.call, f.from, f.kids \ {c}) \in Seq(TrueFrames')
  BY <1>4, <1>6, LoopTrue
<1>8. Rest(c) = Loop(f.call, f.from, f.kids \ {c}) \o Tail(work)
  BY <1>3 DEF Rest
<1> QED BY <1>2, <1>7, <1>8, SeqConcat, TrueFramesForever

LEMMA FramesTrueStep == Types' /\ work' \in Seq(TrueFrames') => FramesTrue'
<1> SUFFICES ASSUME Types', work' \in Seq(TrueFrames'), NEW i \in DOMAIN work'
             PROVE  FrameTrue(work[i])'
  BY DEF FramesTrue
<1>1. work'[i] \in TrueFrames'
  OBVIOUS
<1> QED BY <1>1 DEF TrueFrames

LEMMA HandleSuccessFrames ==
  ASSUME Types, Types', StartInv, ContractInv, HandleSuccess
  PROVE  FramesTrue'
<1>1. Next /\ settled # <<>>
  BY DEF Next, Schedule, HandleSuccess, CanHandleOutcome
<1>2. PICK n \in Nodes : n = Head(settled)
  BY <1>1 DEF Types
<1>3. /\ result[n] = "ok" /\ UNCHANGED <<graph, pending, nodeStates, result, active>>
      /\ work' = Loop("fulfilled", n, active[n])
                   \o Loop("skipped", n, SuccChildren(n) \ active[n])
                   \o Loop("inactive", n, FailChildren(n))
  BY <1>2 DEF HandleSuccess
<1>4. HasEnded(n)' /\ ~HasFailed(n)' /\ \A c : Delivered(n, c)' <=> c \in active[n]
  BY <1>3 DEF HasEnded, HasFailed, Delivered
<1>5. Blameless(n)' /\ FailChildren(n)' = FailChildren(n)
  BY <1>3, <1>4 DEF Blameless, FailChildren
<1> DEFINE S == SuccChildren(n) \ active[n]
<1>6. active[n] \in SUBSET Nodes /\ S \in SUBSET Nodes /\ FailChildren(n) \in SUBSET Nodes
  BY EdgeTypes DEF Types
<1>7. \A c \in S : ~Delivered(n, c)'
  BY <1>4
<1> HIDE DEF S
<1>8. Loop("fulfilled", n, active[n]) \in Seq(TrueFrames')
  <2>1. \A f \in Frame : f.call = "fulfilled" /\ f.from = n /\ f.kids = active[n] => FrameTrue(f)'
    BY <1>4 DEF FrameTrue
  <2> QED BY <1>6, <2>1, LoopTrue DEF CallNames
<1>9. Loop("skipped", n, S) \in Seq(TrueFrames')
  <2>1. \A f \in Frame : f.call = "skipped" /\ f.from = n /\ f.kids = S => FrameTrue(f)'
    BY <1>4, <1>5, <1>7 DEF FrameTrue
  <2> QED BY <1>6, <2>1, LoopTrue DEF CallNames
<1>10. Loop("inactive", n, FailChildren(n)) \in Seq(TrueFrames')
  <2>1. \A f \in Frame : f.call = "inactive" /\ f.from = n /\ f.kids = FailChildren(n) => FrameTrue(f)'
    BY <1>4, <1>5 DEF FrameTrue
  <2> QED BY <1>6, <2>1, LoopTrue DEF CallNames
<1>11. work' \in Seq(TrueFrames')
  BY <1>3, <1>8, <1>9, <1>10, SeqConcat DEF S
<1> QED BY <1>11, FramesTrueStep

LEMMA PropagateFailureFrames ==
  ASSUME Types, Types', StartInv, ContractInv, PropagateFailure
  PROVE  FramesTrue'
<1>1. Next /\ failQueue # <<>> /\ PendingFresh
  BY DEF Next, Propagate, PropagateFailure, StartInv
<1>2. PICK n \in Nodes : n = Head(failQueue) /\ HasFailed(n)
  BY <1>1 DEF Types, StartInv, QueuesSound
<1>3. work' = Loop("cancel", n, SuccChildren(n))
  BY <1>2 DEF PropagateFailure
<1>4. HasFailed(n)'
  BY <1>1, <1>2, Monotone
<1>5. \A f \in Frame : f.call = "cancel" /\ f.from = n /\ f.kids = SuccChildren(n) => FrameTrue(f)'
  BY <1>4 DEF FrameTrue
<1>6. Loop("cancel", n, SuccChildren(n)) \in Seq(TrueFrames')
  BY <1>5, LoopTrue, EdgeTypes DEF CallNames
<1> QED BY <1>3, <1>6, FramesTrueStep

(* A join that is found dead is one the contract calls dead.               *)
LEMMA DeadJoinIsDead ==
  Types /\ StartInv /\ ParentsTrue => \A n \in pending : JoinDead(n) => PathDead(n)
<1> SUFFICES ASSUME Types, StartInv, ParentsTrue, NEW n \in pending, JoinDead(n)
             PROVE  PathDead(n)
  OBVIOUS
<1>1. n \in Nodes /\ SuccParents(n) # {} /\ nodeStates[n].successParents = {}
  BY DEF Types, JoinDead
<1>2. graph.join[n] \in {"all", "any"}
  BY <1>1 DEF Types, Graph, Strategies
<1>3. \A p \in SuccParents(n) :
        /\ HasEnded(p)
        /\ graph.join[n] = "any" /\ Delivered(p, n) => nodeStates[n].triggeredBySuccess
  BY <1>1 DEF ParentsTrue
<1>4. CASE graph.join[n] = "all"
  <2>1. PICK p \in nodeStates[n].skippedParents : p \in SuccParents(n) /\ ~Delivered(p, n)
    BY <1>4 DEF JoinDead, ParentsTrue
  <2>2. \A q \in SuccParents(n) : q \in nodeStates[n].skippedParents \/ Delivered(q, n)
    BY <1>1, <1>4 DEF StartInv, JoinProgress
  <2>3. \A q \in SuccParents(n) : Blameless(q)
    BY <2>2, DeliveredEnded DEF ParentsTrue, Blameless
  <2> QED BY <1>1, <1>3, <1>4, <2>1, <2>3 DEF PathDead
<1>5. CASE graph.join[n] = "any"
  BY <1>1, <1>3, <1>5 DEF JoinDead, PathDead
<1> QED BY <1>2, <1>4, <1>5

LEMMA ProcessChildFrames ==
  ASSUME Types, Types', StartInv, StartInv', ContractInv,
         NEW c \in Nodes, NEW type \in {"fulfilled", "skipped"}, ProcessChild(c, type)
  PROVE  FramesTrue'
<1>0. PICK parent : parent = Top.from
  OBVIOUS
<1>1. Next /\ PendingFresh /\ Calls(type, c)
  BY DEF Next, Propagate, StartInv, ProcessChild
<1>2. Rest(c) \in Seq(TrueFrames')
  BY <1>1, RestTrue DEF ContractInv
<1>3. CASE work' = Rest(c)
  BY <1>2, <1>3, FramesTrueStep
<1>4. CASE work' # Rest(c)
  <2> DEFINE left == nodeStates[c].successParents \ {parent}
             dead == IF type = "skipped" THEN nodeStates[c].skippedParents \union {parent}
                                         ELSE nodeStates[c].skippedParents
             done == nodeStates[c].triggeredBySuccess \/ Triggers(c, type)
             skip == left = {} /\ (IF graph.join[c] = "all" THEN dead # {} ELSE ~done)
  <2>1. Undecided(c, parent)
    BY <1>0, <1>4, Zenon DEF ProcessChild
  <2>2. work' = IF skip THEN Loop("skip", c, {c}) \o Rest(c) ELSE Rest(c)
    BY <1>0, <2>1, Zenon DEF ProcessChild, Remaining
  <2>3. skip /\ work' = Loop("skip", c, {c}) \o Rest(c)
    BY <1>4, <2>2
  <2>4. graph' = graph /\ pending' = pending
    BY DEF ProcessChild, batchVars
  <2>5. c \in pending' /\ parent \in SuccParents(c)'
    BY <2>1, <2>4 DEF Undecided, StartInv, JoinProgress, SuccParents
  <2>6. JoinDead(c)'
    BY <1>0, <2>1, <2>3, <2>4, <2>5, ProcessChildEffect DEF JoinDead
  <2>7. PathDead(c)'
    <3>1. ParentsTrue'
      BY <1>1, ParentsTrueNext
    <3>2. (Types /\ StartInv /\ ParentsTrue => \A n \in pending : JoinDead(n) => PathDead(n))'
      BY DeadJoinIsDead, PTL
    <3> QED BY <2>5, <2>6, <3>1, <3>2
  <2>8. \A f \in Frame : f.call = "skip" /\ f.from = c /\ f.kids = {c} => FrameTrue(f)'
    BY <2>7 DEF FrameTrue
  <2>9. Loop("skip", c, {c}) \in Seq(TrueFrames')
    BY <2>8, LoopTrue DEF CallNames
  <2> QED BY <1>2, <2>3, <2>9, SeqConcat, FramesTrueStep
<1> QED BY <1>3, <1>4

LEMMA HandleSkipFrames ==
  ASSUME Types, Types', StartInv, ContractInv, NEW c \in Nodes, HandleSkip(c)
  PROVE  FramesTrue'
<1>1. Next /\ PendingFresh /\ Calls("skip", c)
  BY DEF Next, Propagate, StartInv, HandleSkip
<1>2. Rest(c) \in Seq(TrueFrames')
  BY <1>1, RestTrue DEF ContractInv
<1>3. CASE work' = Rest(c)
  BY <1>2, <1>3, FramesTrueStep
<1>4. CASE work' # Rest(c)
  <2>1. /\ c \in pending /\ pending' = pending \ {c} /\ result'[c] = result[c]
        /\ nodeStates' = [nodeStates EXCEPT ![c] = [@ EXCEPT !.skipped = TRUE]]
        /\ work' = Loop("inactive", c, FailChildren(c))
                     \o Loop("skipped", c, SuccChildren(c)) \o Rest(c)
    BY <1>4 DEF HandleSkip, batchVars
  <2>2. result'[c] = "none" /\ c \notin pending' /\ nodeStates'[c].skipped
    BY <1>1, <2>1 DEF PendingFresh, Types, NodeState
  <2>3. HasEnded(c)' /\ ~HasFailed(c)' /\ Blameless(c)' /\ \A k : ~Delivered(c, k)'
    BY <2>2 DEF HasEnded, HasFailed, Blameless, Delivered
  <2>4. FailChildren(c)' = FailChildren(c)
    BY <1>1, GraphForever
  <2>5. Loop("inactive", c, FailChildren(c)) \in Seq(TrueFrames')
    <3>1. \A f \in Frame : f.call = "inactive" /\ f.from = c /\ f.kids = FailChildren(c)
                             => FrameTrue(f)'
      BY <2>3, <2>4 DEF FrameTrue
    <3> QED BY <3>1, LoopTrue, EdgeTypes DEF CallNames
  <2>6. Loop("skipped", c, SuccChildren(c)) \in Seq(TrueFrames')
    <3>1. \A f \in Frame : f.call = "skipped" /\ f.from = c /\ f.kids = SuccChildren(c)
                             => FrameTrue(f)'
      BY <2>3 DEF FrameTrue
    <3> QED BY <3>1, LoopTrue, EdgeTypes DEF CallNames
  <2> QED BY <1>2, <2>1, <2>5, <2>6, SeqConcat, FramesTrueStep
<1> QED BY <1>3, <1>4

(* As many inactive error sources as there are error sources: all of them. *)
LEMMA AllInactiveIsNoErrorLeft ==
  Types /\ InactiveTrue =>
    \A n \in Nodes : /\ nodeStates[n].inactiveFailureParents # {}
                     /\ AllInactive(n, nodeStates[n].inactiveFailureParents)
                     => NoErrorLeft(n)
<1> SUFFICES ASSUME Types, InactiveTrue, NEW n \in Nodes,
                    nodeStates[n].inactiveFailureParents # {},
                    AllInactive(n, nodeStates[n].inactiveFailureParents)
             PROVE  NoErrorLeft(n)
  OBVIOUS
<1>1. nodeStates[n].inactiveFailureParents \subseteq FailParents(n)
  BY DEF InactiveTrue
<1>2. IsFiniteSet(FailParents(n))
  BY EdgeTypes, NodesFinite, FS_Subset
<1>3. nodeStates[n].inactiveFailureParents = FailParents(n)
  BY <1>1, <1>2, FS_Subset DEF AllInactive
<1> QED BY <1>3 DEF NoErrorLeft, InactiveTrue

LEMMA MarkInactiveFrames ==
  ASSUME Types, Types', StartInv, ContractInv, NEW c \in Nodes, MarkInactive(c)
  PROVE  FramesTrue'
<1>1. Next /\ PendingFresh /\ Calls("inactive", c)
  BY DEF Next, Propagate, StartInv, MarkInactive
<1>2. Rest(c) \in Seq(TrueFrames')
  BY <1>1, RestTrue DEF ContractInv
<1>3. CASE work' = Rest(c)
  BY <1>2, <1>3, FramesTrueStep
<1>4. CASE work' # Rest(c)
  <2>1. /\ nodeStates'[c].inactiveFailureParents # {}
        /\ AllInactive(c, nodeStates'[c].inactiveFailureParents)
        /\ work' = Loop("skip", c, {c}) \o Rest(c)
    BY <1>4, MarkInactiveEffect
  <2>2. graph' = graph /\ FailParents(c)' = FailParents(c) /\ InactiveTrue'
    BY <1>1, GraphForever, InactiveTrueNext
  <2>3. NoErrorLeft(c)'
    <3>1. AllInactive(c, nodeStates[c].inactiveFailureParents)'
      BY <2>1, <2>2 DEF AllInactive
    <3>2. (Types /\ InactiveTrue =>
             \A n \in Nodes : /\ nodeStates[n].inactiveFailureParents # {}
                              /\ AllInactive(n, nodeStates[n].inactiveFailureParents)
                              => NoErrorLeft(n))'
      BY AllInactiveIsNoErrorLeft, PTL
    <3> QED BY <2>1, <2>2, <3>1, <3>2
  <2>4. \A f \in Frame : f.call = "skip" /\ f.from = c /\ f.kids = {c} => FrameTrue(f)'
    BY <2>3 DEF FrameTrue
  <2>5. Loop("skip", c, {c}) \in Seq(TrueFrames')
    BY <2>4, LoopTrue DEF CallNames
  <2> QED BY <1>2, <2>1, <2>5, SeqConcat, FramesTrueStep
<1> QED BY <1>3, <1>4

(* A failure that has a handler skips the success child.                   *)
LEMMA CancelChildFrames ==
  ASSUME Types, Types', StartInv, ContractInv, NEW c \in Nodes, CancelChild(c)
  PROVE  FramesTrue'
<1>1. Next /\ PendingFresh /\ Calls("cancel", c)
  BY DEF Next, Propagate, StartInv, CancelChild
<1>2. Rest(c) \in Seq(TrueFrames')
  BY <1>1, RestTrue DEF ContractInv
<1>3. CASE work' = Rest(c)
  BY <1>2, <1>3, FramesTrueStep
<1>4. CASE work' # Rest(c)
  <2>1. Top \in Frame /\ FrameTrue(Top) /\ Top.call = "cancel"
    BY <1>1, TopTrue DEF ContractInv, Calls
  <2>2. PICK from \in Nodes : from = Top.from
    BY <2>1 DEF Frame
  <2>3. FailChildren(from) # {} /\ work' = Loop("skipped", from, {c}) \o Rest(c)
    BY <1>4, <2>2 DEF CancelChild
  <2>4. HasFailed(from)
    BY <2>1, <2>2 DEF FrameTrue
  <2>5. HasFailed(from)' /\ HasEnded(from)' /\ ~Delivered(from, c)'
    <3>1. HasFailed(from)'
      BY <1>1, <2>4, Monotone
    <3> QED BY <3>1 DEF HasFailed, HasEnded, Delivered
  <2>6. Blameless(from)'
    BY <1>1, <2>3, GraphForever DEF Blameless
  <2>7. \A f \in Frame : f.call = "skipped" /\ f.from = from /\ f.kids = {c} => FrameTrue(f)'
    BY <2>5, <2>6 DEF FrameTrue
  <2>8. Loop("skipped", from, {c}) \in Seq(TrueFrames')
    BY <2>7, LoopTrue DEF CallNames
  <2> QED BY <1>2, <2>3, <2>8, SeqConcat, FramesTrueStep
<1> QED BY <1>3, <1>4

LEMMA FramesTrueNext ==
  ASSUME Types, Types', StartInv, StartInv', ContractInv, Next
  PROVE  FramesTrue'
<1>1. ASSUME work' = work
      PROVE  FramesTrue'
  <2>1. work \in Seq(TrueFrames)
    BY FramesTrueSeq DEF ContractInv
  <2>2. work \in Seq(TrueFrames')
    BY <2>1, TrueFramesForever DEF StartInv
  <2> QED BY <1>1, <2>2, FramesTrueStep
<1>2. CASE Schedule
  <2>1. CASE StartBatch \/ RethrowCancellation \/ HandleFailure \/ ThrowDeadlock \/ Return
    BY <1>1, <2>1 DEF StartBatch, RethrowCancellation, HandleFailure, ThrowDeadlock, Return
  <2> QED BY <1>2, <2>1, HandleSuccessFrames DEF Schedule
<1>3. CASE Settle
  BY <1>1, <1>3 DEF Settle, SettleOk, SettleRejected
<1>4. ASSUME NEW c \in Nodes, SkipCallbackFails(c)
      PROVE  FramesTrue'
  BY <1>1, <1>4 DEF SkipCallbackFails
<1> QED BY <1>2, <1>3, <1>4, PropagateFailureFrames, ProcessChildFrames, HandleSkipFrames,
        MarkInactiveFrames, CancelChildFrames DEF Next, Propagate

-------------------------------------------------------------------------------
(* The outcome of the batch that is handled next.                          *)
LEMMA HeadSettled ==
  ASSUME Types, StartInv, HandleSuccess \/ HandleFailure
  PROVE  /\ settled # <<>> /\ Head(settled) \in Nodes
         /\ settled' = Tail(settled)
         /\ result[Head(settled)] \in {"ok", "err", "cancelled"}
         /\ UNCHANGED <<graph, status, pending, nodeStates, result, active>>
<1>1. settled # <<>>
  BY DEF HandleSuccess, HandleFailure, CanHandleOutcome
<1>2. Head(settled) \in Nodes /\ result[Head(settled)] \in {"ok", "err", "cancelled"}
  BY <1>1 DEF Types, StartInv, QueuesSound
<1> QED BY <1>1, <1>2 DEF HandleSuccess, HandleFailure

(* A cancelled child counts as failed from then on.                        *)
LEMMA CancelledFails ==
  ASSUME Types, PendingFresh, NEW c \in Nodes, CancelChild(c)
  PROVE  /\ \/ failedErrors' = failedErrors /\ pending' = pending
            \/ /\ failedErrors' = failedErrors \union {c} /\ HasFailed(c)'
               /\ pending' = pending \ {c}
         /\ UNCHANGED <<result, handledFailureSources, settled>>
         /\ \A n \in Nodes : nodeStates'[n].skipped = nodeStates[n].skipped
<1>1. /\ \/ failedErrors' = failedErrors /\ pending' = pending
         \/ /\ failedErrors' = failedErrors \union {c}
            /\ pending' = pending \ {c} /\ c \in pending
      /\ UNCHANGED <<result, handledFailureSources, settled>>
  BY Zenon DEF CancelChild, batchVars
<1>2. \A n \in Nodes : nodeStates'[n].skipped = nodeStates[n].skipped
  BY CancelChildEffect
<1>3. c \in pending => result[c] = "none" /\ ~nodeStates[c].skipped
  BY DEF PendingFresh
<1> QED BY <1>1, <1>2, <1>3 DEF HasFailed

LEMMA ErrorsTrueNext ==
  ASSUME Types, StartInv, ContractInv, Next
  PROVE  ErrorsTrue'
<1>1. PendingFresh /\ (\A n \in Nodes : HasFailed(n) => HasFailed(n)')
  BY Monotone DEF StartInv
<1>2. \A n \in Nodes : FailParents(n)' = FailParents(n)
  BY <1>1, GraphForever
<1>3. /\ failedErrors \subseteq Nodes
      /\ \A n \in failedErrors : HasFailed(n)
      /\ \A h \in Nodes : handledFailureSources[h] \subseteq FailParents(h)
  BY DEF ContractInv, ErrorsTrue, Types
<1>4. ASSUME failedErrors' \subseteq failedErrors, handledFailureSources' = handledFailureSources
      PROVE  ErrorsTrue'
  BY <1>1, <1>2, <1>3, <1>4 DEF ErrorsTrue
<1>5. CASE HandleSuccess
  <2>1. failedErrors' \subseteq failedErrors
    BY <1>5 DEF HandleSuccess
  <2>2. \A h \in Nodes : handledFailureSources'[h] \subseteq handledFailureSources[h]
    BY <1>5 DEF HandleSuccess, Types
  <2> QED BY <1>1, <1>2, <1>3, <2>1, <2>2 DEF ErrorsTrue
<1>6. CASE HandleFailure
  <2>1. PICK n \in Nodes : n = Head(settled) /\ result[n] \in {"ok", "err", "cancelled"}
    BY <1>6, HeadSettled
  <2>2. /\ failedErrors' = failedErrors \union {n} /\ result[n] # "ok"
        /\ handledFailureSources' = handledFailureSources
    BY <1>6, <2>1 DEF HandleFailure, Records
  <2>3. HasFailed(n)
    BY <2>1, <2>2 DEF HasFailed
  <2> QED BY <1>1, <1>2, <1>3, <2>2, <2>3 DEF ErrorsTrue
<1>7. CASE PropagateFailure
  <2>1. PICK n : n = Head(failQueue)
    OBVIOUS
  <2>2. failQueue # <<>> /\ failedErrors' = failedErrors
    BY <1>7 DEF PropagateFailure
  <2>3. n \in Nodes
    BY <2>1, <2>2 DEF Types
  <2>4. \A h \in Nodes : \/ handledFailureSources'[h] = handledFailureSources[h]
                         \/ /\ handledFailureSources'[h] = handledFailureSources[h] \union {n}
                            /\ h \in FailChildren(n)
    BY <1>7, <2>1 DEF PropagateFailure
  <2>5. \A h \in Nodes : h \in FailChildren(n) => n \in FailParents(h)
    BY <2>3 DEF FailChildren, FailParents
  <2> QED BY <1>1, <1>2, <1>3, <2>2, <2>4, <2>5 DEF ErrorsTrue
<1>8. ASSUME NEW c \in Nodes, CancelChild(c)
      PROVE  ErrorsTrue'
  BY <1>1, <1>2, <1>3, <1>8, CancelledFails DEF ErrorsTrue
<1>9. CASE Settle \/ StartBatch \/ RethrowCancellation \/ ThrowDeadlock \/ Return
  BY <1>4, <1>9 DEF Settle, SettleOk, SettleRejected, StartBatch, RethrowCancellation,
     ThrowDeadlock, Return
<1>10. ASSUME NEW c \in Nodes, NEW type \in {"fulfilled", "skipped"},
              ProcessChild(c, type) \/ HandleSkip(c) \/ SkipCallbackFails(c) \/ MarkInactive(c)
       PROVE  ErrorsTrue'
  BY <1>4, <1>10, Zenon DEF ProcessChild, HandleSkip, SkipCallbackFails, MarkInactive
<1> QED BY <1>5, <1>6, <1>7, <1>8, <1>9, <1>10 DEF Next, Schedule, Propagate

-------------------------------------------------------------------------------
(* Accounted: no failure is forgotten.                                     *)
IsSettled(n) == \E i \in DOMAIN settled : settled[i] = n

LEMMA AccountedKept ==
  ASSUME Types, StartInv, ContractInv, Next, NEW n \in Nodes,
         HasFailed(n), ~IsSettled(n), n \in failedErrors => n \in failedErrors'
  PROVE  n \in failedErrors' \/ \E h \in FailChildren(n)' : result'[h] = "ok"
<1>1. PendingFresh /\ FailChildren(n)' = FailChildren(n) /\ FailChildren(n) \subseteq Nodes
  BY GraphForever, EdgeTypes DEF StartInv
<1>2. n \in failedErrors \/ \E h \in FailChildren(n) : result[h] = "ok"
  BY DEF ContractInv, Accounted, IsSettled
<1>3. \A h \in Nodes : result[h] = "ok" => result'[h] = "ok"
  BY <1>1, EndedForever DEF HasEnded
<1> QED BY <1>1, <1>2, <1>3

LEMMA AccountedNext ==
  ASSUME Types, Types', StartInv, ContractInv, Next
  PROVE  Accounted'
<1> SUFFICES ASSUME NEW n \in Nodes, HasFailed(n)', ~IsSettled(n)'
             PROVE  n \in failedErrors' \/ \E h \in FailChildren(n)' : result'[h] = "ok"
  BY DEF Accounted, IsSettled
<1>1. PendingFresh /\ FailChildren(n)' = FailChildren(n)
  BY GraphForever DEF StartInv
<1>2. ASSUME UNCHANGED <<pending, result, settled>>, failedErrors' = failedErrors,
             nodeStates'[n].skipped = nodeStates[n].skipped
      PROVE  n \in failedErrors' \/ \E h \in FailChildren(n)' : result'[h] = "ok"
  <2>1. HasFailed(n) /\ ~IsSettled(n)
    BY <1>2 DEF HasFailed, IsSettled
  <2> QED BY <1>2, <2>1, AccountedKept
<1>3. CASE StartBatch
  <2>1. HasFailed(n) /\ ~IsSettled(n) /\ failedErrors' = failedErrors
    BY <1>3 DEF StartBatch, HasFailed, IsSettled, Types
  <2> QED BY <2>1, AccountedKept
<1>4. CASE RethrowCancellation \/ ThrowDeadlock \/ Return
  BY <1>2, <1>4 DEF RethrowCancellation, ThrowDeadlock, Return
<1>5. CASE HandleSuccess \/ HandleFailure
  <2>1. PICK head \in Nodes : head = Head(settled) /\ settled # <<>> /\ settled' = Tail(settled)
    BY <1>5, HeadSettled
  <2>2. HasFailed(n) /\ UNCHANGED <<graph, result>>
    BY <1>5, HeadSettled DEF HasFailed
  <2>3. n # head => ~IsSettled(n)
    <3> SUFFICES ASSUME n # head, NEW i \in DOMAIN settled, settled[i] = n PROVE FALSE
      BY DEF IsSettled
    <3>1. settled \in Seq(Nodes)
      BY DEF Types
    <3>2. i # 1
      BY <2>1, <3>1
    <3>3. i - 1 \in DOMAIN settled' /\ settled'[i - 1] = settled[i]
      BY <2>1, <3>1, <3>2
    <3> QED BY <3>3 DEF IsSettled
  <2>4. CASE HandleFailure
    <3>1. failedErrors' = failedErrors \union {head}
      BY <2>1, <2>4 DEF HandleFailure, Records
    <3> QED BY <2>2, <2>3, <3>1, AccountedKept
  <2>5. CASE HandleSuccess
    <3>1. result[head] = "ok" /\ failedErrors' = failedErrors \ handledFailureSources[head]
      BY <2>1, <2>5 DEF HandleSuccess, Clears
    <3>2. n # head
      BY <2>2, <3>1 DEF HasFailed
    <3>3. CASE n \in handledFailureSources[head]
      <4>1. n \in FailParents(head)
        BY <3>3 DEF ContractInv, ErrorsTrue
      <4>2. head \in FailChildren(n)
        BY <4>1 DEF FailParents, FailChildren
      <4> QED BY <1>1, <2>2, <3>1, <4>2
    <3>4. CASE n \notin handledFailureSources[head]
      BY <2>2, <2>3, <3>1, <3>2, <3>4, AccountedKept
    <3> QED BY <3>3, <3>4
  <2> QED BY <1>5, <2>4, <2>5
<1>6. CASE Settle
  <2>1. PICK m \in Nodes : SettleOk(m) \/ SettleRejected(m)
    BY <1>6 DEF Settle
  <2>2. /\ settled' = Append(settled, m) /\ UNCHANGED <<pending, nodeStates, failedErrors>>
        /\ \A k \in Nodes : k # m => result'[k] = result[k]
    BY <2>1 DEF SettleOk, SettleRejected, Types
  <2>3. ~IsSettled(n) /\ n # m
    <3>1. settled \in Seq(Nodes)
      BY DEF Types
    <3>2. \A i \in DOMAIN settled : i \in DOMAIN settled' /\ settled'[i] = settled[i]
      BY <2>2, <3>1
    <3>3. Len(settled) + 1 \in DOMAIN settled' /\ settled'[Len(settled) + 1] = m
      BY <2>2, <3>1
    <3> QED BY <3>2, <3>3 DEF IsSettled
  <2>4. HasFailed(n)
    BY <2>2, <2>3 DEF HasFailed
  <2> QED BY <2>2, <2>3, <2>4, AccountedKept
<1>7. CASE PropagateFailure
  <2>1. UNCHANGED <<pending, result, settled>> /\ failedErrors' = failedErrors
    BY <1>7 DEF PropagateFailure, batchVars
  <2> QED BY <1>2, <1>7, <2>1, PropagateFailureEffect
<1>8. ASSUME NEW c \in Nodes, NEW type \in {"fulfilled", "skipped"}, ProcessChild(c, type)
      PROVE  n \in failedErrors' \/ \E h \in FailChildren(n)' : result'[h] = "ok"
  <2>1. UNCHANGED <<pending, result, settled>> /\ failedErrors' = failedErrors
    BY <1>8, Zenon DEF ProcessChild, batchVars
  <2>2. nodeStates'[n].skipped = nodeStates[n].skipped
    BY <1>8, ProcessChildEffect
  <2> QED BY <1>2, <2>1, <2>2
<1>9. ASSUME NEW c \in Nodes, HandleSkip(c) \/ SkipCallbackFails(c)
      PROVE  n \in failedErrors' \/ \E h \in FailChildren(n)' : result'[h] = "ok"
  <2>1. /\ UNCHANGED <<result, settled, failedErrors>>
        /\ \/ UNCHANGED <<pending, nodeStates>>
           \/ /\ pending' = pending \ {c}
              /\ nodeStates' = [nodeStates EXCEPT ![c] = [@ EXCEPT !.skipped = TRUE]]
    BY <1>9 DEF HandleSkip, SkipCallbackFails, batchVars
  <2>2. \/ UNCHANGED <<pending, nodeStates>>
        \/ /\ pending' = pending \ {c} /\ nodeStates'[c].skipped
           /\ n # c => nodeStates'[n] = nodeStates[n]
    BY <2>1 DEF Types, NodeState
  <2>3. HasFailed(n) /\ ~IsSettled(n)
    BY <2>1, <2>2 DEF HasFailed, IsSettled
  <2> QED BY <2>1, <2>3, AccountedKept
<1>10. ASSUME NEW c \in Nodes, MarkInactive(c)
       PROVE  n \in failedErrors' \/ \E h \in FailChildren(n)' : result'[h] = "ok"
  <2>1. UNCHANGED <<pending, result, settled>> /\ failedErrors' = failedErrors
    BY <1>10 DEF MarkInactive, batchVars
  <2> QED BY <1>2, <1>10, <2>1, MarkInactiveEffect
<1>11. ASSUME NEW c \in Nodes, CancelChild(c)
       PROVE  n \in failedErrors' \/ \E h \in FailChildren(n)' : result'[h] = "ok"
  <2>1. CASE failedErrors' = failedErrors /\ pending' = pending
    BY <1>1, <1>2, <1>11, <2>1, CancelledFails
  <2>2. CASE failedErrors' = failedErrors \union {c} /\ pending' = pending \ {c}
    <3>1. n # c => HasFailed(n) /\ ~IsSettled(n)
      BY <1>1, <1>11, <2>2, CancelledFails DEF HasFailed, IsSettled
    <3> QED BY <2>2, <3>1, AccountedKept
  <2> QED BY <1>1, <1>11, <2>1, <2>2, CancelledFails
<1> QED BY <1>3, <1>4, <1>5, <1>6, <1>7, <1>8, <1>9, <1>10, <1>11 DEF Next, Schedule, Propagate

-------------------------------------------------------------------------------
(* HandlingQuiet and CancellationNotMasked.                                *)
LEMMA NothingCancelled ==
  ASSUME Types, CancellationNotMasked, status = "running", PreserveCancellation,
         ~CancelledInBatch
  PROVE  \A n \in Nodes : result[n] # "cancelled"
BY DEF CancellationNotMasked, CancelledInBatch

LEMMA HandlingQuietNext ==
  ASSUME Types, ContractInv, CancellationNotMasked, Next
  PROVE  HandlingQuiet'
<1>1. CASE HandleSuccess \/ HandleFailure
  <2>1. CanHandleOutcome /\ result' = result
    BY <1>1 DEF HandleSuccess, HandleFailure
  <2>2. BatchSettled'
    BY <2>1 DEF CanHandleOutcome, BatchSettled
  <2>3. PreserveCancellation => \A n \in Nodes : result'[n] # "cancelled"
    BY <2>1, NothingCancelled DEF CanHandleOutcome
  <2> QED BY <2>2, <2>3 DEF HandlingQuiet
<1>2. CASE UNCHANGED <<work, failQueue, result>>
  BY <1>2 DEF ContractInv, HandlingQuiet, HandlingDone, BatchSettled
<1>3. CASE StartBatch
  <2>1. HandlingDone'
    BY <1>3 DEF StartBatch, AtLoopHead, HandlingDone
  <2> QED BY <2>1 DEF HandlingQuiet
<1>4. CASE Settle
  <2>1. ~BatchSettled /\ UNCHANGED <<work, failQueue>>
    BY <1>4 DEF Settle, SettleOk, SettleRejected, BatchSettled
  <2>2. HandlingDone'
    BY <2>1 DEF ContractInv, HandlingQuiet, HandlingDone
  <2> QED BY <2>2 DEF HandlingQuiet
<1>5. CASE Propagate
  <2>1. ~HandlingDone /\ result' = result
    BY <1>5, Zenon DEF Propagate, PropagateFailure, ProcessChild, HandleSkip, SkipCallbackFails,
       MarkInactive, CancelChild, batchVars, Calls, HandlingDone
  <2> QED BY <2>1 DEF ContractInv, HandlingQuiet, BatchSettled
<1>6. CASE RethrowCancellation \/ ThrowDeadlock \/ Return
  BY <1>2, <1>6 DEF RethrowCancellation, ThrowDeadlock, Return
<1> QED BY <1>1, <1>3, <1>4, <1>5, <1>6 DEF Next, Schedule

LEMMA CancellationNotMaskedNext ==
  ASSUME Types, ContractInv, CancellationNotMasked, Next
  PROVE  CancellationNotMasked'
<1> SUFFICES ASSUME PreserveCancellation, NEW n \in Nodes, result'[n] = "cancelled"
             PROVE  status' \in {"running", "cancelled"} /\ IsSettled(n)'
  BY DEF CancellationNotMasked, IsSettled
<1>1. result[n] = "cancelled" => status \in {"running", "cancelled"} /\ IsSettled(n)
  BY DEF CancellationNotMasked, IsSettled
<1>2. CASE StartBatch
  <2>1. result[n] = "cancelled" /\ UNCHANGED <<status, settled>>
    BY <1>2 DEF StartBatch, Types
  <2> QED BY <1>1, <2>1 DEF IsSettled
<1>3. CASE RethrowCancellation
  BY <1>1, <1>3 DEF RethrowCancellation, IsSettled
<1>4. CASE HandleSuccess \/ HandleFailure
  <2>1. CanHandleOutcome /\ result' = result
    BY <1>4 DEF HandleSuccess, HandleFailure
  <2> QED BY <2>1, NothingCancelled DEF CanHandleOutcome
<1>5. CASE ThrowDeadlock \/ Return
  <2>1. result' = result /\ settled = <<>>
    BY <1>5 DEF ThrowDeadlock, Return, AtLoopHead
  <2> QED BY <1>1, <2>1 DEF IsSettled
<1>6. CASE Settle
  <2>1. PICK m \in Nodes : SettleOk(m) \/ SettleRejected(m)
    BY <1>6 DEF Settle
  <2>2. /\ settled' = Append(settled, m) /\ status' = "running"
        /\ \A k \in Nodes : k # m => result'[k] = result[k]
    BY <2>1 DEF SettleOk, SettleRejected, Types
  <2>3. settled \in Seq(Nodes)
    BY DEF Types
  <2>4. \A i \in DOMAIN settled : i \in DOMAIN settled' /\ settled'[i] = settled[i]
    BY <2>2, <2>3
  <2>5. Len(settled) + 1 \in DOMAIN settled' /\ settled'[Len(settled) + 1] = m
    BY <2>2, <2>3
  <2> QED BY <1>1, <2>2, <2>4, <2>5 DEF IsSettled
<1>7. CASE Propagate
  <2>1. ~HandlingDone /\ result' = result
    BY <1>7, Zenon DEF Propagate, PropagateFailure, ProcessChild, HandleSkip, SkipCallbackFails,
       MarkInactive, CancelChild, batchVars, Calls, HandlingDone
  <2> QED BY <2>1 DEF ContractInv, HandlingQuiet
<1> QED BY <1>2, <1>3, <1>4, <1>5, <1>6, <1>7 DEF Next, Schedule

-------------------------------------------------------------------------------
(* CausesTrue: contexts are queued with a cause that happened.             *)
TrueCauses(n) == {x \in Contexts : CauseTrue(n, x)}

LEMMA CauseTrueForever ==
  ASSUME Types, PendingFresh, Next, NEW n \in Nodes, NEW x \in Contexts, CauseTrue(n, x)
  PROVE  CauseTrue(n, x)'
<1>1. FailParents(n)' = FailParents(n) /\ FailParents(n) \subseteq Nodes
  BY GraphForever, EdgeTypes
<1>2. CASE FailParents(n) # {}
  BY <1>1, <1>2, Monotone DEF CauseTrue
<1>3. CASE FailParents(n) = {}
  <2>1. x.triggeredBy \in Nodes \union {NoNode}
    BY DEF Contexts
  <2> QED BY <1>1, <1>3, <2>1, Monotone DEF CauseTrue
<1> QED BY <1>2, <1>3

LEMMA CausesTrueSeq ==
  Types => (CausesTrue <=>
    \A n \in Nodes : /\ ready[n] \in Seq(TrueCauses(n))
                     /\ result[n] # "none" => context[n] \in TrueCauses(n))
<1> SUFFICES ASSUME Types
             PROVE  CausesTrue <=>
                      \A n \in Nodes : /\ ready[n] \in Seq(TrueCauses(n))
                                       /\ result[n] # "none" => context[n] \in TrueCauses(n)
  OBVIOUS
<1>1. \A n \in Nodes : ready[n] \in Seq(Contexts) /\ context[n] \in Contexts
  BY DEF Types
<1>2. ASSUME NEW n \in Nodes
      PROVE  (ready[n] \in Seq(TrueCauses(n))) <=> \A i \in DOMAIN ready[n] : CauseTrue(n, ready[n][i])
  BY <1>1 DEF TrueCauses
<1> QED BY <1>1, <1>2 DEF CausesTrue, TrueCauses

LEMMA AppendCause ==
  ASSUME NEW S, NEW s \in Seq(S), NEW x \in S
  PROVE  Append(s, x) \in Seq(S)
OBVIOUS

(* The context that a met join is queued with.                             *)
LEMMA ProcessChildCauses ==
  ASSUME Types, StartInv, ContractInv,
         NEW c \in Nodes, NEW type \in {"fulfilled", "skipped"}, ProcessChild(c, type)
  PROVE  \A n \in Nodes : ready'[n] \in Seq(TrueCauses(n))
<1>1. PICK parent : parent = Top.from
  OBVIOUS
<1>2. Calls(type, c)
  BY DEF ProcessChild
<1>3. Top \in Frame /\ FrameSound(Top) /\ Top.call = type /\ c \in Top.kids
  BY <1>2 DEF Calls, Top, Types, StartInv, FramesSound
<1>4. parent \in Nodes /\ (type = "fulfilled" => Delivered(parent, c))
  BY <1>1, <1>3 DEF Frame, FrameSound
<1>5. \A n \in Nodes : ready[n] \in Seq(TrueCauses(n))
  BY CausesTrueSeq DEF ContractInv
<1>6. ready' = ready \/ (type = "fulfilled" /\ ready' = QueueIfErrorState(c, parent))
  BY <1>1, Zenon DEF ProcessChild, Triggers
<1> DEFINE by == nodeStates[c].errorTriggeredBy
           i1 == [triggeredBy |-> by, failure |-> by]
           i2 == [triggeredBy |-> IF graph.join[c] = "all" THEN NoNode ELSE parent,
                  failure     |-> NoNode]
<1>7. CASE type = "fulfilled" /\ FailParents(c) # {} /\ by # NoNode
             /\ ready' = [ready EXCEPT ![c] = Append(@, i1)]
  <2>1. by \in FailParents(c) /\ HasFailed(by)
    BY <1>7 DEF StartInv, ErrorTrue
  <2>2. i1 \in TrueCauses(c)
    BY <1>7, <2>1, EdgeTypes DEF TrueCauses, CauseTrue, Contexts
  <2> HIDE DEF i1
  <2>3. Append(ready[c], i1) \in Seq(TrueCauses(c))
    BY <1>5, <2>2, AppendCause
  <2> QED BY <1>5, <1>7, <2>3 DEF Types
<1>8. CASE type = "fulfilled" /\ FailParents(c) = {}
             /\ ready' = [ready EXCEPT ![c] = Append(@, i2)]
  <2>1. i2 \in TrueCauses(c)
    BY <1>4, <1>8 DEF TrueCauses, CauseTrue, Contexts
  <2> HIDE DEF i2
  <2>2. Append(ready[c], i2) \in Seq(TrueCauses(c))
    BY <1>5, <2>1, AppendCause
  <2> QED BY <1>5, <1>8, <2>2 DEF Types
<1>9. CASE ready' = ready
  BY <1>5, <1>9
<1> QED BY <1>6, <1>7, <1>8, <1>9, Zenon DEF QueueIfErrorState

LEMMA PropagateFailureCauses ==
  ASSUME Types, StartInv, ContractInv, PropagateFailure
  PROVE  \A n \in Nodes : ready'[n] \in Seq(TrueCauses(n))
<1>1. failQueue # <<>>
  BY DEF PropagateFailure
<1>2. PICK q \in Nodes : q = Head(failQueue) /\ HasFailed(q)
  BY <1>1 DEF Types, StartInv, QueuesSound
<1> DEFINE item == [triggeredBy |-> q, failure |-> q]
<1>3. \A n \in Nodes : \/ ready'[n] = ready[n]
                       \/ ready'[n] = Append(ready[n], item) /\ n \in FailChildren(q)
  BY <1>2 DEF PropagateFailure
<1>4. ASSUME NEW n \in Nodes, n \in FailChildren(q)
      PROVE  item \in TrueCauses(n)
  <2>1. q \in FailParents(n)
    BY <1>4 DEF FailParents, FailChildren
  <2> QED BY <1>2, <2>1 DEF TrueCauses, CauseTrue, Contexts
<1>5. \A n \in Nodes : ready[n] \in Seq(TrueCauses(n))
  BY CausesTrueSeq DEF ContractInv
<1> HIDE DEF item
<1>6. \A n \in Nodes : n \in FailChildren(q) => Append(ready[n], item) \in Seq(TrueCauses(n))
  BY <1>4, <1>5, AppendCause
<1> QED BY <1>3, <1>5, <1>6

LEMMA CausesTrueNext ==
  ASSUME Types, Types', StartInv, ContractInv, Next
  PROVE  CausesTrue'
<1>1. \A n \in Nodes : /\ ready[n] \in Seq(TrueCauses(n))
                       /\ result[n] # "none" => context[n] \in TrueCauses(n)
  BY CausesTrueSeq DEF ContractInv
<1>2. \A n \in Nodes : TrueCauses(n) \subseteq TrueCauses(n)'
  BY CauseTrueForever DEF TrueCauses, StartInv
<1>3. ASSUME \A n \in Nodes : ready'[n] \in Seq(TrueCauses(n)),
             \A n \in Nodes : result'[n] # "none" => context'[n] \in TrueCauses(n)
      PROVE  CausesTrue'
  <2>1. (Types => (CausesTrue <=>
           \A n \in Nodes : /\ ready[n] \in Seq(TrueCauses(n))
                            /\ result[n] # "none" => context[n] \in TrueCauses(n)))'
    BY CausesTrueSeq, PTL
  <2>2. \A n \in Nodes : ready'[n] \in Seq(TrueCauses(n)')
    BY <1>2, <1>3
  <2> QED BY <1>2, <1>3, <2>1, <2>2
<1>4. CASE StartBatch
  <2>1. \A n \in Nodes : ready'[n] = <<>>
    BY <1>4 DEF StartBatch
  <2>2. ASSUME NEW n \in Nodes, result'[n] # "none"
        PROVE  context'[n] \in TrueCauses(n)
    <3>1. \/ context'[n] = context[n] /\ result[n] # "none"
          \/ context'[n] = Head(ready[n]) /\ ready[n] # <<>>
      BY <1>4, <2>2 DEF StartBatch, Types
    <3>2. ready[n] # <<>> => Head(ready[n]) \in TrueCauses(n)
      BY <1>1
    <3> QED BY <1>1, <3>1, <3>2
  <2>3. \A n \in Nodes : ready'[n] \in Seq(TrueCauses(n))
    <3>1. \A S : <<>> \in Seq(S)
      OBVIOUS
    <3> QED BY <2>1, <3>1
  <2> QED BY <1>3, <2>2, <2>3
<1>5. ASSUME ready' = ready, context' = context,
             \A n \in Nodes : result'[n] # "none" => result[n] # "none"
      PROVE  CausesTrue'
  BY <1>1, <1>3, <1>5
<1>6. CASE RethrowCancellation \/ HandleSuccess \/ HandleFailure \/ ThrowDeadlock \/ Return
  BY <1>5, <1>6 DEF RethrowCancellation, HandleSuccess, HandleFailure, ThrowDeadlock, Return
<1>7. CASE Settle
  <2>1. ready' = ready /\ context' = context
    BY <1>7 DEF Settle, SettleOk, SettleRejected
  <2>2. \A n \in Nodes : result'[n] # "none" => result[n] # "none"
    BY <1>7 DEF Settle, SettleOk, SettleRejected, Types
  <2> QED BY <1>5, <2>1, <2>2
<1>8. CASE Propagate
  <2>1. UNCHANGED <<result, context>>
    BY <1>8, Zenon DEF Propagate, PropagateFailure, ProcessChild, HandleSkip, SkipCallbackFails,
       MarkInactive, CancelChild, batchVars
  <2>2. ASSUME \A n \in Nodes : ready'[n] \in Seq(TrueCauses(n))
        PROVE  CausesTrue'
    BY <1>1, <1>3, <2>1, <2>2
  <2>3. ASSUME NEW c \in Nodes,
               HandleSkip(c) \/ SkipCallbackFails(c) \/ MarkInactive(c) \/ CancelChild(c)
        PROVE  CausesTrue'
    <3>1. ready' = ready
      BY <2>3, Zenon DEF HandleSkip, SkipCallbackFails, MarkInactive, CancelChild
    <3> QED BY <1>1, <2>2, <3>1
  <2> QED BY <1>8, <2>2, <2>3, ProcessChildCauses, PropagateFailureCauses DEF Propagate
<1> QED BY <1>4, <1>6, <1>7, <1>8 DEF Next, Schedule

LEMMA PortsChosenNext ==
  ASSUME Types, StartInv, ContractInv, Next
  PROVE  PortsChosen'
<1>1. CASE Settle
  <2>1. PICK m \in Nodes : SettleOk(m) \/ SettleRejected(m)
    BY <1>1 DEF Settle
  <2>2. \A n \in Nodes : n # m => result'[n] = result[n] /\ active'[n] = active[n]
    BY <2>1 DEF SettleOk, SettleRejected, Types
  <2>3. \/ result'[m] = "ok"
        \/ active'[m] = active[m] /\ result[m] # "ok"
    BY <2>1 DEF SettleOk, SettleRejected, Types
  <2> QED BY <2>2, <2>3 DEF ContractInv, PortsChosen
<1>2. CASE StartBatch
  BY <1>2 DEF StartBatch, StartInv, PendingFresh, ContractInv, PortsChosen, Types
<1>3. CASE UNCHANGED <<result, active>>
  BY <1>3 DEF ContractInv, PortsChosen
<1>4. CASE RethrowCancellation \/ HandleSuccess \/ HandleFailure \/ ThrowDeadlock \/ Return
  BY <1>3, <1>4 DEF RethrowCancellation, HandleSuccess, HandleFailure, ThrowDeadlock, Return
<1>5. CASE Propagate
  <2>1. UNCHANGED <<result, active>>
    BY <1>5, Zenon DEF Propagate, PropagateFailure, ProcessChild, HandleSkip, SkipCallbackFails,
       MarkInactive, CancelChild, batchVars
  <2> QED BY <1>3, <2>1
<1> QED BY <1>1, <1>2, <1>4, <1>5 DEF Next, Schedule

(* All that the rest of the contract rests on.                             *)
SchedulerInv == Types /\ StartInv /\ ContractInv /\ CancellationNotMasked

LEMMA ContractInvUnchanged ==
  ASSUME Types, ContractInv, CancellationNotMasked, UNCHANGED vars
  PROVE  ContractInv' /\ CancellationNotMasked'
<1>1. UNCHANGED <<graph, pending, nodeStates, result, active>>
  BY DEF vars
<1>2. /\ \A p : /\ HasEnded(p)' <=> HasEnded(p)
                /\ HasFailed(p)' <=> HasFailed(p)
                /\ Blameless(p)' <=> Blameless(p)
                /\ PathDead(p)' <=> PathDead(p)
                /\ NoErrorLeft(p)' <=> NoErrorLeft(p)
      /\ \A p, n : Delivered(p, n)' <=> Delivered(p, n)
      /\ \A p : /\ SuccParents(p)' = SuccParents(p)
                /\ FailParents(p)' = FailParents(p)
                /\ FailChildren(p)' = FailChildren(p)
  BY <1>1 DEF HasEnded, HasFailed, Blameless, Delivered, PathDead, NoErrorLeft, SuccParents,
     FailParents, FailChildren
<1>3. ParentsTrue' /\ InactiveTrue'
  BY <1>1, <1>2 DEF ContractInv, ParentsTrue, InactiveTrue
<1>4. FramesTrue'
  <2>1. ASSUME NEW f \in Frame, FrameTrue(f)
        PROVE  FrameTrue(f)'
    BY <1>2, <2>1 DEF FrameTrue, Frame
  <2>2. work \in Seq(Frame) /\ work' = work
    BY DEF Types, vars
  <2>3. ASSUME NEW i \in DOMAIN work
        PROVE  FrameTrue(work[i])'
    <3>1. PICK f \in Frame : f = work[i]
      BY <2>2
    <3>2. FrameTrue(f)'
      BY <2>1, <3>1 DEF ContractInv, FramesTrue
    <3> QED BY <2>2, <3>1, <3>2
  <2> QED BY <2>2, <2>3 DEF FramesTrue
<1>5. ErrorsTrue' /\ Accounted'
  BY <1>2 DEF ContractInv, ErrorsTrue, Accounted, vars
<1>6. CausesTrue'
  <2>1. \A n, x : CauseTrue(n, x)' <=> CauseTrue(n, x)
    BY <1>2 DEF CauseTrue
  <2> QED BY <2>1 DEF ContractInv, CausesTrue, vars
<1>7. HandlingQuiet' /\ PortsChosen' /\ CancellationNotMasked'
  BY DEF ContractInv, HandlingQuiet, HandlingDone, BatchSettled, PortsChosen,
     CancellationNotMasked, vars
<1> QED BY <1>3, <1>4, <1>5, <1>6, <1>7 DEF ContractInv

LEMMA SchedulerInvNext == SchedulerInv /\ [Next]_vars => SchedulerInv'
<1> SUFFICES ASSUME SchedulerInv, [Next]_vars PROVE SchedulerInv'
  OBVIOUS
<1>1. Types' /\ StartInv'
  BY StartInvNext DEF SchedulerInv
<1>2. CASE Next
  BY <1>1, <1>2, ParentsTrueNext, InactiveTrueNext, FramesTrueNext, ErrorsTrueNext, AccountedNext,
     HandlingQuietNext, CausesTrueNext, PortsChosenNext, CancellationNotMaskedNext
     DEF SchedulerInv, ContractInv
<1>3. CASE UNCHANGED vars
  BY <1>1, <1>3, ContractInvUnchanged DEF SchedulerInv
<1> QED BY <1>2, <1>3

LEMMA InitSchedulerInv == Init => SchedulerInv
BY InitTypes, InitStartInv, InitContractInv DEF SchedulerInv

LEMMA SchedulerInvCorrect == Spec => []SchedulerInv
BY InitSchedulerInv, SchedulerInvNext, PTL DEF Spec

(* The words of the invariant and the words of the contract.               *)
LEMMA SameWords ==
  Types => /\ \A p \in Nodes : HasFailed(p) <=> Contract!Failed(p)
           /\ \A p \in Nodes : HasEnded(p) <=> Contract!Ended(p)
           /\ \A p, n \in Nodes : Delivered(p, n) <=> Contract!Delivers(p, n)
           /\ \A n : /\ Contract!SuccParents(n) = SuccParents(n)
                     /\ Contract!SuccChildren(n) = SuccChildren(n)
                     /\ Contract!FailParents(n) = FailParents(n)
                     /\ Contract!FailChildren(n) = FailChildren(n)
<1> SUFFICES ASSUME Types
             PROVE  /\ \A p \in Nodes : HasFailed(p) <=> Contract!Failed(p)
                    /\ \A p \in Nodes : HasEnded(p) <=> Contract!Ended(p)
                    /\ \A p, n \in Nodes : Delivered(p, n) <=> Contract!Delivers(p, n)
                    /\ \A n : /\ Contract!SuccParents(n) = SuccParents(n)
                              /\ Contract!SuccChildren(n) = SuccChildren(n)
                              /\ Contract!FailParents(n) = FailParents(n)
                              /\ Contract!FailChildren(n) = FailChildren(n)
  OBVIOUS
<1>1. \A p \in Nodes : result[p] \in {"none", "running", "ok", "err", "cancelled"}
  BY DEF Types
<1>2. \A p \in Nodes : HasFailed(p) <=> Contract!Failed(p)
  BY <1>1 DEF HasFailed, Contract!Failed, Phase
<1>3. \A p \in Nodes : HasEnded(p) <=> Contract!Ended(p)
  BY <1>1 DEF HasEnded, Contract!Ended, Phase
<1>4. \A p, n \in Nodes : Delivered(p, n) <=> Contract!Delivers(p, n)
  BY DEF Delivered, Contract!Delivers, Phase
<1>5. \A n : /\ Contract!SuccParents(n) = SuccParents(n)
             /\ Contract!SuccChildren(n) = SuccChildren(n)
             /\ Contract!FailParents(n) = FailParents(n)
             /\ Contract!FailChildren(n) = FailChildren(n)
  BY DEF SuccParents, SuccChildren, FailParents, FailChildren, Contract!SuccParents,
     Contract!SuccChildren, Contract!FailParents, Contract!FailChildren
<1> QED BY <1>2, <1>3, <1>4, <1>5

(* run() is told a cause that really happened.                             *)
THEOREM ContextNamesItsCauseCorrect == Spec => []ContextNamesItsCause
<1>1. SchedulerInv => ContextNamesItsCause
  <2> SUFFICES ASSUME SchedulerInv, NEW n \in Nodes, result[n] # "none"
               PROVE  IF FailParents(n) # {}
                        THEN /\ context[n].failure \in FailParents(n)
                             /\ Contract!Failed(context[n].failure)
                        ELSE /\ context[n].failure = NoNode
                             /\ context[n].triggeredBy # NoNode
                                  => Contract!Delivers(context[n].triggeredBy, n)
    BY DEF ContextNamesItsCause
  <2>1. CauseTrue(n, context[n])
    BY DEF SchedulerInv, ContractInv, CausesTrue
  <2>2. context[n].triggeredBy \in Nodes \union {NoNode}
    BY DEF SchedulerInv, Types, Contexts
  <2> QED BY <2>1, <2>2, SameWords, EdgeTypes DEF SchedulerInv, CauseTrue
<1> QED BY <1>1, SchedulerInvCorrect, PTL

(* No failure is forgotten between two outcomes.                           *)
THEOREM FailuresAccountedForCorrect == Spec => []FailuresAccountedFor
<1>1. SchedulerInv => FailuresAccountedFor
  BY SameWords DEF SchedulerInv, ContractInv, Accounted, FailuresAccountedFor
<1> QED BY <1>1, SchedulerInvCorrect, PTL

(* A preserved cancellation is never handled away.                         *)
THEOREM CancellationNotMaskedCorrect == Spec => []CancellationNotMasked
<1>1. SchedulerInv => CancellationNotMasked
  BY DEF SchedulerInv
<1> QED BY <1>1, SchedulerInvCorrect, PTL

-------------------------------------------------------------------------------
(***************************************************************************)
(* The scheduler implements JoinContract, step by step.                    *)
(***************************************************************************)
LEMMA SameSkips ==
  Types => \A n \in Nodes : PathDead(n) \/ NoErrorLeft(n) => Contract!MaySkip(n)
<1> SUFFICES ASSUME Types, NEW n \in Nodes, PathDead(n) \/ NoErrorLeft(n)
             PROVE  Contract!MaySkip(n)
  OBVIOUS
<1>1. /\ \A p \in Nodes : /\ HasFailed(p) <=> Contract!Failed(p)
                          /\ HasEnded(p) <=> Contract!Ended(p)
                          /\ Delivered(p, n) <=> Contract!Delivers(p, n)
      /\ Contract!SuccParents(n) = SuccParents(n) /\ SuccParents(n) \subseteq Nodes
      /\ Contract!FailParents(n) = FailParents(n) /\ FailParents(n) \subseteq Nodes
  BY SameWords, EdgeTypes
<1>2. \A p \in Nodes : Blameless(p) <=> (Contract!Failed(p) => Contract!Handled(p))
  BY <1>1, SameWords DEF Blameless, Contract!Handled
<1>3. CASE PathDead(n)
  BY <1>1, <1>2, <1>3 DEF PathDead, Contract!DeadPath, Contract!MaySkip
<1>4. CASE NoErrorLeft(n)
  BY <1>1, <1>4 DEF NoErrorLeft, Contract!NothingToHandle, Contract!MaySkip
<1> QED BY <1>3, <1>4

(* What the phase of an action is, and what it turns into.                 *)
LEMMA PendingWaits ==
  ASSUME Types, StartInv, NEW n \in pending
  PROVE  n \in Nodes /\ Phase[n] = "waiting"
BY DEF Types, StartInv, PendingFresh, Phase

LEMMA PhaseKept ==
  ASSUME NEW n \in Nodes, result'[n] = result[n], n \in pending' <=> n \in pending,
         (nodeStates[n].skipped)' <=> nodeStates[n].skipped
  PROVE  Phase'[n] = Phase[n]
BY DEF Phase

LEMMA PhaseStutter ==
  ASSUME UNCHANGED <<graph, pending, result, active, status>>,
         \A n \in Nodes : nodeStates'[n].skipped = nodeStates[n].skipped
  PROVE  UNCHANGED Contract!vars
<1>1. Phase' = Phase
  BY DEF Phase
<1>2. Outcome' = Outcome
  BY DEF Outcome
<1> QED BY <1>1, <1>2 DEF Contract!vars

LEMMA StartBatchRefines ==
  ASSUME Types, StartInv, StartInv', StartBatch
  PROVE  Contract!Start
<1> DEFINE S == {n \in pending : ready[n] # <<>>}
<1>1. /\ pending' = pending \ S
      /\ \A n \in Nodes : result'[n] = IF n \in S THEN "running" ELSE result[n]
      /\ UNCHANGED <<graph, status, active, nodeStates>> /\ status = "running"
  BY DEF StartBatch, AtLoopHead, Types
<1>2. \A n \in S : n \in Nodes /\ Phase[n] = "waiting"
  BY PendingWaits
<1>3. ASSUME NEW n \in S
      PROVE  Contract!MayRun(n)
  <2>1. n \in Nodes /\ JoinMet(n) /\ ErrorMet(n)
    BY <1>2 DEF StartInv, ReadySound
  <2> QED BY <2>1, SameWords, EdgeTypes DEF JoinMet, ErrorMet, Contract!MayRun
<1> HIDE DEF S
<1>4. ASSUME NEW n \in Nodes
      PROVE  Phase'[n] = IF n \in S THEN "running" ELSE Phase[n]
  BY <1>1 DEF Phase
<1>5. Phase' = [n \in Nodes |-> IF n \in S THEN "running" ELSE Phase[n]]
  <2>1. Phase' = [n \in Nodes |-> Phase'[n]]
    BY DEF Phase
  <2> QED BY <1>4, <2>1
<1>6. Outcome = "running" /\ Outcome' = Outcome
  BY <1>1 DEF Outcome
<1>7. S \in SUBSET {n \in Nodes : Phase[n] = "waiting" /\ Contract!MayRun(n)}
  BY <1>2, <1>3
<1> QED BY <1>1, <1>5, <1>6, <1>7 DEF Contract!Start

LEMMA SettleRefines ==
  ASSUME Types, ContractInv, NEW n \in Nodes, SettleOk(n) \/ SettleRejected(n)
  PROVE  Contract!Finish(n)
<1>1. /\ status = "running" /\ result[n] = "running"
      /\ UNCHANGED <<graph, status, pending, nodeStates>>
  BY DEF SettleOk, SettleRejected
<1>2. Outcome = "running" /\ Outcome' = Outcome
  BY <1>1 DEF Outcome
<1>3. Phase[n] = "running"
  BY <1>1 DEF Phase
<1>4. PICK r \in {"ok", "err", "cancelled"} :
         result' = [result EXCEPT ![n] = r] /\ (r = "ok" <=> SettleOk(n))
  BY <1>1 DEF SettleOk, SettleRejected, Types
<1>5. Phase' = [Phase EXCEPT ![n] = r]
  BY <1>1, <1>4 DEF Phase, Types
<1>6. PICK kids \in SUBSET SuccChildren(n) :
         active' = [active EXCEPT ![n] = kids] /\ (kids # {} => r = "ok")
  <2>1. CASE SettleOk(n)
    BY <1>4, <2>1 DEF SettleOk
  <2>2. CASE ~SettleOk(n)
    <3>1. active' = active /\ active[n] = {}
      BY <1>1, <2>2 DEF SettleRejected, ContractInv, PortsChosen
    <3>2. active' = [active EXCEPT ![n] = {}]
      BY <3>1 DEF Types
    <3> QED BY <3>2
  <2> QED BY <2>1, <2>2
<1>7. Phase'[n] = r /\ Contract!SuccChildren(n) = SuccChildren(n)
  BY <1>5, SameWords DEF Phase
<1> QED BY <1>1, <1>2, <1>3, <1>4, <1>5, <1>6, <1>7 DEF Contract!Finish

LEMMA SkipRefines ==
  ASSUME SchedulerInv, NEW c \in pending, HandleSkip(c) \/ SkipCallbackFails(c)
  PROVE  Contract!Skip(c)
<1>1. Calls("skip", c) /\ c \in Nodes /\ Types /\ StartInv /\ FramesTrue
  BY DEF HandleSkip, SkipCallbackFails, SchedulerInv, Types, ContractInv
<1>2. /\ pending' = pending \ {c} /\ UNCHANGED <<graph, result, active>>
      /\ nodeStates' = [nodeStates EXCEPT ![c] = [@ EXCEPT !.skipped = TRUE]]
      /\ status = "running" /\ status' \in {"running", "aborted"}
  BY <1>1 DEF HandleSkip, SkipCallbackFails, batchVars, Calls
<1>3. Outcome = "running" /\ Outcome' \in {"running", "aborted"}
  BY <1>2 DEF Outcome
<1>4. Phase[c] = "waiting"
  BY <1>1, PendingWaits
<1>5. Contract!MaySkip(c)
  <2>1. PathDead(c) \/ NoErrorLeft(c)
    BY <1>1, TopTrue DEF Calls, FrameTrue
  <2> QED BY <1>1, <2>1, SameSkips
<1>6. Phase' = [Phase EXCEPT ![c] = "skipped"]
  <2>1. result'[c] = "none" /\ c \notin pending' /\ nodeStates'[c].skipped
    BY <1>1, <1>2 DEF StartInv, PendingFresh, Types, NodeState
  <2>2. Phase'[c] = "skipped"
    BY <1>1, <2>1 DEF Phase
  <2>3. \A n \in Nodes : n # c => nodeStates'[n] = nodeStates[n]
    BY <1>2 DEF Types
  <2>4. \A n \in Nodes : n # c => Phase'[n] = Phase[n]
    BY <1>2, <2>3, PhaseKept
  <2>5. Phase' = [n \in Nodes |-> Phase'[n]] /\ Phase = [n \in Nodes |-> Phase[n]]
    BY DEF Phase
  <2> QED BY <2>2, <2>4, <2>5
<1> QED BY <1>2, <1>3, <1>4, <1>5, <1>6 DEF Contract!Skip

LEMMA CancelChildRefines ==
  ASSUME SchedulerInv, NEW c \in Nodes, CancelChild(c)
  PROVE  Contract!Drop(c) \/ UNCHANGED Contract!vars
<1>1. Types /\ StartInv /\ ContractInv /\ Calls("cancel", c)
  BY DEF CancelChild, SchedulerInv
<1>2. /\ UNCHANGED <<graph, result, active, status>> /\ status = "running"
      /\ \A n \in Nodes : nodeStates'[n].skipped = nodeStates[n].skipped
  BY <1>1, CancelChildEffect DEF CancelChild, batchVars, Calls
<1>3. CASE pending' = pending
  BY <1>2, <1>3, PhaseStutter
<1>4. CASE pending' # pending
  <2>1. PICK from \in Nodes : from = Top.from /\ HasFailed(from)
    BY <1>1, TopTrue DEF ContractInv, Calls, FrameTrue, Frame
  <2> DEFINE left == nodeStates[c].successParents \ {from}
  <2>2. /\ c \in pending /\ pending' = pending \ {c} /\ MustCancel(c, left)
        /\ from \in nodeStates[c].successParents /\ FailChildren(from) = {}
    BY <1>4, <2>1 DEF CancelChild, Remaining
  <2>3. from \in SuccParents(c)
    BY <1>1, <2>2 DEF StartInv, JoinProgress
  <2>4. ASSUME graph.join[c] = "any", NEW p \in SuccParents(c)
        PROVE  HasEnded(p) /\ ~Delivered(p, c)
    <3>1. left = {} /\ ~nodeStates[c].triggeredBySuccess
      BY <2>2, <2>4 DEF MustCancel
    <3>2. CASE p = from
      BY <2>1, <3>2, FailedEnded, DeliveredEnded
    <3>3. CASE p # from
      BY <1>1, <2>2, <2>4, <3>1, <3>3 DEF ContractInv, ParentsTrue
    <3> QED BY <3>2, <3>3
  <2> HIDE DEF left
  <2>5. Contract!MayDrop(c)
    BY <1>1, <2>1, <2>2, <2>3, <2>4, SameWords, EdgeTypes DEF Contract!MayDrop, Contract!Handled
  <2>6. Phase[c] = "waiting" /\ Outcome = "running" /\ Outcome' = Outcome
    BY <1>1, <1>2, <2>2, PendingWaits DEF Outcome
  <2>7. Phase' = [Phase EXCEPT ![c] = "dropped"]
    <3>1. result'[c] = "none" /\ c \notin pending' /\ ~nodeStates'[c].skipped
      BY <1>1, <1>2, <2>2 DEF StartInv, PendingFresh
    <3>2. Phase'[c] = "dropped"
      BY <3>1 DEF Phase
    <3>3. \A n \in Nodes : n # c => Phase'[n] = Phase[n]
      BY <1>2, <2>2, PhaseKept
    <3>4. Phase' = [n \in Nodes |-> Phase'[n]] /\ Phase = [n \in Nodes |-> Phase[n]]
      BY DEF Phase
    <3> QED BY <3>2, <3>3, <3>4
  <2> QED BY <1>2, <2>5, <2>6, <2>7 DEF Contract!Drop
<1> QED BY <1>3, <1>4

LEMMA ReturnRefines ==
  ASSUME SchedulerInv, Return
  PROVE  Contract!End
<1>1. /\ pending = {} /\ settled = <<>> /\ status = "running" /\ BatchSettled
      /\ UNCHANGED <<graph, pending, nodeStates, result, active>>
      /\ status' = IF failedErrors = {} THEN "completed" ELSE "failed"
  BY DEF Return, AtLoopHead
<1>2. Types /\ ContractInv
  BY DEF SchedulerInv
<1>3. Phase' = Phase /\ Outcome = "running" /\ Outcome' = status'
  BY <1>1 DEF Phase, Outcome
<1>4. \A n \in Nodes : HasEnded(n)
  BY <1>1, <1>2 DEF BatchSettled, HasEnded, Types
<1>5. \A n \in Nodes : Contract!Ended(n)
  BY <1>2, <1>4, SameWords
<1>6. \A n \in Nodes : Phase[n] # "running"
  BY <1>5 DEF Contract!Ended
<1>7. CASE failedErrors = {}
  <2>1. \A n \in Nodes : HasFailed(n) => \E h \in FailChildren(n) : result[h] = "ok"
    BY <1>1, <1>2, <1>7 DEF ContractInv, Accounted
  <2>2. \A h \in Nodes : result[h] = "ok" => Phase[h] = "ok"
    BY DEF Phase
  <2>3. \A n \in Nodes : Contract!Failed(n) => \E h \in Contract!FailChildren(n) : Phase[h] = "ok"
    BY <1>2, <2>1, <2>2, SameWords, EdgeTypes
  <2> QED BY <1>1, <1>3, <1>5, <1>6, <1>7, <2>3 DEF Contract!End
<1>8. CASE failedErrors # {}
  <2>1. \E n \in Nodes : HasFailed(n)
    BY <1>2, <1>8 DEF ContractInv, ErrorsTrue, Types
  <2>2. \E n \in Nodes : Contract!Failed(n)
    BY <1>2, <2>1, SameWords
  <2> QED BY <1>1, <1>3, <1>5, <1>6, <1>8, <2>2 DEF Contract!End
<1> QED BY <1>7, <1>8

LEMMA RethrowRefines ==
  ASSUME Types, RethrowCancellation
  PROVE  Contract!End
<1>1. /\ status = "running" /\ status' = "cancelled" /\ BatchSettled /\ PreserveCancellation
      /\ UNCHANGED <<graph, pending, nodeStates, result, active>>
  BY DEF RethrowCancellation
<1>2. PICK n \in Nodes : result[n] = "cancelled"
  BY DEF RethrowCancellation, CancelledInBatch, Types
<1>3. Phase' = Phase /\ Outcome = "running" /\ Outcome' = "cancelled"
  BY <1>1 DEF Phase, Outcome
<1>4. Phase[n] = "cancelled" /\ \A m \in Nodes : Phase[m] # "running"
  BY <1>1, <1>2 DEF Phase, BatchSettled
<1> QED BY <1>1, <1>2, <1>3, <1>4 DEF Contract!End

LEMMA StepRefines ==
  ASSUME SchedulerInv, SchedulerInv', [Next]_vars
  PROVE  [Contract!Next]_(Contract!vars)
<1>1. Types /\ StartInv /\ StartInv' /\ ContractInv
  BY DEF SchedulerInv
<1>2. CASE UNCHANGED vars
  BY <1>2, PhaseStutter DEF vars
<1>3. CASE Schedule
  <2>1. CASE StartBatch
    BY <1>1, <2>1, StartBatchRefines DEF Contract!Next
  <2>2. CASE Return \/ RethrowCancellation
    BY <1>1, <2>2, ReturnRefines, RethrowRefines DEF Contract!Next
  <2>3. CASE HandleSuccess \/ HandleFailure
    <3>1. UNCHANGED <<graph, pending, result, active, status, nodeStates>>
      BY <2>3 DEF HandleSuccess, HandleFailure
    <3> QED BY <3>1, PhaseStutter
  <2>4. CASE ThrowDeadlock
    <3>1. /\ UNCHANGED <<graph, pending, result, active, nodeStates>>
          /\ status = "running" /\ status' = "deadlock"
      BY <2>4 DEF ThrowDeadlock, AtLoopHead
    <3>2. Phase' = Phase /\ Outcome' = Outcome
      BY <3>1 DEF Phase, Outcome
    <3> QED BY <3>1, <3>2 DEF Contract!vars
  <2> QED BY <1>3, <2>1, <2>2, <2>3, <2>4 DEF Schedule
<1>4. CASE Settle
  BY <1>1, <1>4, SettleRefines DEF Settle, Contract!Next
<1>5. CASE PropagateFailure
  <2>1. UNCHANGED <<graph, pending, result, active, status>>
    BY <1>5 DEF PropagateFailure, batchVars
  <2> QED BY <1>1, <1>5, <2>1, PropagateFailureEffect, PhaseStutter
<1>6. ASSUME NEW c \in Nodes, NEW type \in {"fulfilled", "skipped"}, ProcessChild(c, type)
      PROVE  UNCHANGED Contract!vars
  <2>1. UNCHANGED <<graph, pending, result, active, status>>
    BY <1>6 DEF ProcessChild, batchVars
  <2>2. \A n \in Nodes : nodeStates'[n].skipped = nodeStates[n].skipped
    BY <1>1, <1>6, ProcessChildEffect
  <2> QED BY <2>1, <2>2, PhaseStutter
<1>7. ASSUME NEW c \in Nodes, HandleSkip(c) \/ SkipCallbackFails(c)
      PROVE  [Contract!Next]_(Contract!vars)
  <2>1. CASE c \in pending
    BY <1>7, <2>1, SkipRefines DEF Contract!Next
  <2>2. CASE c \notin pending
    <3>1. UNCHANGED <<graph, pending, result, active, status, nodeStates>>
      BY <1>7, <2>2 DEF HandleSkip, SkipCallbackFails, batchVars
    <3> QED BY <3>1, PhaseStutter
  <2> QED BY <2>1, <2>2
<1>8. ASSUME NEW c \in Nodes, MarkInactive(c)
      PROVE  UNCHANGED Contract!vars
  <2>1. UNCHANGED <<graph, pending, result, active, status>>
    BY <1>8 DEF MarkInactive, batchVars
  <2> QED BY <1>1, <1>8, <2>1, MarkInactiveEffect, PhaseStutter
<1>9. ASSUME NEW c \in Nodes, CancelChild(c)
      PROVE  [Contract!Next]_(Contract!vars)
  BY <1>9, CancelChildRefines DEF Contract!Next
<1> QED BY <1>2, <1>3, <1>4, <1>5, <1>6, <1>7, <1>8, <1>9 DEF Next, Propagate

LEMMA InitRefines == Init => Contract!Init
<1> SUFFICES ASSUME Init PROVE Contract!Init
  OBVIOUS
<1>1. Phase = [n \in Nodes |-> "waiting"]
  BY DEF Init, Phase
<1>2. active = [n \in Nodes |-> {}] /\ Outcome = "running"
  BY DEF Init, Outcome
<1> QED BY <1>1, <1>2 DEF Contract!Init

(* Every behaviour of the scheduler is one that JoinContract allows.       *)
THEOREM JoinContractImplemented == Spec => ImplementsJoinContract
<1>1. SchedulerInv /\ SchedulerInv' /\ [Next]_vars => [Contract!Next]_(Contract!vars)
  BY StepRefines
<1> QED BY <1>1, SchedulerInvCorrect, InitRefines, PTL DEF Spec, ImplementsJoinContract, Contract!Spec
==============================================================================
