------------------------ MODULE WorkflowSchedulerProps ------------------------
(***************************************************************************)
(* The correctness properties of WorkflowScheduler.                        *)
(***************************************************************************)
EXTENDS WorkflowScheduler

Contexts == [triggeredBy : Nodes \union {NoNode}, failure : Nodes \union {NoNode}]

NodeState ==
  [successParents         : SUBSET Nodes,
   skippedParents         : SUBSET Nodes,
   inactiveFailureParents : SUBSET Nodes,
   triggeredBySuccess     : BOOLEAN,
   failureTriggered       : BOOLEAN,
   errorTriggeredBy       : Nodes \union {NoNode},
   skipped                : BOOLEAN]

Frame == [call : {"fulfilled", "skipped", "skip", "inactive", "cancel"},
          from : Nodes,
          kids : (SUBSET Nodes) \ {{}}]

(* The scheduler's declarations (lines 35-52 and 87-126).                  *)
Types ==
  /\ graph \in Graph
  /\ status \in {"running", "completed", "failed", "cancelled", "aborted", "deadlock"}
  /\ pending \subseteq Nodes
  /\ ready \in [Nodes -> Seq(Contexts)]
  /\ nodeStates \in [Nodes -> NodeState]
  /\ failedErrors \subseteq Nodes
  /\ handledFailureSources \in [Nodes -> SUBSET Nodes]
  /\ settled \in Seq(Nodes)
  /\ work \in Seq(Frame)
  /\ failQueue \in Seq(Nodes)
  /\ result \in [Nodes -> {"none", "running", "ok", "err", "cancelled"}]
  /\ active \in [Nodes -> SUBSET Nodes]
  /\ context \in [Nodes -> Contexts]

(* Every variable keeps its type, and the record of a child never has a    *)
(* parent both outstanding and skipped, whatever resolves the parent: an   *)
(* outcome, a skip or a cancellation (lines 343-346 and 604).              *)
TypeOK ==
  /\ Types
  /\ \A n \in Nodes : nodeStates[n].successParents \intersect nodeStates[n].skippedParents = {}

-------------------------------------------------------------------------------
(* What an action has come to, in the terms of JoinContract.               *)
Phase == [n \in Nodes |->
            IF result[n] # "none" THEN result[n]
            ELSE IF n \in pending THEN "waiting"
            ELSE IF nodeStates[n].skipped THEN "skipped"
            ELSE "dropped"]

(* The contract knows no deadlock: a scheduler that gives up with actions  *)
(* still waiting has simply not ended.  Terminates excludes it.               *)
Outcome == IF status = "deadlock" THEN "running" ELSE status

Contract == INSTANCE JoinContract WITH phase <- Phase, outcome <- Outcome

(* The scheduler runs, skips and cancels actions as JoinContract promises, *)
(* whatever the order in which the actions of a batch settle.              *)
ImplementsJoinContract == Contract!Spec

(* An action that was started had its join met, and, when it has error     *)
(* sources, one of them had failed (processChild,                          *)
(* queueReadyIfSatisfiedByFailureState and handleFailure push to the queue *)
(* from three places; a later failure, skip or duplicate item must not let *)
(* an action run whose inputs are missing).                                *)
StartSound == \A n \in Nodes : result[n] # "none" => Contract!MayRun(n)

(* run() is told a cause that really happened: a handler gets the failure  *)
(* of one of its own error sources, an any-join the name of a parent that  *)
(* delivered to it (context.triggeredBy and context.failure).              *)
ContextNamesItsCause ==
  \A n \in Nodes : result[n] # "none" =>
    LET c == context[n] IN
    IF FailParents(n) # {}
      THEN /\ c.failure \in FailParents(n)
           /\ Contract!Failed(c.failure)
      ELSE /\ c.failure = NoNode
           /\ c.triggeredBy # NoNode => Contract!Delivers(c.triggeredBy, n)

(* An any-join that is also an error handler.                              *)
MixedJoin(g) ==
  \E n \in Nodes : g.join[n] = "any" /\ \E e \in g.err : e[2] = n

(* Between two outcomes no failure is forgotten: an action that failed and *)
(* whose outcome was handled is still recorded, or an error handler of it  *)
(* has succeeded.                                                          *)
FailuresAccountedFor ==
  \A n \in Nodes :
    /\ Contract!Failed(n)
    /\ \A i \in DOMAIN settled : settled[i] # n
    => \/ n \in failedErrors
       \/ \E h \in FailChildren(n) : result[h] = "ok"

(* With preserveCancellation a cancelled action ends the workflow as       *)
(* cancelled: no handler can turn it into success, no outcome of its batch *)
(* is handled and nothing starts after it (lines 187-194).                 *)
CancellationNotMasked ==
  PreserveCancellation =>
    \A n \in Nodes : result[n] = "cancelled" =>
      /\ status \in {"running", "cancelled"}
      /\ \E i \in DOMAIN settled : settled[i] = n

(* The workflow ends, by returning or by throwing a real failure rather    *)
(* than a deadlock error, once every started action settles.  Definitions  *)
(* with an any-join that is also an error handler are excepted: see        *)
(* DeadlockOnlyWhileWaiting.                                               *)
Terminates ==
  ~MixedJoin(graph) => <>(status \in {"completed", "failed", "cancelled", "aborted"})

(* The claim of the comment at lines 130-134 (and of the test "allows      *)
(* join-any dependents to run when at least one parent succeeds"): when    *)
(* the queue is empty and actions are pending, something is being waited   *)
(* for, so no action that may run is left over by a deadlock error.        *)
DeadlockOnlyWhileWaiting ==
  status = "deadlock" => \A n \in pending : ~Contract!MayRun(n)

-------------------------------------------------------------------------------
(***************************************************************************)
(* The inductive invariant behind StartSound.                              *)
(***************************************************************************)
Delivered(p, n) == result[p] = "ok" /\ n \in active[p]

HasFailed(p) ==
  \/ result[p] \in {"err", "cancelled"}
  \/ result[p] = "none" /\ p \notin pending /\ ~nodeStates[p].skipped

JoinMet(n) ==
  \/ SuccParents(n) = {}
  \/ graph.join[n] = "all" /\ \A p \in SuccParents(n) : Delivered(p, n)
  \/ graph.join[n] = "any" /\ \E p \in SuccParents(n) : Delivered(p, n)

ErrorMet(n) == FailParents(n) = {} \/ \E p \in FailParents(n) : HasFailed(p)

(* All success parents of n are resolved and n must be skipped.            *)
JoinDead(n) ==
  /\ SuccParents(n) # {}
  /\ nodeStates[n].successParents = {}
  /\ IF graph.join[n] = "all" THEN nodeStates[n].skippedParents # {}
                              ELSE ~nodeStates[n].triggeredBySuccess

(* Pending actions have not run, been skipped or been cancelled.           *)
PendingFresh ==
  \A n \in pending : /\ result[n] = "none"
                     /\ ~nodeStates[n].skipped
                     /\ ~nodeStates[n].failureTriggered

(* What the scheduler believes of a pending action is true.                *)
JoinProgress ==
  \A n \in pending :
    /\ nodeStates[n].successParents \subseteq SuccParents(n)
    /\ graph.join[n] = "all" =>
         \A p \in SuccParents(n) \ nodeStates[n].successParents :
           p \in nodeStates[n].skippedParents \/ Delivered(p, n)
    /\ graph.join[n] = "any" /\ nodeStates[n].triggeredBySuccess => JoinMet(n)

ErrorTrue ==
  \A n \in Nodes : nodeStates[n].errorTriggeredBy # NoNode =>
    /\ nodeStates[n].errorTriggeredBy \in FailParents(n)
    /\ HasFailed(nodeStates[n].errorTriggeredBy)

ReadySound == \A n \in pending : ready[n] # <<>> => JoinMet(n) /\ ErrorMet(n)

(* A dead join is about to be skipped: handleSkip is the innermost call.   *)
DeadIsSkipped ==
  \A n \in pending : JoinDead(n) =>
    work # <<>> /\ Top.call = "skip" /\ n \in Top.kids

FrameSound(f) ==
  /\ f.call = "fulfilled" => \A c \in f.kids : Delivered(f.from, c)
  /\ f.call = "skip" => f.kids = {f.from}

FramesSound == \A i \in DOMAIN work : FrameSound(work[i])

QueuesSound ==
  /\ \A i \in DOMAIN settled : result[settled[i]] \in {"ok", "err", "cancelled"}
  /\ \A i \in DOMAIN failQueue : HasFailed(failQueue[i])

StartedMet == \A n \in Nodes : result[n] # "none" => JoinMet(n) /\ ErrorMet(n)

StartInv ==
  /\ PendingFresh
  /\ JoinProgress
  /\ ErrorTrue
  /\ ReadySound
  /\ DeadIsSkipped
  /\ FramesSound
  /\ QueuesSound
  /\ StartedMet

-------------------------------------------------------------------------------
(***************************************************************************)
(* What it takes besides, for the rest of the contract.                    *)
(***************************************************************************)
HasEnded(p) ==
  \/ result[p] \in {"ok", "err", "cancelled"}
  \/ result[p] = "none" /\ p \notin pending

(* A failure of p is not held against its children.                        *)
Blameless(p) == HasFailed(p) => FailChildren(p) # {}

(* The parents that n no longer waits for have ended, and what the record  *)
(* says they did is what they did.                                         *)
ParentsTrue ==
  \A n \in pending :
    /\ \A p \in SuccParents(n) \ nodeStates[n].successParents :
         /\ HasEnded(p)
         /\ graph.join[n] = "any" /\ Delivered(p, n) => nodeStates[n].triggeredBySuccess
    /\ \A p \in nodeStates[n].skippedParents :
         p \in SuccParents(n) /\ HasEnded(p) /\ ~Delivered(p, n) /\ Blameless(p)

InactiveTrue ==
  \A n \in Nodes : \A p \in nodeStates[n].inactiveFailureParents :
    p \in FailParents(n) /\ HasEnded(p) /\ ~HasFailed(p)

(* DeadPath and NothingToHandle of the contract.                           *)
PathDead(n) ==
  /\ SuccParents(n) # {}
  /\ \A p \in SuccParents(n) : HasEnded(p)
  /\ \/ /\ graph.join[n] = "all"
        /\ \E p \in SuccParents(n) : ~Delivered(p, n)
        /\ \A p \in SuccParents(n) : Blameless(p)
     \/ /\ graph.join[n] = "any"
        /\ \A p \in SuccParents(n) : ~Delivered(p, n)

NoErrorLeft(n) ==
  FailParents(n) # {} /\ \A p \in FailParents(n) : HasEnded(p) /\ ~HasFailed(p)

(* A loop tells the children what happened to the action it is about, and  *)
(* skips only what may be skipped.                                         *)
FrameTrue(f) ==
  CASE f.call = "fulfilled" -> HasEnded(f.from)
    [] f.call = "skipped"   -> /\ HasEnded(f.from) /\ Blameless(f.from)
                               /\ \A c \in f.kids : ~Delivered(f.from, c)
    [] f.call = "inactive"  -> /\ HasEnded(f.from) /\ ~HasFailed(f.from)
                               /\ f.kids \subseteq FailChildren(f.from)
    [] f.call = "cancel"    -> HasFailed(f.from)
    [] f.call = "skip"      -> \A c \in f.kids : PathDead(c) \/ NoErrorLeft(c)

FramesTrue == \A i \in DOMAIN work : FrameTrue(work[i])

(* A recorded error is one that happened, and a handler clears errors of   *)
(* its own sources.                                                        *)
ErrorsTrue ==
  /\ \A n \in failedErrors : HasFailed(n)
  /\ \A h \in Nodes : handledFailureSources[h] \subseteq FailParents(h)

Accounted ==
  \A n \in Nodes :
    HasFailed(n) /\ (\A i \in DOMAIN settled : settled[i] # n)
    => n \in failedErrors \/ \E h \in FailChildren(n) : result[h] = "ok"

(* Outcomes are handled when the whole batch has settled, and, if          *)
(* cancellation is preserved, only when none of it was cancelled.          *)
HandlingQuiet ==
  ~HandlingDone =>
    /\ BatchSettled
    /\ PreserveCancellation => \A n \in Nodes : result[n] # "cancelled"

CauseTrue(n, c) ==
  IF FailParents(n) # {}
    THEN c.failure \in FailParents(n) /\ HasFailed(c.failure)
    ELSE c.failure = NoNode /\ (c.triggeredBy # NoNode => Delivered(c.triggeredBy, n))

CausesTrue ==
  \A n \in Nodes :
    /\ \A i \in DOMAIN ready[n] : CauseTrue(n, ready[n][i])
    /\ result[n] # "none" => CauseTrue(n, context[n])

(* Only an action that succeeded selects children.                         *)
PortsChosen == \A n \in Nodes : result[n] # "ok" => active[n] = {}

ContractInv ==
  /\ ParentsTrue
  /\ InactiveTrue
  /\ FramesTrue
  /\ ErrorsTrue
  /\ Accounted
  /\ HandlingQuiet
  /\ CausesTrue
  /\ PortsChosen
==============================================================================
