----------------------------- MODULE JoinContract -----------------------------
(***************************************************************************)
(* What a workflow author is promised about when an action runs, is        *)
(* skipped or is cancelled: the meaning of join strategies and error edges *)
(* without queues, stacks or batches.  WorkflowScheduler implements it.    *)
(*                                                                         *)
(* An action delivers to a child when it succeeds with an active port      *)
(* towards it.  An action fails when run() rejects or when it is cancelled *)
(* because of an upstream failure.                                         *)
(***************************************************************************)
EXTENDS FiniteSets

CONSTANTS Nodes, PreserveCancellation

VARIABLES
  graph,   \* the definition being run: whatever it is, it never changes
  phase,   \* per action: waiting, running, ok, err, cancelled (run rejected by
           \* cancellation), skipped, dropped (cancelled before it could run)
  active,  \* per action, the children its active ports selected
  outcome  \* running, completed, failed, cancelled, or aborted by the skip callback

vars == <<graph, phase, active, outcome>>

SuccParents(n)  == {p \in Nodes : <<p, n>> \in graph.succ}
SuccChildren(n) == {c \in Nodes : <<n, c>> \in graph.succ}
FailParents(n)  == {p \in Nodes : <<p, n>> \in graph.err}
FailChildren(n) == {c \in Nodes : <<n, c>> \in graph.err}

Failed(n)    == phase[n] \in {"err", "cancelled", "dropped"}
Ended(n)     == phase[n] \notin {"waiting", "running"}
Handled(n)   == FailChildren(n) # {}
Delivers(p, n) == phase[p] = "ok" /\ n \in active[p]

(* An action may run: its join is met, and one of its error sources, if it *)
(* has any, has failed.                                                    *)
MayRun(n) ==
  /\ \/ SuccParents(n) = {}
     \/ graph.join[n] = "all" /\ \A p \in SuccParents(n) : Delivers(p, n)
     \/ graph.join[n] = "any" /\ \E p \in SuccParents(n) : Delivers(p, n)
  /\ FailParents(n) = {} \/ \E p \in FailParents(n) : Failed(p)

(* No parent will deliver what the join of n still misses, and no          *)
(* unhandled failure is to blame.                                          *)
DeadPath(n) ==
  /\ SuccParents(n) # {}
  /\ \A p \in SuccParents(n) : Ended(p)
  /\ \/ /\ graph.join[n] = "all"
        /\ \E p \in SuccParents(n) : ~Delivers(p, n)
        /\ \A p \in SuccParents(n) : Failed(p) => Handled(p)
     \/ /\ graph.join[n] = "any"
        /\ \A p \in SuccParents(n) : ~Delivers(p, n)

(* None of the error sources of n failed.                                  *)
NothingToHandle(n) ==
  /\ FailParents(n) # {}
  /\ \A p \in FailParents(n) : Ended(p) /\ ~Failed(p)

MaySkip(n) == DeadPath(n) \/ NothingToHandle(n)

(* An unhandled failure upstream leaves the join of n unmet for good.      *)
MayDrop(n) ==
  /\ \E p \in SuccParents(n) : Failed(p) /\ ~Handled(p)
  /\ graph.join[n] = "any" => \A p \in SuccParents(n) : Ended(p) /\ ~Delivers(p, n)

Init ==
  /\ phase = [n \in Nodes |-> "waiting"]
  /\ active = [n \in Nodes |-> {}]
  /\ outcome = "running"

Start ==
  \E S \in SUBSET {n \in Nodes : phase[n] = "waiting" /\ MayRun(n)} :
    /\ outcome = "running"
    /\ phase' = [n \in Nodes |-> IF n \in S THEN "running" ELSE phase[n]]
    /\ UNCHANGED <<graph, active, outcome>>

Finish(n) ==
  /\ outcome = "running"
  /\ phase[n] = "running"
  /\ \E p \in {"ok", "err", "cancelled"} : phase' = [phase EXCEPT ![n] = p]
  /\ \E kids \in SUBSET SuccChildren(n) :
       /\ active' = [active EXCEPT ![n] = kids]
       /\ kids # {} => phase'[n] = "ok"
  /\ UNCHANGED <<graph, outcome>>

(* Reporting a skip may fail, which ends the run.                          *)
Skip(n) ==
  /\ outcome = "running"
  /\ phase[n] = "waiting"
  /\ MaySkip(n)
  /\ phase' = [phase EXCEPT ![n] = "skipped"]
  /\ outcome' \in {"running", "aborted"}
  /\ UNCHANGED <<graph, active>>

Drop(n) ==
  /\ outcome = "running"
  /\ phase[n] = "waiting"
  /\ MayDrop(n)
  /\ phase' = [phase EXCEPT ![n] = "dropped"]
  /\ UNCHANGED <<graph, active, outcome>>

(* A run may complete only when every action has ended, no action was      *)
(* dropped, and every failure had a handler that succeeded.  It may fail   *)
(* only when some action failed.                                           *)
End ==
  /\ outcome = "running"
  /\ \A n \in Nodes : phase[n] # "running"
  /\ \/ /\ \A n \in Nodes : Ended(n)
        /\ \A n \in Nodes : Failed(n) =>
             \E h \in FailChildren(n) : phase[h] = "ok"
        /\ outcome' = "completed"
     \/ /\ \A n \in Nodes : Ended(n)
        /\ \E n \in Nodes : Failed(n)
        /\ outcome' = "failed"
     \/ /\ PreserveCancellation
        /\ \E n \in Nodes : phase[n] = "cancelled"
        /\ outcome' = "cancelled"
  /\ UNCHANGED <<graph, phase, active>>

Next == Start \/ End \/ \E n \in Nodes : Finish(n) \/ Skip(n) \/ Drop(n)

Spec == Init /\ [][Next]_vars
==============================================================================
