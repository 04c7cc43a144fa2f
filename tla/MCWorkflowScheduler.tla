------------------------- MODULE MCWorkflowScheduler -------------------------
(***************************************************************************)
(* WorkflowScheduler on small graphs, its properties, and the refinement   *)
(* of JoinContract.                                                        *)
(***************************************************************************)
EXTENDS WorkflowSchedulerProps

MCNodes == 1..4

(* Every definition over the nodes 1..4 listed in a topological order (the *)
(* compiler rejects cycles): each forward pair is unconnected, a success   *)
(* edge or an error edge.  A join with fewer than two success parents is   *)
(* given the default strategy, the choice makes no difference there.       *)
Forward == {e \in MCNodes \X MCNodes : e[1] < e[2]}

Definition(kind, any) ==
  [succ |-> {e \in Forward : kind[e] = "success"},
   err  |-> {e \in Forward : kind[e] = "error"},
   join |-> [n \in MCNodes |-> IF n \in any THEN "any" ELSE "all"]]

JoinNodes(kind) ==
  {n \in MCNodes : Cardinality({e \in Forward : e[2] = n /\ kind[e] = "success"}) > 1}

AllDefinitions ==
  UNION {{Definition(kind, any) : any \in SUBSET JoinNodes(kind)} :
           kind \in [Forward -> {"none", "success", "error"}]}
==============================================================================
