---------------------------- MODULE MCRunLifecycle ----------------------------
(***************************************************************************)
(* Instances of the run lifecycle.  Runs are numbers, ordered as the       *)
(* reconciler pages through them; callers are interchangeable.             *)
(***************************************************************************)
EXTENDS RunLifecycleProps, TLC

OneRun  == {1}
TwoRuns == {1, 2}

Symmetry == Permutations(Callers)
==============================================================================
