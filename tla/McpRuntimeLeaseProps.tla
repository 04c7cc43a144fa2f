------------------------- MODULE McpRuntimeLeaseProps ------------------------
(***************************************************************************)
(* Properties of McpRuntimeLease.                                          *)
(***************************************************************************)
EXTENDS McpRuntimeLease

RecordStates == {"none", "starting", "active", "draining", "self-fenced", "closed"}
DrainSteps == {"none", "begin", "settle", "dispose", "overdue", "done"}
FlightType ==
  [step : {"idle", "starting", "discovering", "published", "failing"},
   gen  : Gens \union {NoGen}]
OpType ==
  [step    : {"idle", "read", "decide", "running", "answered", "ambiguous"},
   gen     : Gens \union {NoGen},
   holder  : Holders \union {NoHolder},
   seen    : {"nothing", "ready", "draining", "lost"},
   crossed : BOOLEAN]

(* Types; no lease and no owner is ahead of the counter, whatever expires  *)
(* or crashes: a generation is never given out twice.                      *)
TypeOK ==
  /\ lease \in [gen : Gens \union {NoGen}, state : {"none", "starting", "ready", "draining"}]
  /\ generation \in 0 .. MaxGenerations
  /\ lease.gen <= generation
  /\ lease.gen = NoGen <=> lease.state = "none"
  /\ owner \in [Gens -> Processes \union {NoProcess}]
  /\ \A g \in Gens : owner[g] = NoProcess <=> g > generation
  /\ flight \in [Processes -> FlightType]
  /\ down \in [Processes -> {"up", "shutting", "closing"}]
  /\ state \in [Gens -> RecordStates]
  /\ holders \in [Gens -> SUBSET Holders]
  /\ released \in [Gens -> SUBSET Holders]
  /\ renewing \in [Gens -> BOOLEAN]
  /\ drain \in [Gens -> DrainSteps]
  /\ cleanup \in [Gens -> {"no", "running", "done"}]
  /\ resource \in [Gens -> {"none", "running", "gone"}]
  /\ ops \in [Ops -> OpType]
  /\ reaper \in Gens \union {NoGen}
  /\ faults \in 0 .. MaxFaults

(* An operation that was running when its owner fenced itself is reported  *)
(* as ambiguous (dispatch, McpRuntimeAmbiguousError), never as a result,   *)
(* as long as its caller holds the runtime and the worker is not closing.  *)
LossIsAmbiguous ==
  [][\A o \in Ops :
       ops[o].crossed /\ ops'[o].step = "answered" /\ ops[o].step # "answered"
         => \/ ops[o].holder \in released[ops[o].gen]
            \/ down[owner[ops[o].gen]] = "closing"]_vars

(* No operation starts on a handle that is being disposed, though it may   *)
(* have been let in, and its lease found ready, before the drain or the    *)
(* fence (dispatch asks again after the await); and a drain that goes on   *)
(* to dispose before its deadline leaves none running (settleBefore).      *)
DisposedLast ==
  [][\A o \in Ops : LET g == ops'[o].gen IN
       ops'[o].step = "running" =>
         /\ ops[o].step = "running" \/ cleanup[g] = "no"
         /\ drain'[g] # "dispose"]_vars

(* The reconciler never removes the server of the generation that holds    *)
(* the key, though it looks at the inventory, at the lease and at the      *)
(* resource at different times.                                            *)
ReapsOnlyLost == reaper # NoGen => lease.gen # reaper

(* When a generation has lost the key, its owner notices, whatever it was  *)
(* doing, and its process or container is removed (a loss is for good, and *)
(* so is a removal).                                                       *)
LostMeansGone ==
  \A g \in Gens :
    (g <= generation /\ lease.gen # g) ~> (resource[g] # "running" /\ state[g] # "active")
==============================================================================
