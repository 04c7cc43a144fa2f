------------------------ MODULE McpRuntimeLeaseProofs -------------------------
(***************************************************************************)
(* Proofs about the lease of a runtime, for any number of workers, callers,*)
(* operations, generations and faults.                                     *)
(***************************************************************************)
EXTENDS McpRuntimeLeaseProps, TLAPS

(***************************************************************************)
(* Types.                                                                  *)
(***************************************************************************)
LeaseType == [gen : Gens \union {NoGen}, state : {"none", "starting", "ready", "draining"}]

LEMMA GensNat == Gens \subseteq Nat /\ NoGen \notin Gens
  BY GenerationsAssumption DEF Gens, NoGen

LEMMA NoLeaseTyped == NoLease \in LeaseType /\ NoLease.gen = NoGen /\ NoLease.state = "none"
  BY DEF NoLease, LeaseType

LEMMA NoOpTyped == NoOp \in OpType /\ ~NoOp.crossed /\ NoOp.step = "idle"
  BY DEF NoOp, OpType

LEMMA NoFlightTyped == NoFlight \in FlightType /\ NoFlight.step = "idle" /\ NoFlight.gen = NoGen
  BY DEF NoFlight, FlightType

(* A new state of the lease keeps its generation.                          *)
LEMMA LeaseState ==
  ASSUME lease \in LeaseType, NEW s \in {"starting", "ready", "draining"}
  PROVE  /\ [lease EXCEPT !.state = s] \in LeaseType
         /\ [lease EXCEPT !.state = s].gen = lease.gen
         /\ [lease EXCEPT !.state = s].state = s
  BY DEF LeaseType

LEMMA FaultTyped ==
  ASSUME faults \in 0 .. MaxFaults, Fault \/ UNCHANGED faults
  PROVE  faults' \in 0 .. MaxFaults
  BY FaultsAssumption DEF Fault

(* What fencing marks keeps every operation as it is otherwise.            *)
LEMMA CrossedTyped ==
  ASSUME ops \in [Ops -> OpType], NEW g
  PROVE  /\ Crossed(g) \in [Ops -> OpType]
         /\ \A o \in Ops : /\ Crossed(g)[o].step = ops[o].step
                           /\ Crossed(g)[o].gen = ops[o].gen
                           /\ Crossed(g)[o].holder = ops[o].holder
                           /\ Crossed(g)[o].crossed <=>
                                \/ ops[o].crossed
                                \/ /\ ops[o].gen = g /\ ops[o].step = "running"
                                   /\ state[g] # "closed"
<1> SUFFICES ASSUME NEW o \in Ops
             PROVE  /\ Crossed(g)[o] \in OpType
                    /\ Crossed(g)[o].step = ops[o].step
                    /\ Crossed(g)[o].gen = ops[o].gen
                    /\ Crossed(g)[o].holder = ops[o].holder
                    /\ Crossed(g)[o].crossed <=>
                         \/ ops[o].crossed
                         \/ ops[o].gen = g /\ ops[o].step = "running" /\ state[g] # "closed"
  BY Zenon DEF Crossed
<1> DEFINE c == ops[o].crossed
                  \/ (ops[o].gen = g /\ ops[o].step = "running" /\ state[g] # "closed")
<1>1. Crossed(g)[o] = [ops[o] EXCEPT !.crossed = c]
  BY Zenon DEF Crossed
<1>2. ops[o] \in OpType /\ c \in BOOLEAN
  BY DEF OpType
<1>3. (ops[o].crossed \/ (ops[o].gen = g /\ ops[o].step = "running" /\ state[g] # "closed")) <=> c
  OBVIOUS
<1> HIDE DEF c
<1> QED
  BY <1>1, <1>2, <1>3 DEF OpType

RecordTypes ==
  /\ state \in [Gens -> RecordStates]
  /\ holders \in [Gens -> SUBSET Holders]
  /\ released \in [Gens -> SUBSET Holders]
  /\ renewing \in [Gens -> BOOLEAN]
  /\ drain \in [Gens -> DrainSteps]
  /\ cleanup \in [Gens -> {"no", "running", "done"}]

KeyTypes ==
  /\ lease \in LeaseType
  /\ generation \in 0 .. MaxGenerations
  /\ lease.gen <= generation
  /\ lease.gen = NoGen <=> lease.state = "none"
  /\ owner \in [Gens -> Processes \union {NoProcess}]
  /\ \A g \in Gens : owner[g] = NoProcess <=> g > generation

ProcessTypes ==
  /\ flight \in [Processes -> FlightType]
  /\ down \in [Processes -> {"up", "shutting", "closing"}]

OpTypes == ops \in [Ops -> OpType]

RestTypes ==
  /\ resource \in [Gens -> {"none", "running", "gone"}]
  /\ reaper \in Gens \union {NoGen}
  /\ faults \in 0 .. MaxFaults

LEMMA TypeParts ==
  TypeOK <=> RecordTypes /\ KeyTypes /\ ProcessTypes /\ OpTypes /\ RestTypes
  BY Zenon DEF TypeOK, RecordTypes, KeyTypes, ProcessTypes, OpTypes, RestTypes, LeaseType

LEMMA FenceTyped ==
  ASSUME RecordTypes, NEW g \in Gens, SelfFence(g)
  PROVE  /\ state' \in [Gens -> RecordStates]
         /\ cleanup' \in [Gens -> {"no", "running", "done"}]
  BY DEF RecordTypes, SelfFence, Disposing, RecordStates

LEMMA DisposingTyped ==
  ASSUME RecordTypes, NEW g \in Gens
  PROVE  Disposing(g) \in [Gens -> {"no", "running", "done"}]
  BY DEF RecordTypes, Disposing

LEMMA BeginDrainTyped ==
  ASSUME RecordTypes, NEW g \in Gens, BeginRecordDrain(g) \/ UNCHANGED <<state, drain>>
  PROVE  /\ state' \in [Gens -> RecordStates]
         /\ drain' \in [Gens -> DrainSteps]
  BY DEF RecordTypes, BeginRecordDrain, RecordStates, DrainSteps

LEMMA RemovesTyped ==
  ASSUME RecordTypes, NEW g \in Gens, NEW H \in SUBSET Holders, Removes(g, H)
  PROVE  /\ holders' \in [Gens -> SUBSET Holders]
         /\ released' \in [Gens -> SUBSET Holders]
  BY DEF RecordTypes, Removes

(***************************************************************************)
(* Which steps disturb what.                                               *)
(***************************************************************************)
LEMMA RecordSteps ==
  ASSUME [Next]_vars
  PROVE  \/ UNCHANGED recordVars
         \/ \E p \in Processes :
              \/ Publish(p) \/ Activate(p) \/ FailStartup(p)
              \/ Close(p) \/ Exit(p) \/ Crash(p)
         \/ \E g \in Gens :
              \/ Dispose(g) \/ Maintain(g) \/ RenewAnswers(g) \/ DrainStep(g)
              \/ \E h \in Holders : Retain(g, h) \/ RetireHolder(g, h) \/ Release(g, h)
         \/ \E o \in Ops : Decide(o)
<1>1. ASSUME \/ \E p \in Processes :
                  \/ Reserve(p) \/ StartDriver(p) \/ DeleteReservation(p) \/ BeginShutdown(p)
             \/ \E g \in Gens : Examine(g)
             \/ \E o \in Ops : Read(o) \/ Finish(o) \/ \E g \in Gens, h \in Holders : Begin(o, g, h)
             \/ Reap \/ LeaseExpires \/ UNCHANGED vars
       PROVE  UNCHANGED recordVars
  BY <1>1, Zenon DEF Reserve, StartDriver, DeleteReservation, BeginShutdown, Examine, Read, Finish,
     Begin, Reap, LeaseExpires, vars, recordVars
<1> QED
  BY <1>1 DEF Next, Startup, Reconcile

LEMMA OpSteps ==
  ASSUME [Next]_vars
  PROVE  \/ UNCHANGED ops
         \/ \E p \in Processes : Exit(p) \/ Crash(p)
         \/ \E g \in Gens : RenewAnswers(g) \/ BeginDrain(g) \/ DeleteLease(g)
         \/ \E o \in Ops :
              \/ Read(o) \/ Decide(o) \/ Finish(o)
              \/ \E g \in Gens, h \in Holders : Begin(o, g, h)
<1>1. ASSUME \/ \E p \in Processes :
                  \/ Reserve(p) \/ StartDriver(p) \/ Publish(p) \/ Activate(p) \/ FailStartup(p)
                  \/ DeleteReservation(p) \/ BeginShutdown(p) \/ Close(p)
             \/ \E g \in Gens :
                  \/ Dispose(g) \/ Maintain(g) \/ Settle(g) \/ Overdue(g) \/ Examine(g)
                  \/ \E h \in Holders : Retain(g, h) \/ RetireHolder(g, h) \/ Release(g, h)
             \/ Reap \/ LeaseExpires \/ UNCHANGED vars
       PROVE  UNCHANGED ops
  BY <1>1, Zenon DEF Reserve, StartDriver, Publish, Activate, FailStartup, DeleteReservation,
     BeginShutdown, Close, Dispose, Maintain, Settle, Overdue, Examine, Retain, RetireHolder,
     Release, Reap, LeaseExpires, vars, recordVars
<1> QED
  BY <1>1 DEF Next, Startup, DrainStep, Reconcile

LEMMA RecordTypesKept ==
  ASSUME TypeOK, [Next]_vars
  PROVE  RecordTypes'
<1> RecordTypes /\ KeyTypes /\ ProcessTypes /\ OpTypes
  BY TypeParts
<1> USE DEF RecordTypes
<1>1. ASSUME UNCHANGED recordVars PROVE RecordTypes'
  BY <1>1, Zenon DEF recordVars
<1>2. ASSUME NEW p \in Processes, Publish(p) \/ FailStartup(p) PROVE RecordTypes'
  <2>1. flight[p].step # "idle" => state' \in [Gens -> RecordStates]
    BY <1>2 DEF Publish, FailStartup, RecordStates
  <2>2. cleanup' \in [Gens -> {"no", "running", "done"}]
    BY <1>2 DEF Publish, FailStartup, Disposing
  <2> QED
    BY <1>2, <2>1, <2>2 DEF Publish, FailStartup
<1>3. ASSUME NEW p \in Processes, Activate(p) PROVE RecordTypes'
  BY <1>3 DEF Activate, RecordStates
<1>4. ASSUME NEW p \in Processes, Close(p) PROVE RecordTypes'
  BY <1>4 DEF Close, RecordStates, DrainSteps
<1>5. ASSUME NEW p \in Processes, Exit(p) \/ Crash(p) PROVE RecordTypes'
  <2>1. Restart(p)
    BY <1>5, Zenon DEF Exit, Crash
  <2>2. /\ state' \in [Gens -> RecordStates]
        /\ holders' \in [Gens -> SUBSET Holders]
        /\ released' \in [Gens -> SUBSET Holders]
    BY <2>1 DEF Restart, RecordStates
  <2>3. renewing' \in [Gens -> BOOLEAN]
    BY <2>1, Zenon DEF Restart
  <2>4. drain' \in [Gens -> DrainSteps] /\ cleanup' \in [Gens -> {"no", "running", "done"}]
    BY <2>1 DEF Restart, DrainSteps
  <2> QED
    BY <2>2, <2>3, <2>4
<1>6. ASSUME NEW g \in Gens, Dispose(g) PROVE RecordTypes'
  BY <1>6 DEF Dispose
<1>7. ASSUME NEW g \in Gens, Maintain(g) PROVE RecordTypes'
  <2>1. PICK H \in SUBSET Holders :
          Removes(g, H) /\ (BeginRecordDrain(g) \/ UNCHANGED <<state, drain>>)
    BY <1>7 DEF Maintain
  <2> QED
    BY <1>7, <2>1, RemovesTyped, BeginDrainTyped DEF Maintain
<1>8. ASSUME NEW g \in Gens, RenewAnswers(g) PROVE RecordTypes'
  <2>1. SelfFence(g) \/ UNCHANGED <<state, cleanup>>
    BY <1>8 DEF RenewAnswers
  <2> QED
    BY <1>8, <2>1, FenceTyped DEF RenewAnswers
<1>9. ASSUME NEW g \in Gens, BeginDrain(g) \/ DeleteLease(g) PROVE RecordTypes'
  <2>1. /\ drain' \in [Gens -> DrainSteps]
        /\ UNCHANGED <<holders, released, renewing>>
    BY <1>9 DEF BeginDrain, DeleteLease, DrainFails, DrainTo, DrainSteps
  <2>2. \/ SelfFence(g)
        \/ UNCHANGED <<state, cleanup>>
        \/ state' = [state EXCEPT ![g] = "closed"] /\ UNCHANGED cleanup
    BY <1>9 DEF BeginDrain, DeleteLease, DrainFails
  <2> QED
    BY <2>1, <2>2, FenceTyped DEF RecordStates
<1>10. ASSUME NEW g \in Gens, Settle(g) \/ Overdue(g) PROVE RecordTypes'
  BY <1>10 DEF Settle, Overdue, DrainTo, Disposing, DrainSteps
<1>11. ASSUME NEW g \in Gens, NEW h \in Holders, Retain(g, h) PROVE RecordTypes'
  BY <1>11 DEF Retain
<1>12. ASSUME NEW g \in Gens, NEW h \in Holders, RetireHolder(g, h) \/ Release(g, h)
       PROVE  RecordTypes'
  BY <1>12, RemovesTyped, BeginDrainTyped DEF RetireHolder, Release
<1>13. ASSUME NEW o \in Ops, Decide(o) PROVE RecordTypes'
  <2>1. PICK g \in Gens \union {NoGen} : SelfFence(g) \/ UNCHANGED <<state, cleanup>>
    BY <1>13 DEF Decide, OpTypes, OpType
  <2> QED
    BY <1>13, <2>1 DEF Decide, SelfFence, Disposing, RecordStates
<1> HIDE DEF RecordTypes
<1>20. CASE \E p \in Processes : \/ Publish(p) \/ Activate(p) \/ FailStartup(p)
                                \/ Close(p) \/ Exit(p) \/ Crash(p)
  BY <1>2, <1>3, <1>4, <1>5, <1>20
<1>21. CASE \E g \in Gens : Dispose(g) \/ Maintain(g) \/ RenewAnswers(g) \/ DrainStep(g)
  BY <1>6, <1>7, <1>8, <1>9, <1>10, <1>21 DEF DrainStep
<1>22. CASE \E g \in Gens, h \in Holders : Retain(g, h) \/ RetireHolder(g, h) \/ Release(g, h)
  BY <1>11, <1>12, <1>22
<1> QED
  BY <1>1, <1>13, <1>20, <1>21, <1>22, RecordSteps

LEMMA KeySteps ==
  ASSUME [Next]_vars
  PROVE  \/ UNCHANGED redis
         \/ \E p \in Processes : Reserve(p) \/ Publish(p) \/ DeleteReservation(p)
         \/ \E g \in Gens : BeginDrain(g) \/ DeleteLease(g)
         \/ LeaseExpires
<1>1. ASSUME \/ \E p \in Processes :
                  \/ StartDriver(p) \/ Activate(p) \/ FailStartup(p)
                  \/ BeginShutdown(p) \/ Close(p) \/ Exit(p) \/ Crash(p)
             \/ \E g \in Gens :
                  \/ Dispose(g) \/ Maintain(g) \/ RenewAnswers(g) \/ Settle(g) \/ Overdue(g)
                  \/ Examine(g)
                  \/ \E h \in Holders : Retain(g, h) \/ RetireHolder(g, h) \/ Release(g, h)
             \/ \E o \in Ops :
                  \/ Read(o) \/ Decide(o) \/ Finish(o)
                  \/ \E g \in Gens, h \in Holders : Begin(o, g, h)
             \/ Reap \/ UNCHANGED vars
      PROVE  UNCHANGED redis
  BY <1>1, Zenon DEF StartDriver, Activate, FailStartup, BeginShutdown, Close, Exit, Crash,
     Restart, Dispose, Maintain, RenewAnswers, Settle, Overdue, Examine, Retain, RetireHolder,
     Release, Read, Decide, Finish, Begin, Reap, vars, redis
<1> QED
  BY <1>1 DEF Next, Startup, DrainStep, Reconcile

LEMMA ProcessSteps ==
  ASSUME [Next]_vars
  PROVE  \/ UNCHANGED <<flight, down>>
         \/ \E p \in Processes :
              \/ Reserve(p) \/ Startup(p) \/ FailStartup(p)
              \/ BeginShutdown(p) \/ Close(p) \/ Exit(p) \/ Crash(p)
<1>1. ASSUME \/ \E g \in Gens :
                  \/ Dispose(g) \/ Maintain(g) \/ RenewAnswers(g) \/ DrainStep(g) \/ Examine(g)
                  \/ \E h \in Holders : Retain(g, h) \/ RetireHolder(g, h) \/ Release(g, h)
             \/ \E o \in Ops :
                  \/ Read(o) \/ Decide(o) \/ Finish(o)
                  \/ \E g \in Gens, h \in Holders : Begin(o, g, h)
             \/ Reap \/ LeaseExpires \/ UNCHANGED vars
      PROVE  UNCHANGED <<flight, down>>
  BY <1>1, Zenon DEF Dispose, Maintain, RenewAnswers, DrainStep, BeginDrain, DeleteLease, Settle,
     Overdue, Examine, Retain, RetireHolder, Release, Read, Decide, Finish, Begin, Reap,
     LeaseExpires, vars
<1> QED
  BY <1>1 DEF Next, Reconcile

LEMMA FaultSteps ==
  ASSUME [Next]_vars
  PROVE  Fault \/ UNCHANGED faults
<1>1. ASSUME NEW p \in Processes, Reserve(p) \/ Startup(p) \/ FailStartup(p)
      PROVE  Fault \/ UNCHANGED faults
  BY <1>1, Zenon DEF Reserve, Startup, StartDriver, Publish, Activate, FailStartup,
     DeleteReservation
<1>2. ASSUME NEW p \in Processes, BeginShutdown(p) \/ Close(p) \/ Exit(p) \/ Crash(p)
      PROVE  Fault \/ UNCHANGED faults
  BY <1>2, Zenon DEF BeginShutdown, Close, Exit, Crash
<1>3. ASSUME NEW g \in Gens, Dispose(g) \/ Maintain(g) \/ RenewAnswers(g) \/ DrainStep(g)
      PROVE  Fault \/ UNCHANGED faults
  BY <1>3 DEF Dispose, Maintain, RenewAnswers, DrainStep, BeginDrain, DeleteLease, Settle, Overdue
<1>4. ASSUME NEW g \in Gens, NEW h \in Holders, Retain(g, h) \/ RetireHolder(g, h) \/ Release(g, h)
      PROVE  Fault \/ UNCHANGED faults
  BY <1>4, Zenon DEF Retain, RetireHolder, Release
<1>5. ASSUME NEW o \in Ops, Read(o) \/ Decide(o) \/ Finish(o)
      PROVE  Fault \/ UNCHANGED faults
  BY <1>5, Zenon DEF Read, Decide, Finish
<1>6. ASSUME NEW o \in Ops, NEW g \in Gens, NEW h \in Holders, Begin(o, g, h)
      PROVE  Fault \/ UNCHANGED faults
  BY <1>6, Zenon DEF Begin
<1>7. ASSUME Reconcile \/ LeaseExpires \/ UNCHANGED vars
      PROVE  Fault \/ UNCHANGED faults
  BY <1>7, Zenon DEF Reconcile, Examine, Reap, LeaseExpires, vars
<1> HIDE DEF Fault
<1> QED
  BY <1>1, <1>2, <1>3, <1>4, <1>5, <1>6, <1>7 DEF Next

LEMMA ReconcilerSteps ==
  ASSUME [Next]_vars
  PROVE  /\ \/ UNCHANGED resource \/ Reap
            \/ \E p \in Processes : StartDriver(p)
            \/ \E g \in Gens : Dispose(g)
         /\ \/ UNCHANGED reaper \/ reaper' = NoGen
            \/ \E g \in Gens : Examine(g)
<1> DEFINE Quiet == UNCHANGED resource /\ (UNCHANGED reaper \/ reaper' = NoGen)
<1>1. ASSUME NEW p \in Processes,
             \/ Reserve(p) \/ Publish(p) \/ Activate(p) \/ DeleteReservation(p) \/ FailStartup(p)
             \/ BeginShutdown(p) \/ Close(p) \/ Exit(p) \/ Crash(p)
      PROVE  Quiet
  <2>1. CASE Exit(p) \/ Crash(p)
    BY <2>1 DEF Exit, Crash, Restart
  <2> QED
    BY <1>1, <2>1, Zenon DEF Reserve, Publish, Activate, DeleteReservation, FailStartup,
       BeginShutdown, Close
<1>2. ASSUME NEW g \in Gens, Maintain(g) \/ RenewAnswers(g) \/ DrainStep(g)
      PROVE  Quiet
  BY <1>2, Zenon DEF Maintain, RenewAnswers, DrainStep, BeginDrain, DeleteLease, Settle, Overdue
<1>3. ASSUME NEW g \in Gens, NEW h \in Holders, Retain(g, h) \/ RetireHolder(g, h) \/ Release(g, h)
      PROVE  Quiet
  BY <1>3, Zenon DEF Retain, RetireHolder, Release
<1>4. ASSUME NEW o \in Ops,
             \/ Read(o) \/ Decide(o) \/ Finish(o)
             \/ \E g \in Gens, h \in Holders : Begin(o, g, h)
      PROVE  Quiet
  BY <1>4, Zenon DEF Read, Decide, Finish, Begin
<1>5. ASSUME LeaseExpires \/ UNCHANGED vars
      PROVE  Quiet
  BY <1>5, Zenon DEF LeaseExpires, vars
<1>6. \/ UNCHANGED reaper
      \/ reaper' = NoGen
      \/ \E g \in Gens : Examine(g)
  <2>1. Quiet => UNCHANGED reaper \/ reaper' = NoGen
    BY DEF Quiet
  <2>2. Reap => reaper' = NoGen
    BY DEF Reap
  <2>3. \A p \in Processes : StartDriver(p) => UNCHANGED reaper
    BY DEF StartDriver
  <2>4. \A g \in Gens : Dispose(g) => UNCHANGED reaper
    BY DEF Dispose
  <2> HIDE DEF Quiet
  <2> QED
    BY <1>1, <1>2, <1>3, <1>4, <1>5, <2>1, <2>2, <2>3, <2>4 DEF Next, Startup, Reconcile
<1>7. \/ UNCHANGED resource \/ Reap
      \/ \E p \in Processes : StartDriver(p)
      \/ \E g \in Gens : Dispose(g)
  <2>1. Quiet => UNCHANGED resource
    BY DEF Quiet
  <2>2. \A g \in Gens : Examine(g) => UNCHANGED resource
    BY DEF Examine
  <2> HIDE DEF Quiet
  <2> QED
    BY <1>1, <1>2, <1>3, <1>4, <1>5, <2>1, <2>2 DEF Next, Startup, Reconcile
<1> QED
  BY <1>6, <1>7

LEMMA DeleteTyped ==
  ASSUME KeyTypes, NEW g, lease' = AfterDelete(g) \/ lease' = NoLease \/ UNCHANGED lease,
         UNCHANGED <<generation, owner>>
  PROVE  KeyTypes'
<1>1. lease' = NoLease \/ UNCHANGED lease
  BY Zenon DEF AfterDelete
<1>2. generation \in Nat
  BY GenerationsAssumption DEF KeyTypes
<1>3. CASE lease' = NoLease
  <2>1. /\ lease' \in LeaseType /\ lease'.gen <= generation'
        /\ lease'.gen = NoGen <=> lease'.state = "none"
    BY <1>2, <1>3, NoLeaseTyped DEF KeyTypes, NoGen
  <2> QED
    BY <2>1, Zenon DEF KeyTypes
<1> QED
  BY <1>1, <1>3, Zenon DEF KeyTypes

LEMMA StateTyped ==
  ASSUME KeyTypes, NEW s \in {"starting", "ready", "draining"}, lease # NoLease,
         lease.gen # NoGen, lease' = [lease EXCEPT !.state = s], UNCHANGED <<generation, owner>>
  PROVE  KeyTypes'
<1>1. lease' \in LeaseType /\ lease'.gen = lease.gen /\ lease'.state = s
  BY LeaseState, Zenon DEF KeyTypes
<1> QED
  BY <1>1 DEF KeyTypes

LEMMA KeyTypesKept ==
  ASSUME TypeOK, [Next]_vars
  PROVE  KeyTypes'
<1> KeyTypes /\ ProcessTypes
  BY TypeParts
<1>1. ASSUME NEW p \in Processes, Reserve(p) PROVE KeyTypes'
  <2>1. generation + 1 \in Gens /\ generation \in Nat
    BY <1>1, GenerationsAssumption DEF Reserve, KeyTypes, Gens
  <2>2. lease' \in LeaseType /\ lease'.gen = generation + 1 /\ lease'.state = "starting"
    BY <1>1, <2>1 DEF Reserve, Number, LeaseType
  <2>3. owner' \in [Gens -> Processes \union {NoProcess}]
    BY <1>1 DEF Reserve, KeyTypes
  <2>4. ASSUME NEW g \in Gens PROVE owner'[g] = NoProcess <=> g > generation'
    <3>1. g \in Nat
      BY GensNat
    <3>2. owner'[g] = IF g = generation + 1 THEN p ELSE owner[g]
      BY <1>1, <2>1, Zenon DEF Reserve, KeyTypes
    <3> QED
      BY <1>1, <2>1, <3>1, <3>2, NoProcessAssumption DEF Reserve, KeyTypes
  <2> QED
    BY <1>1, <2>1, <2>2, <2>3, <2>4, GensNat, GenerationsAssumption DEF Reserve, KeyTypes, NoGen
<1>2. ASSUME NEW p \in Processes, Publish(p) PROVE KeyTypes'
  <2>1. CASE Holds(flight[p].gen, {"starting"}) /\ lease' = [lease EXCEPT !.state = "ready"]
    BY <1>2, <2>1, StateTyped DEF Publish, Holds, KeyTypes, NoLease
  <2> QED
    BY <1>2, <2>1, DeleteTyped DEF Publish
<1>3. ASSUME NEW p \in Processes, DeleteReservation(p) PROVE KeyTypes'
  BY <1>3, DeleteTyped DEF DeleteReservation
<1>4. ASSUME NEW g \in Gens, BeginDrain(g) PROVE KeyTypes'
  <2>1. CASE Holds(g, {"ready", "draining"}) /\ lease' = [lease EXCEPT !.state = "draining"]
    BY <1>4, <2>1, StateTyped, GensNat DEF BeginDrain, Holds, NoLease
  <2> QED
    BY <1>4, <2>1, DeleteTyped DEF BeginDrain
<1>5. ASSUME NEW g \in Gens, DeleteLease(g) PROVE KeyTypes'
  BY <1>5, DeleteTyped DEF DeleteLease
<1>6. ASSUME LeaseExpires PROVE KeyTypes'
  BY <1>6, DeleteTyped DEF LeaseExpires
<1>7. ASSUME UNCHANGED redis PROVE KeyTypes'
  BY <1>7, Zenon DEF redis, KeyTypes
<1> QED
  BY <1>1, <1>2, <1>3, <1>4, <1>5, <1>6, <1>7, KeySteps

LEMMA ProcessTypesKept ==
  ASSUME TypeOK, [Next]_vars
  PROVE  ProcessTypes'
<1> KeyTypes /\ ProcessTypes
  BY TypeParts
<1>1. ASSUME NEW p \in Processes,
             \/ Reserve(p)
             \/ \E step \in {"discovering", "published", "failing"} : Goes(p, step)
             \/ Ends(p)
             \/ UNCHANGED flight
      PROVE  flight' \in [Processes -> FlightType]
  <2>1. CASE Reserve(p)
    <3>1. generation + 1 \in Gens
      BY <2>1, GenerationsAssumption DEF Reserve, KeyTypes, Gens
    <3>2. [step |-> "starting", gen |-> Number] \in FlightType
      BY <3>1 DEF FlightType, Number
    <3> QED
      BY <2>1, <3>2, Zenon DEF Reserve, ProcessTypes
  <2>2. CASE \E step \in {"discovering", "published", "failing"} : Goes(p, step)
    BY <2>2 DEF Goes, ProcessTypes, FlightType
  <2>3. CASE Ends(p)
    BY <2>3, NoFlightTyped, Zenon DEF Ends, ProcessTypes
  <2> QED
    BY <1>1, <2>1, <2>2, <2>3 DEF ProcessTypes
<1>2. ASSUME NEW p \in Processes, Reserve(p) \/ Startup(p) \/ FailStartup(p) PROVE ProcessTypes'
  <2>1. UNCHANGED down
    BY <1>2, Zenon DEF Reserve, Startup, StartDriver, Publish, Activate, FailStartup,
       DeleteReservation
  <2>2. \/ Reserve(p)
        \/ \E step \in {"discovering", "published", "failing"} : Goes(p, step)
        \/ Ends(p)
    BY <1>2 DEF Startup, StartDriver, Publish, Activate, FailStartup, DeleteReservation
  <2> QED
    BY <2>1, <2>2, <1>1, Zenon DEF ProcessTypes
<1>3. ASSUME NEW p \in Processes, BeginShutdown(p) \/ Close(p) PROVE ProcessTypes'
  BY <1>3 DEF BeginShutdown, Close, ProcessTypes
<1>4. ASSUME NEW p \in Processes, Exit(p) \/ Crash(p) PROVE ProcessTypes'
  <2>1. Restart(p)
    BY <1>4, Zenon DEF Exit, Crash
  <2> QED
    BY <2>1, NoFlightTyped DEF Restart, ProcessTypes
<1>5. ASSUME UNCHANGED <<flight, down>> PROVE ProcessTypes'
  BY <1>5, Zenon DEF ProcessTypes
<1> QED
  BY <1>2, <1>3, <1>4, <1>5, ProcessSteps

LEMMA OpTypesKept ==
  ASSUME TypeOK, [Next]_vars
  PROVE  OpTypes'
<1> OpTypes /\ KeyTypes
  BY TypeParts
<1> DEFINE OpKept(o, op) == ops' = [ops EXCEPT ![o] = op] /\ op \in OpType
<1>1. ASSUME NEW o \in Ops, NEW op, OpKept(o, op) PROVE OpTypes'
  BY <1>1 DEF OpTypes
<1>2. ASSUME NEW p \in Processes, Exit(p) \/ Crash(p) PROVE OpTypes'
  <2>1. Restart(p)
    BY <1>2, Zenon DEF Exit, Crash
  <2> QED
    BY <2>1, NoOpTyped, Zenon DEF Restart, OpTypes
<1>3. ASSUME NEW g \in Gens, RenewAnswers(g) \/ BeginDrain(g) \/ DeleteLease(g) PROVE OpTypes'
  <2>1. ops' = Crossed(g) \/ UNCHANGED ops
    BY <1>3 DEF RenewAnswers, BeginDrain, DeleteLease, DrainFails
  <2> QED
    BY <2>1, CrossedTyped DEF OpTypes
<1>4. ASSUME NEW o \in Ops, Read(o) PROVE OpTypes'
  <2>1. PICK seen \in {"nothing", "ready", "draining", "lost"} :
          ops' = [ops EXCEPT ![o].step = "decide", ![o].seen = seen]
    BY <1>4 DEF Read, Holds
  <2>2. ops[o] \in OpType
    BY DEF OpTypes
  <2>3. [ops[o] EXCEPT !.step = "decide"] \in OpType
    BY <2>2 DEF OpType
  <2> QED
    BY <2>1, <2>2, <2>3 DEF OpTypes, OpType
<1>5. ASSUME NEW o \in Ops, Finish(o) PROVE OpTypes'
  <2>1. [NoOp EXCEPT !.step = Told(ops[o].gen)] \in OpType
    BY NoOpTyped DEF Told, OpType
  <2> QED
    BY <1>1, <1>5, <2>1 DEF Finish
<1>6. ASSUME NEW o \in Ops, Decide(o) PROVE OpTypes'
  <2>1. Crossed(ops[o].gen) \in [Ops -> OpType]
    BY CrossedTyped, Zenon DEF OpTypes
  <2>2. \/ ops' = [ops EXCEPT ![o].step = "running", ![o].seen = "nothing"]
        \/ ops' = [ops EXCEPT ![o] = NoOp]
        \/ ops' = [Crossed(ops[o].gen) EXCEPT ![o] = NoOp]
    BY <1>6, Zenon DEF Decide
  <2>3. CASE ops' = [ops EXCEPT ![o].step = "running", ![o].seen = "nothing"]
    <3> DEFINE d == [ops EXCEPT ![o].step = "running"]
    <3>1. d \in [Ops -> OpType]
      BY DEF OpTypes, OpType
    <3>2. ops' = [d EXCEPT ![o].seen = "nothing"]
      BY <2>3 DEF OpTypes, OpType
    <3> HIDE DEF d
    <3> QED
      BY <3>1, <3>2 DEF OpTypes, OpType
  <2>4. CASE ops' = [ops EXCEPT ![o] = NoOp] \/ ops' = [Crossed(ops[o].gen) EXCEPT ![o] = NoOp]
    BY <2>1, <2>4, NoOpTyped DEF OpTypes
  <2> QED
    BY <2>2, <2>3, <2>4
<1>7. ASSUME NEW o \in Ops, NEW g \in Gens, NEW h \in Holders, Begin(o, g, h) PROVE OpTypes'
  <2>1. [NoOp EXCEPT !.step = "read", !.gen = g, !.holder = h] \in OpType
    BY DEF NoOp, OpType
  <2> QED
    BY <1>1, <1>7, <2>1 DEF Begin
<1>8. ASSUME UNCHANGED ops PROVE OpTypes'
  BY <1>8 DEF OpTypes
<1> QED
  BY <1>2, <1>3, <1>4, <1>5, <1>6, <1>7, <1>8, OpSteps

LEMMA RestTypesKept ==
  ASSUME TypeOK, [Next]_vars
  PROVE  RestTypes'
<1> RestTypes /\ ProcessTypes
  BY TypeParts
<1>1. faults' \in 0 .. MaxFaults
  BY FaultSteps, FaultTyped DEF RestTypes
<1>2. resource' \in [Gens -> {"none", "running", "gone"}]
  BY ReconcilerSteps DEF StartDriver, Dispose, Reap, RestTypes
<1>3. reaper' \in Gens \union {NoGen}
  BY ReconcilerSteps DEF Examine, RestTypes
<1> QED
  BY <1>1, <1>2, <1>3 DEF RestTypes

LEMMA InitTypes ==
  ASSUME Init
  PROVE  TypeOK
<1>1. KeyTypes
  BY NoLeaseTyped, GenerationsAssumption, NoProcessAssumption DEF Init, KeyTypes, Gens, NoGen
<1>2. RecordTypes /\ ProcessTypes /\ OpTypes /\ RestTypes
  BY NoFlightTyped, NoOpTyped, FaultsAssumption
     DEF Init, RecordTypes, RecordStates, DrainSteps, ProcessTypes, OpTypes, RestTypes
<1> QED
  BY <1>1, <1>2, TypeParts

(***************************************************************************)
(* The inductive invariant.                                                *)
(***************************************************************************)
Closing(g) == \E p \in Processes : owner[g] = p /\ down[p] = "closing"

(* Nothing has been done to the record of g but starting it.               *)
Untouched(g) ==
  /\ holders[g] = {} /\ ~renewing[g]
  /\ drain[g] = "none" /\ cleanup[g] = "no"
  /\ InFlight(g) = {}

(* A runtime that drains has been given up by its holders, and one whose   *)
(* drain disposes of it by the operations too.                             *)
GenSound(g) ==
  /\ g > generation => state[g] = "none" /\ resource[g] = "none" /\ Untouched(g)
  /\ state[g] = "active" => cleanup[g] = "no" /\ drain[g] = "none"
  /\ drain[g] # "none" => holders[g] = {}
  /\ drain[g] = "dispose" => InFlight(g) = {}

FlightSound(p) ==
  LET g == flight[p].gen IN
  flight[p].step # "idle" =>
    /\ g \in Gens /\ g <= generation /\ owner[g] = p
    /\ flight[p].step \in {"starting", "discovering"} => state[g] = "none" /\ Untouched(g)
    /\ flight[p].step = "published" => state[g] = "starting" /\ Untouched(g)

(* Who asked for o held its runtime, and gave it up or was made to.        *)
Left(o) == ops[o].holder \in released[ops[o].gen] \/ Closing(ops[o].gen)

OpSound(o) ==
  LET g == ops[o].gen IN
  /\ Underway(o) => g \in Gens /\ g <= generation /\ (ops[o].holder \in holders[g] \/ Left(o))
  /\ ops[o].crossed => ops[o].step = "running" /\ (state[g] = "self-fenced" \/ Left(o))

(* What the reconciler is to reap was lost before, and a loss is for good. *)
ReapSound == reaper # NoGen => reaper <= generation /\ lease.gen # reaper

Inv ==
  /\ TypeOK
  /\ \A g \in Gens : GenSound(g)
  /\ \A p \in Processes : FlightSound(p)
  /\ \A o \in Ops : OpSound(o)
  /\ ReapSound

(* The operations of a runtime get more only while it accepts them.        *)
LEMMA OpsStay ==
  ASSUME TypeOK, [Next]_vars, NEW g \in Gens
  PROVE  InFlight(g)' \subseteq InFlight(g) \/ state[g] = "active"
<1> OpTypes /\ KeyTypes
  BY TypeParts
<1> USE DEF InFlight, Underway
<1>1. ASSUME NEW p \in Processes, Exit(p) \/ Crash(p) PROVE InFlight(g)' \subseteq InFlight(g)
  <2>1. Restart(p)
    BY <1>1, Zenon DEF Exit, Crash
  <2>2. ASSUME NEW o \in Ops PROVE ops'[o] = NoOp \/ ops'[o] = ops[o]
    BY <2>1, Zenon DEF Restart
  <2> QED
    BY <2>2, NoOpTyped
<1>2. ASSUME NEW h \in Gens, RenewAnswers(h) \/ BeginDrain(h) \/ DeleteLease(h)
      PROVE  InFlight(g)' \subseteq InFlight(g)
  <2>1. ops' = Crossed(h) \/ UNCHANGED ops
    BY <1>2 DEF RenewAnswers, BeginDrain, DeleteLease, DrainFails
  <2> QED
    BY <2>1, CrossedTyped DEF OpTypes
<1>3. ASSUME NEW o \in Ops, Read(o) PROVE InFlight(g)' \subseteq InFlight(g)
  BY <1>3 DEF Read, OpTypes, OpType
<1>4. ASSUME NEW o \in Ops, Finish(o) PROVE InFlight(g)' \subseteq InFlight(g)
  <2>1. ops' = [ops EXCEPT ![o] = [NoOp EXCEPT !.step = Told(ops[o].gen)]]
    BY <1>4, Zenon DEF Finish
  <2>2. [NoOp EXCEPT !.step = Told(ops[o].gen)].step \in {"answered", "ambiguous"}
    BY DEF NoOp, Told
  <2> QED
    BY <2>1, <2>2 DEF OpTypes
<1>5. ASSUME NEW o \in Ops, Decide(o) PROVE InFlight(g)' \subseteq InFlight(g)
  <2>1. \/ ops' = [ops EXCEPT ![o].step = "running", ![o].seen = "nothing"]
        \/ ops' = [ops EXCEPT ![o] = NoOp]
        \/ ops' = [Crossed(ops[o].gen) EXCEPT ![o] = NoOp]
    BY <1>5, Zenon DEF Decide
  <2>2. ops[o].step = "decide"
    BY <1>5, Zenon DEF Decide
  <2>3. CASE ops' = [ops EXCEPT ![o].step = "running", ![o].seen = "nothing"]
    BY <2>2, <2>3 DEF OpTypes, OpType
  <2> QED
    BY <2>1, <2>3, NoOpTyped, CrossedTyped DEF OpTypes
<1>6. ASSUME NEW o \in Ops, NEW k \in Gens, NEW h \in Holders, Begin(o, k, h)
      PROVE  InFlight(g)' \subseteq InFlight(g) \/ state[g] = "active"
  <2>1. ops' = [ops EXCEPT ![o] = [NoOp EXCEPT !.step = "read", !.gen = k, !.holder = h]]
    BY <1>6, Zenon DEF Begin
  <2>2. [NoOp EXCEPT !.step = "read", !.gen = k, !.holder = h].gen = k
    BY DEF NoOp
  <2>3. state[k] = "active"
    BY <1>6, Zenon DEF Begin, Accepting
  <2> QED
    BY <2>1, <2>2, <2>3 DEF OpTypes
<1>7. ASSUME UNCHANGED ops PROVE InFlight(g)' \subseteq InFlight(g)
  BY <1>7
<1> HIDE DEF InFlight, Underway
<1> QED
  BY <1>1, <1>2, <1>3, <1>4, <1>5, <1>6, <1>7, OpSteps

(***************************************************************************)
(* What a step may do to the record of g.                                  *)
(***************************************************************************)
LEMMA Unreserved ==
  ASSUME Inv, [Next]_vars, NEW g \in Gens, g > generation'
  PROVE  g > generation /\ resource'[g] = "none"
<1> /\ KeyTypes /\ RestTypes /\ GenSound(g) /\ \A p \in Processes : FlightSound(p)
    /\ g \in Nat /\ generation \in Nat
  BY TypeParts, GensNat, GenerationsAssumption DEF Inv, KeyTypes
<1>1. generation' = generation \/ generation' = generation + 1
  BY KeySteps DEF Reserve, Publish, DeleteReservation, BeginDrain, DeleteLease, LeaseExpires,
     redis
<1>2. g > generation
  BY <1>1
<1>3. resource[g] = "none" /\ cleanup[g] = "no"
  BY <1>2 DEF GenSound, Untouched
<1>4. ASSUME NEW p \in Processes, StartDriver(p) PROVE resource'[g] = resource[g]
  BY <1>2, <1>4 DEF StartDriver, FlightSound, RestTypes
<1>5. ASSUME NEW k \in Gens, Dispose(k) PROVE resource'[g] = resource[g]
  BY <1>3, <1>5 DEF Dispose, RestTypes
<1>6. ASSUME Reap PROVE resource'[g] = resource[g]
  BY <1>2, <1>6 DEF Reap, Inv, ReapSound, RestTypes
<1> QED
  BY <1>2, <1>3, <1>4, <1>5, <1>6, ReconcilerSteps

LEMMA GenKept ==
  ASSUME Inv, [Next]_vars, NEW g \in Gens
  PROVE  GenSound(g)'
<1> /\ TypeOK /\ RecordTypes /\ KeyTypes /\ ProcessTypes /\ OpTypes /\ RestTypes
    /\ GenSound(g) /\ \A p \in Processes : FlightSound(p)
    /\ g \in Nat /\ generation \in Nat
  BY TypeParts, GensNat, GenerationsAssumption DEF Inv, KeyTypes
<1>0. g > generation => owner[g] = NoProcess /\ NoProcess \notin Processes
  BY NoProcessAssumption DEF KeyTypes
<1>1. InFlight(g)' \subseteq InFlight(g) \/ state[g] = "active"
  BY OpsStay
<1> USE DEF RecordTypes, GenSound, Untouched
<1>2. g > generation' => g > generation /\ resource'[g] = "none"
  BY Unreserved
<1>3. ASSUME UNCHANGED recordVars PROVE GenSound(g)'
  BY <1>1, <1>2, <1>3 DEF recordVars
<1>4. ASSUME NEW p \in Processes, Publish(p) PROVE GenSound(g)'
  BY <1>1, <1>4 DEF Publish, FlightSound, Disposing
<1>5. ASSUME NEW p \in Processes, Activate(p) PROVE GenSound(g)'
  BY <1>1, <1>5 DEF Activate, redis, FlightSound
<1>6. ASSUME NEW p \in Processes, FailStartup(p) PROVE GenSound(g)'
  BY <1>1, <1>6 DEF FailStartup, redis, FlightSound, Disposing
<1>7. ASSUME NEW p \in Processes, Close(p) PROVE GenSound(g)'
  BY <1>0, <1>1, <1>7 DEF Close, redis
<1>8. ASSUME NEW p \in Processes, Exit(p) \/ Crash(p) PROVE GenSound(g)'
  <2>1. Restart(p)
    BY <1>8, Zenon DEF Exit, Crash
  <2> QED
    BY <1>0, <1>1, <2>1 DEF Restart, redis, Own
<1>9. ASSUME NEW k \in Gens, Dispose(k) PROVE GenSound(g)'
  BY <1>1, <1>9 DEF Dispose, redis, RestTypes
<1>10. ASSUME NEW k \in Gens, Maintain(k) PROVE GenSound(g)'
  BY <1>1, <1>10 DEF Maintain, redis, Accepting, Removes, BeginRecordDrain
<1>11. ASSUME NEW k \in Gens, RenewAnswers(k) PROVE GenSound(g)'
  BY <1>1, <1>11 DEF RenewAnswers, redis, SelfFence, Disposing
<1>12. ASSUME NEW k \in Gens, BeginDrain(k) PROVE GenSound(g)'
  BY <1>1, <1>12 DEF BeginDrain, DrainFails, DrainTo, SelfFence, Disposing
<1>13. ASSUME NEW k \in Gens, Settle(k) \/ Overdue(k) PROVE GenSound(g)'
  BY <1>1, <1>13 DEF Settle, Overdue, redis, DrainTo, Disposing
<1>14. ASSUME NEW k \in Gens, DeleteLease(k) PROVE GenSound(g)'
  BY <1>1, <1>14 DEF DeleteLease, DrainFails, DrainTo, SelfFence, Disposing
<1>15. ASSUME NEW k \in Gens, NEW h \in Holders, Retain(k, h) PROVE GenSound(g)'
  BY <1>1, <1>15 DEF Retain, redis, Accepting
<1>16. ASSUME NEW k \in Gens, NEW h \in Holders, RetireHolder(k, h) PROVE GenSound(g)'
  BY <1>1, <1>16 DEF RetireHolder, redis, Accepting, Removes, BeginRecordDrain
<1>17. ASSUME NEW k \in Gens, NEW h \in Holders, Release(k, h) PROVE GenSound(g)'
  BY <1>1, <1>17 DEF Release, redis, Removes, BeginRecordDrain
<1>18. ASSUME NEW o \in Ops, Decide(o) PROVE GenSound(g)'
  <2>1. ops[o].gen = g => InFlight(g) # {}
    BY <1>18 DEF Decide, InFlight, Underway
  <2>2. /\ UNCHANGED <<generation, resource, holders, renewing, drain>>
        /\ SelfFence(ops[o].gen) \/ UNCHANGED <<state, cleanup>>
    BY <1>18 DEF Decide, redis
  <2> QED
    BY <1>1, <2>1, <2>2 DEF SelfFence, Disposing
<1> HIDE DEF RecordTypes, GenSound, Untouched
<1>20. CASE \E p \in Processes : \/ Publish(p) \/ Activate(p) \/ FailStartup(p)
                                \/ Close(p) \/ Exit(p) \/ Crash(p)
  BY <1>4, <1>5, <1>6, <1>7, <1>8, <1>20
<1>21. CASE \E k \in Gens : Dispose(k) \/ Maintain(k) \/ RenewAnswers(k) \/ DrainStep(k)
  BY <1>9, <1>10, <1>11, <1>12, <1>13, <1>14, <1>21 DEF DrainStep
<1>22. CASE \E k \in Gens, h \in Holders : Retain(k, h) \/ RetireHolder(k, h) \/ Release(k, h)
  BY <1>15, <1>16, <1>17, <1>22
<1> QED
  BY <1>3, <1>18, <1>20, <1>21, <1>22, RecordSteps

(* Only the startup itself, or the end of its worker, touches the record   *)
(* of a runtime that starts.                                               *)
LEMMA UntouchedKept ==
  ASSUME Inv, [Next]_vars, NEW g \in Gens, state[g] \in {"none", "starting"}, Untouched(g)
  PROVE  \/ Untouched(g)' /\ state'[g] = state[g]
         \/ \E p \in Processes : /\ flight[p].step # "idle" /\ flight[p].gen = g
                                 /\ Publish(p) \/ Activate(p) \/ FailStartup(p)
         \/ \E p \in Processes : owner[g] = p /\ (Exit(p) \/ Crash(p))
<1> SUFFICES ASSUME \A p \in Processes : flight[p].step # "idle" /\ flight[p].gen = g =>
                      ~(Publish(p) \/ Activate(p) \/ FailStartup(p)),
                    \A p \in Processes : owner[g] = p => ~(Exit(p) \/ Crash(p))
             PROVE  Untouched(g)' /\ state'[g] = state[g]
  OBVIOUS
<1> /\ RecordTypes /\ OpTypes /\ \A p \in Processes : FlightSound(p)
  BY TypeParts DEF Inv
<1>1. InFlight(g)' = {}
  BY OpsStay DEF Inv, Untouched
<1> USE DEF RecordTypes, Untouched
<1>2. ASSUME NEW p \in Processes, Publish(p) \/ Activate(p) \/ FailStartup(p)
      PROVE  Untouched(g)' /\ state'[g] = state[g]
  <2>1. flight[p].gen \in Gens /\ flight[p].gen # g
    BY <1>2 DEF FlightSound, Publish, Activate, FailStartup
  <2> QED
    BY <1>1, <1>2, <2>1 DEF Publish, Activate, FailStartup, Disposing
<1>3. ASSUME NEW p \in Processes, Close(p) PROVE Untouched(g)' /\ state'[g] = state[g]
  BY <1>1, <1>3 DEF Close
<1>4. ASSUME NEW p \in Processes, Exit(p) \/ Crash(p)
      PROVE  Untouched(g)' /\ state'[g] = state[g]
  <2>1. Restart(p) /\ g \notin Own(p)
    BY <1>4, Zenon DEF Exit, Crash, Own
  <2> QED
    BY <1>1, <2>1 DEF Restart
<1>5. ASSUME NEW k \in Gens, Dispose(k) PROVE Untouched(g)' /\ state'[g] = state[g]
  BY <1>1, <1>5 DEF Dispose
<1>6. ASSUME NEW k \in Gens, Maintain(k) PROVE Untouched(g)' /\ state'[g] = state[g]
  BY <1>1, <1>6 DEF Maintain, Accepting, Removes, BeginRecordDrain
<1>7. ASSUME NEW k \in Gens, RenewAnswers(k) PROVE Untouched(g)' /\ state'[g] = state[g]
  BY <1>1, <1>7 DEF RenewAnswers, SelfFence, Disposing
<1>8. ASSUME NEW k \in Gens, DrainStep(k) PROVE Untouched(g)' /\ state'[g] = state[g]
  BY <1>1, <1>8 DEF DrainStep, BeginDrain, Settle, Overdue, DeleteLease, DrainFails, DrainTo,
     SelfFence, Disposing
<1>9. ASSUME NEW k \in Gens, NEW h \in Holders, Retain(k, h) \/ RetireHolder(k, h)
      PROVE  Untouched(g)' /\ state'[g] = state[g]
  BY <1>1, <1>9 DEF Retain, RetireHolder, Accepting, Removes, BeginRecordDrain
<1>10. ASSUME NEW k \in Gens, NEW h \in Holders, Release(k, h)
       PROVE  Untouched(g)' /\ state'[g] = state[g]
  BY <1>1, <1>10 DEF Release, Removes, BeginRecordDrain
<1>11. ASSUME NEW o \in Ops, Decide(o) PROVE Untouched(g)' /\ state'[g] = state[g]
  <2>1. ops[o].gen # g
    BY <1>11 DEF Decide, InFlight, Underway
  <2>2. /\ UNCHANGED <<holders, renewing, drain>>
        /\ SelfFence(ops[o].gen) \/ UNCHANGED <<state, cleanup>>
    BY <1>11 DEF Decide
  <2> QED
    BY <1>1, <2>1, <2>2 DEF SelfFence, Disposing
<1>12. ASSUME UNCHANGED recordVars PROVE Untouched(g)' /\ state'[g] = state[g]
  BY <1>1, <1>12 DEF recordVars
<1> HIDE DEF RecordTypes, Untouched
<1>13. CASE \E p \in Processes : \/ Publish(p) \/ Activate(p) \/ FailStartup(p)
                                 \/ Close(p) \/ Exit(p) \/ Crash(p)
  BY <1>2, <1>3, <1>4, <1>13
<1>14. CASE \E k \in Gens : Dispose(k) \/ Maintain(k) \/ RenewAnswers(k) \/ DrainStep(k)
  BY <1>5, <1>6, <1>7, <1>8, <1>14
<1>15. CASE \E k \in Gens, h \in Holders : Retain(k, h) \/ RetireHolder(k, h) \/ Release(k, h)
  BY <1>9, <1>10, <1>15
<1> QED
  BY <1>11, <1>12, <1>13, <1>14, <1>15, RecordSteps

(* Generations keep their owners.                                          *)
LEMMA OwnersStay ==
  ASSUME Inv, [Next]_vars, NEW g \in Gens, g <= generation
  PROVE  g <= generation' /\ owner'[g] = owner[g]
<1> KeyTypes /\ g \in Nat /\ generation \in Nat
  BY TypeParts, GensNat, GenerationsAssumption DEF Inv, KeyTypes
<1> QED
  BY KeySteps DEF Reserve, Publish, DeleteReservation, BeginDrain, DeleteLease, LeaseExpires,
     redis, KeyTypes

LEMMA FlightKept ==
  ASSUME Inv, [Next]_vars, NEW q \in Processes
  PROVE  FlightSound(q)'
<1> /\ RecordTypes /\ KeyTypes /\ ProcessTypes /\ FlightSound(q)
    /\ \A p \in Processes : FlightSound(p)
    /\ \A g \in Gens : GenSound(g)
    /\ generation \in Nat
  BY TypeParts, GenerationsAssumption DEF Inv, KeyTypes
<1>0. PICK g : g = flight[q].gen
  OBVIOUS
<1>1. CASE flight'[q] = flight[q] /\ flight[q].step # "idle"
  <2>1. g \in Gens /\ g <= generation' /\ owner'[g] = q
    BY <1>0, <1>1, OwnersStay DEF FlightSound
  <2>2. ~(Publish(q) \/ Activate(q) \/ FailStartup(q) \/ Exit(q) \/ Crash(q))
    BY <1>1, NoFlightTyped DEF Publish, Activate, FailStartup, Exit, Crash, Restart, Goes, Ends,
       ProcessTypes, FlightType
  <2>3. \A p \in Processes : flight[p].step # "idle" /\ flight[p].gen = g => p = q
    BY <1>0, <1>1 DEF FlightSound
  <2>4. owner[g] = q
    BY <1>0, <1>1 DEF FlightSound
  <2>5. state[g] \in {"none", "starting"} /\ Untouched(g) => Untouched(g)' /\ state'[g] = state[g]
    BY <2>1, <2>2, <2>3, <2>4, UntouchedKept
  <2> QED
    BY <1>0, <1>1, <2>1, <2>5 DEF FlightSound
<1>2. CASE flight'[q].step = "idle"
  BY <1>2 DEF FlightSound
<1>3. CASE Reserve(q)
  <2>1. PICK n \in Gens : n = generation + 1 /\ generation' = n
    BY <1>3, GenerationsAssumption DEF Reserve, Gens
  <2>2. owner'[n] = q
    BY <1>3, <2>1 DEF Reserve, KeyTypes
  <2>3. flight'[q] = [step |-> "starting", gen |-> n] \/ flight'[q] = flight[q]
    BY <1>3, <2>1 DEF Reserve, Number, ProcessTypes
  <2>4. state[n] = "none" /\ Untouched(n)
    BY <2>1 DEF GenSound
  <2>5. state'[n] = "none" /\ Untouched(n)'
    BY <1>3, <2>4 DEF Reserve, recordVars, Untouched, InFlight, Underway
  <2>6. flight'[q].step # "idle" => flight'[q].gen = n /\ flight'[q].step = "starting"
    BY <1>3, <2>3 DEF Reserve
  <2> QED
    BY <1>2, <2>1, <2>2, <2>5, <2>6 DEF FlightSound
<1>4. CASE StartDriver(q) \/ FailStartup(q) \/ DeleteReservation(q)
  <2>1. g \in Gens /\ g <= generation' /\ owner'[g] = q
    BY <1>0, <1>4, OwnersStay DEF FlightSound, StartDriver, FailStartup, DeleteReservation
  <2>2. flight'[q].gen = g \/ flight'[q].step = "idle"
    BY <1>0, <1>4, NoFlightTyped DEF StartDriver, FailStartup, DeleteReservation, Goes, Ends,
       ProcessTypes, FlightType
  <2>3. CASE StartDriver(q)
    <3>1. state[g] = "none" /\ Untouched(g)
      BY <1>0, <2>3 DEF StartDriver, FlightSound
    <3>2. state'[g] = "none" /\ Untouched(g)'
      BY <2>3, <3>1 DEF StartDriver, recordVars, Untouched, InFlight, Underway
    <3>3. flight'[q].step = "discovering"
      BY <2>3 DEF StartDriver, Goes, ProcessTypes, FlightType
    <3> QED
      BY <1>2, <2>1, <2>2, <3>2, <3>3 DEF FlightSound
  <2>4. CASE FailStartup(q) \/ DeleteReservation(q)
    <3>1. flight'[q].step \in {"failing", "idle"}
      BY <2>4, NoFlightTyped DEF FailStartup, DeleteReservation, Goes, Ends, ProcessTypes,
         FlightType
    <3> QED
      BY <1>2, <2>1, <2>2, <3>1 DEF FlightSound
  <2> QED
    BY <1>4, <2>3, <2>4
<1>5. CASE Publish(q)
  <2>1. g \in Gens /\ g <= generation' /\ owner'[g] = q
    BY <1>0, <1>5, OwnersStay DEF FlightSound, Publish
  <2>2. Untouched(g)
    BY <1>0, <1>5 DEF FlightSound, Publish
  <2>3. flight'[q].gen = g /\ flight'[q].step \in {"published", "failing"}
    BY <1>0, <1>5 DEF Publish, Goes, ProcessTypes, FlightType
  <2>4. flight'[q].step = "published" => state'[g] = "starting" /\ Untouched(g)'
    BY <1>0, <1>5, <2>1, <2>2 DEF Publish, Goes, ProcessTypes, FlightType, Untouched, InFlight,
       Underway, RecordTypes
  <2> QED
    BY <2>1, <2>3, <2>4 DEF FlightSound
<1>6. CASE Activate(q) \/ Exit(q) \/ Crash(q)
  BY <1>2, <1>6, NoFlightTyped DEF Activate, Ends, Exit, Crash, Restart, ProcessTypes
<1>7. \/ flight'[q] = flight[q] \/ Reserve(q) \/ Startup(q) \/ FailStartup(q)
      \/ Exit(q) \/ Crash(q)
  BY ProcessSteps DEF Reserve, Startup, StartDriver, Publish, Activate, FailStartup,
     DeleteReservation, BeginShutdown, Close, Exit, Crash, Restart, Goes, Ends, ProcessTypes
<1> QED
  BY <1>1, <1>2, <1>3, <1>4, <1>5, <1>6, <1>7 DEF Startup

(* Who held a runtime holds it, or has left it; and a fenced owner stays   *)
(* fenced while somebody holds the runtime.                                *)
LEMMA HoldersMove ==
  ASSUME Inv, [Next]_vars, NEW g \in Gens, g <= generation,
         \A p \in Processes : owner[g] = p => ~(Exit(p) \/ Crash(p))
  PROVE  /\ Closing(g) => Closing(g)'
         /\ released[g] \subseteq released'[g]
         /\ holders[g] \subseteq holders'[g] \union released'[g] \/ Closing(g)'
         /\ state[g] = "self-fenced" /\ state'[g] # "self-fenced" =>
              holders'[g] = {} \/ Closing(g)'
<1> /\ RecordTypes /\ KeyTypes /\ ProcessTypes /\ GenSound(g)
    /\ \A p \in Processes : FlightSound(p)
  BY TypeParts DEF Inv
<1>0. owner'[g] = owner[g]
  BY OwnersStay
<1>1. Closing(g) => Closing(g)'
  <2>1. ASSUME NEW p \in Processes, owner[g] = p, down[p] = "closing" PROVE down'[p] = "closing"
    BY <2>1, ProcessSteps DEF Reserve, Startup, StartDriver, Publish, Activate, FailStartup,
       DeleteReservation, BeginShutdown, Close, Exit, Crash, Restart, ProcessTypes
  <2> QED
    BY <1>0, <2>1 DEF Closing
<1> DEFINE Goal == /\ released[g] \subseteq released'[g]
                   /\ holders[g] \subseteq holders'[g] \union released'[g] \/ Closing(g)'
                   /\ state[g] = "self-fenced" /\ state'[g] # "self-fenced" =>
                        holders'[g] = {} \/ Closing(g)'
<1> USE DEF RecordTypes
<1>2. ASSUME NEW p \in Processes, Publish(p) \/ Activate(p) \/ FailStartup(p) PROVE Goal
  BY <1>2 DEF Publish, Activate, FailStartup, FlightSound
<1>3. ASSUME NEW p \in Processes, Close(p) PROVE Goal
  <2>1. CASE owner[g] = p
    <3>1. Closing(g)'
      BY <1>0, <1>3, <2>1 DEF Close, Closing, ProcessTypes
    <3> QED
      BY <1>3, <3>1 DEF Close
  <2>2. CASE owner[g] # p
    BY <1>3, <2>2 DEF Close, Own
  <2> QED
    BY <2>1, <2>2
<1>4. ASSUME NEW p \in Processes, Exit(p) \/ Crash(p) PROVE Goal
  <2>1. Restart(p) /\ owner[g] # p
    BY <1>4, Zenon DEF Exit, Crash
  <2> QED
    BY <2>1 DEF Restart, Own
<1>5. ASSUME NEW k \in Gens,
             Dispose(k) \/ RenewAnswers(k) \/ BeginDrain(k) \/ Settle(k) \/ Overdue(k)
      PROVE  Goal
  BY <1>5 DEF Dispose, RenewAnswers, BeginDrain, Settle, Overdue, DrainFails, SelfFence
<1>6. ASSUME NEW k \in Gens, DeleteLease(k) PROVE Goal
  BY <1>6 DEF DeleteLease, DrainFails, SelfFence, GenSound
<1>7. ASSUME NEW k \in Gens, Maintain(k) PROVE Goal
  BY <1>7 DEF Maintain, Accepting, Removes, BeginRecordDrain
<1>8. ASSUME NEW k \in Gens, NEW h \in Holders, Retain(k, h) PROVE Goal
  BY <1>8 DEF Retain
<1>9. ASSUME NEW k \in Gens, NEW h \in Holders, RetireHolder(k, h) \/ Release(k, h) PROVE Goal
  BY <1>9 DEF RetireHolder, Release, Removes, BeginRecordDrain
<1>10. ASSUME NEW o \in Ops, Decide(o) PROVE Goal
  <2>1. /\ UNCHANGED <<holders, released>>
        /\ SelfFence(ops[o].gen) \/ UNCHANGED <<state, cleanup>>
    BY <1>10 DEF Decide
  <2> QED
    BY <2>1 DEF SelfFence
<1>11. ASSUME UNCHANGED recordVars PROVE Goal
  BY <1>11 DEF recordVars
<1> HIDE DEF RecordTypes, Goal
<1>12. ASSUME \E p \in Processes : \/ Publish(p) \/ Activate(p) \/ FailStartup(p)
                                   \/ Close(p) \/ Exit(p) \/ Crash(p)
       PROVE  Goal
  BY <1>2, <1>3, <1>4, <1>12
<1>13. ASSUME \E k \in Gens : Dispose(k) \/ Maintain(k) \/ RenewAnswers(k) \/ DrainStep(k)
       PROVE  Goal
  BY <1>5, <1>6, <1>7, <1>13 DEF DrainStep
<1>14. ASSUME \E k \in Gens, h \in Holders : Retain(k, h) \/ RetireHolder(k, h) \/ Release(k, h)
       PROVE  Goal
  BY <1>8, <1>9, <1>14
<1>15. Goal
  BY <1>10, <1>11, <1>12, <1>13, <1>14, RecordSteps
<1> QED
  BY <1>1, <1>15 DEF Goal

LEMMA OpKept ==
  ASSUME Inv, [Next]_vars, NEW o \in Ops
  PROVE  OpSound(o)'
<1> /\ RecordTypes /\ KeyTypes /\ OpTypes /\ OpSound(o) /\ generation \in Nat
    /\ \A g \in Gens : GenSound(g)
  BY TypeParts, GenerationsAssumption DEF Inv, KeyTypes
<1>0. PICK g, h : g = ops[o].gen /\ h = ops[o].holder
  OBVIOUS
<1>1. CASE ~Underway(o)' /\ ~ops'[o].crossed
  BY <1>1 DEF OpSound
<1>2. CASE /\ Underway(o) /\ ops'[o].gen = g /\ ops'[o].holder = h
           /\ ops'[o].crossed => /\ ops'[o].step = "running"
                                 /\ ops[o].crossed \/ state'[g] = "self-fenced"
           /\ \A p \in Processes : owner[g] = p => ~(Exit(p) \/ Crash(p))
  <2>1. g \in Gens /\ g <= generation /\ g <= generation'
    BY <1>0, <1>2, OwnersStay DEF OpSound
  <2>2. h \in holders[g] \union released[g] \/ Closing(g)
    BY <1>0, <1>2 DEF OpSound, Left
  <2>3. h \in holders'[g] \union released'[g] \/ Closing(g)'
    BY <1>2, <2>1, <2>2, HoldersMove
  <2>4. ops[o].crossed => \/ state'[g] = "self-fenced" \/ h \in released'[g] \/ Closing(g)'
    <3>1. ops[o].crossed => state[g] = "self-fenced" \/ h \in released[g] \/ Closing(g)
      BY <1>0 DEF OpSound, Left
    <3> QED
      BY <1>2, <2>1, <2>3, <3>1, HoldersMove
  <2>5. Closing(ops[o].gen)' <=> Closing(g)'
    BY <1>2 DEF Closing
  <2> QED
    BY <1>2, <2>1, <2>3, <2>4, <2>5 DEF OpSound, Left
<1>3. CASE ops'[o] = ops[o] /\ \A p \in Processes : owner[g] = p => ~(Exit(p) \/ Crash(p))
  <2>1. ops[o].crossed => ops[o].step = "running"
    BY DEF OpSound
  <2>2. CASE Underway(o)
    BY <1>0, <1>2, <1>3, <2>1, <2>2
  <2>3. CASE ~Underway(o)
    BY <1>1, <1>3, <2>1, <2>3 DEF Underway
  <2> QED
    BY <2>2, <2>3
<1>4. ASSUME NEW p \in Processes, Exit(p) \/ Crash(p) PROVE OpSound(o)'
  <2>1. Restart(p) /\ p # NoProcess
    BY <1>4, NoProcessAssumption, Zenon DEF Exit, Crash
  <2>2. ops'[o] = IF Underway(o) /\ g \in Own(p) THEN NoOp ELSE ops[o]
    BY <1>0, <2>1, Zenon DEF Restart
  <2>3. CASE owner[g] = p /\ Underway(o)
    <3>1. ops'[o] = NoOp
      BY <1>0, <2>2, <2>3 DEF Own, OpSound
    <3> QED
      BY <1>1, <3>1, NoOpTyped DEF Underway
  <2>4. CASE ~Underway(o)
    BY <1>1, <2>2, <2>4 DEF OpSound, Underway
  <2>5. CASE owner[g] # p /\ Underway(o)
    <3>1. ops'[o] = ops[o]
      BY <2>2, <2>5 DEF Own
    <3>2. ASSUME NEW q \in Processes, owner[g] = q PROVE ~(Exit(q) \/ Crash(q))
      <4> SUFFICES ASSUME Exit(q) \/ Crash(q) PROVE FALSE
        OBVIOUS
      <4>1. Restart(q)
        BY Zenon DEF Exit, Crash
      <4>2. ops'[o] = IF Underway(o) /\ g \in Own(q) THEN NoOp ELSE ops[o]
        BY <1>0, <4>1, Zenon DEF Restart
      <4>3. g \in Own(q)
        BY <1>0, <2>5, <3>2 DEF Own, OpSound
      <4> QED
        BY <2>5, <3>1, <4>2, <4>3, NoOpTyped DEF Underway
    <3> QED
      BY <1>3, <3>1, <3>2
  <2> QED
    BY <2>3, <2>4, <2>5
<1>5. ASSUME \A p \in Processes : ~(Exit(p) \/ Crash(p)),
             NEW k, SelfFence(k), k \in Gens \/ k = NoGen,
             ops'[o] = Crossed(k)[o]
      PROVE  OpSound(o)'
  <2>1. /\ ops'[o].step = ops[o].step /\ ops'[o].gen = g /\ ops'[o].holder = h
        /\ ops'[o].crossed <=>
             ops[o].crossed \/ (g = k /\ ops[o].step = "running" /\ state[k] # "closed")
    BY <1>0, <1>5, CrossedTyped DEF OpTypes
  <2>2. CASE Underway(o)
    <3>1. g \in Gens
      BY <1>0, <2>2 DEF OpSound
    <3>2. g = k /\ state[k] # "closed" => state'[g] = "self-fenced"
      BY <1>5, <3>1 DEF SelfFence, RecordTypes
    <3>3. ops[o].crossed => ops[o].step = "running"
      BY DEF OpSound
    <3> QED
      BY <1>2, <1>5, <2>1, <2>2, <3>2, <3>3
  <2>3. CASE ~Underway(o)
    BY <1>1, <2>1, <2>3 DEF OpSound, Underway
  <2> QED
    BY <2>2, <2>3
<1>6. ASSUME NEW k \in Gens, RenewAnswers(k) \/ BeginDrain(k) \/ DeleteLease(k),
             \A p \in Processes : ~(Exit(p) \/ Crash(p))
      PROVE  OpSound(o)'
  <2>1. UNCHANGED ops \/ (SelfFence(k) /\ ops' = Crossed(k))
    BY <1>6 DEF RenewAnswers, BeginDrain, DeleteLease, DrainFails
  <2> QED
    BY <1>3, <1>5, <1>6, <2>1
<1>7. ASSUME NEW u \in Ops, Read(u) \/ Finish(u) \/ Decide(u), u # o,
             \A p \in Processes : ~(Exit(p) \/ Crash(p))
      PROVE  OpSound(o)'
  <2>1. ops'[o] = ops[o] \/ (SelfFence(ops[u].gen) /\ ops'[o] = Crossed(ops[u].gen)[o])
    BY <1>7, CrossedTyped DEF Read, Finish, Decide, OpTypes
  <2>2. ops[u].gen \in Gens \/ ops[u].gen = NoGen
    BY DEF OpTypes, OpType
  <2> QED
    BY <1>3, <1>5, <1>7, <2>1, <2>2
<1>8. ASSUME Read(o) \/ Finish(o) \/ Decide(o), \A p \in Processes : ~(Exit(p) \/ Crash(p))
      PROVE  OpSound(o)'
  <2>1. CASE Read(o)
    <3>1. /\ Underway(o) /\ ops'[o].gen = g /\ ops'[o].holder = h
          /\ ops'[o].crossed = ops[o].crossed /\ ~ops[o].crossed
      BY <1>0, <2>1 DEF Read, Underway, OpTypes, OpType, OpSound
    <3> QED
      BY <1>2, <1>8, <3>1
  <2>2. CASE Finish(o)
    <3>1. ops'[o].step \in {"answered", "ambiguous"} /\ ~ops'[o].crossed
      BY <2>2 DEF Finish, Told, NoOp, OpTypes
    <3> QED
      BY <1>1, <3>1 DEF Underway
  <2>3. CASE Decide(o)
    <3>1. ops[o].step = "decide" /\ ~ops[o].crossed
      BY <2>3 DEF Decide, OpSound
    <3>2. \/ ops'[o] = NoOp
          \/ ops' = [ops EXCEPT ![o].step = "running", ![o].seen = "nothing"]
      BY <2>3, CrossedTyped DEF Decide, OpTypes
    <3>3. CASE ops'[o] = NoOp
      BY <1>1, <3>3, NoOpTyped DEF Underway
    <3>4. CASE ops' = [ops EXCEPT ![o].step = "running", ![o].seen = "nothing"]
      <4>1. Underway(o) /\ ops'[o].gen = g /\ ops'[o].holder = h /\ ~ops'[o].crossed
        BY <1>0, <3>1, <3>4 DEF Underway, OpTypes, OpType
      <4> QED
        BY <1>2, <1>8, <4>1
    <3> QED
      BY <3>2, <3>3, <3>4
  <2> QED
    BY <1>8, <2>1, <2>2, <2>3
<1>9. ASSUME NEW u \in Ops, NEW k \in Gens, NEW w \in Holders, Begin(u, k, w),
             \A p \in Processes : ~(Exit(p) \/ Crash(p))
      PROVE  OpSound(o)'
  <2>1. CASE u # o
    <3>1. ops'[o] = ops[o]
      BY <1>9, <2>1 DEF Begin, OpTypes
    <3> QED
      BY <1>3, <1>9, <3>1
  <2>2. CASE u = o
    <3>1. ops'[o].step = "read" /\ ops'[o].gen = k /\ ops'[o].holder = w /\ ~ops'[o].crossed
      BY <1>9, <2>2 DEF Begin, NoOp, OpTypes
    <3>2. k <= generation
      BY <1>9, GensNat DEF Begin, Accepting, GenSound
    <3>3. w \in holders'[k] /\ k <= generation'
      BY <1>9, <3>2 DEF Begin, recordVars, redis
    <3> QED
      BY <3>1, <3>3 DEF OpSound
  <2> QED
    BY <2>1, <2>2
<1>10. CASE UNCHANGED ops /\ \A p \in Processes : ~(Exit(p) \/ Crash(p))
  BY <1>3, <1>10
<1> QED
  BY <1>4, <1>6, <1>7, <1>8, <1>9, <1>10, OpSteps

LEMMA ReapKept ==
  ASSUME Inv, [Next]_vars
  PROVE  ReapSound'
<1> /\ KeyTypes /\ RestTypes /\ ReapSound /\ \A g \in Gens : GenSound(g)
    /\ generation \in Nat
  BY TypeParts, GenerationsAssumption DEF Inv, KeyTypes
<1>1. \/ lease'.gen = lease.gen /\ generation' = generation
      \/ lease'.gen = NoGen /\ generation' = generation
      \/ lease'.gen = generation + 1 /\ generation' = generation + 1
  <2>1. ASSUME NEW s \in {"ready", "draining"}, lease' = [lease EXCEPT !.state = s]
        PROVE  lease'.gen = lease.gen
    BY <2>1, LeaseState DEF KeyTypes
  <2> QED
    BY <2>1, KeySteps, NoLeaseTyped DEF Reserve, Number, Publish, DeleteReservation, BeginDrain,
       DeleteLease, LeaseExpires, AfterDelete, redis, KeyTypes
<1>2. \/ reaper' \in {reaper, NoGen}
      \/ \E g \in Gens : Examine(g) /\ reaper' = g
  BY ReconcilerSteps DEF Examine
<1>3. CASE reaper' \in {reaper, NoGen}
  BY <1>1, <1>3, GensNat DEF ReapSound, RestTypes
<1>4. ASSUME NEW g \in Gens, Examine(g), reaper' = g PROVE ReapSound'
  <2>1. g <= generation
    BY <1>4, GensNat DEF Examine, GenSound
  <2> QED
    BY <1>4, <2>1 DEF Examine, Matches, ReapSound, redis
<1> QED
  BY <1>2, <1>3, <1>4

LEMMA InitInv ==
  ASSUME Init
  PROVE  Inv
<1>1. TypeOK
  BY InitTypes
<1>2. \A g \in Gens : InFlight(g) = {}
  BY NoOpTyped DEF Init, InFlight, Underway
<1>3. \A g \in Gens : GenSound(g)
  BY <1>2 DEF Init, GenSound, Untouched
<1>4. \A p \in Processes : FlightSound(p)
  BY NoFlightTyped DEF Init, FlightSound
<1>5. \A o \in Ops : OpSound(o)
  BY NoOpTyped DEF Init, OpSound, Underway
<1>6. ReapSound
  BY DEF Init, ReapSound
<1> QED
  BY <1>1, <1>3, <1>4, <1>5, <1>6 DEF Inv

LEMMA TypesStep ==
  ASSUME TypeOK, [Next]_vars
  PROVE  TypeOK'
<1>1. RecordTypes' /\ KeyTypes' /\ ProcessTypes' /\ OpTypes' /\ RestTypes'
  BY RecordTypesKept, KeyTypesKept, ProcessTypesKept, OpTypesKept, RestTypesKept
<1> QED
  BY <1>1, Zenon DEF TypeOK, RecordTypes, KeyTypes, ProcessTypes, OpTypes, RestTypes, LeaseType

LEMMA InvInductive == Inv /\ [Next]_vars => Inv'
<1> SUFFICES ASSUME Inv, [Next]_vars PROVE Inv'
  OBVIOUS
<1>1. TypeOK'
  BY TypesStep DEF Inv
<1>2. (\A g \in Gens : GenSound(g))'
  BY GenKept
<1>3. (\A p \in Processes : FlightSound(p))'
  BY FlightKept
<1>4. (\A o \in Ops : OpSound(o))'
  BY OpKept
<1>5. ReapSound'
  BY ReapKept
<1> QED
  BY <1>1, <1>2, <1>3, <1>4, <1>5 DEF Inv

LEMMA InvHolds == Spec => []Inv
  BY InitInv, InvInductive, PTL DEF Spec

(* The types of the lease, the records and the operations; no lease and no *)
(* owner is ahead of the counter of reservations (reserve).                *)
THEOREM TypesHold == Spec => []TypeOK
<1>1. Inv => TypeOK
  BY DEF Inv
<1> QED
  BY <1>1, InvHolds, PTL

(* The reconciler never removes the server of the generation that holds    *)
(* the key: what it found unmatched stays so (matchesFenceByHash).         *)
THEOREM ReapIsSafe == Spec => []ReapsOnlyLost
<1>1. Inv => ReapsOnlyLost
  BY DEF Inv, ReapSound, ReapsOnlyLost
<1> QED
  BY <1>1, InvHolds, PTL

(* An operation may turn to running only by Decide.                        *)
LEMMA Starts ==
  ASSUME Inv, [Next]_vars, NEW o \in Ops, ops'[o].step = "running", ops[o].step # "running"
  PROVE  Decide(o) /\ Admits(o) /\ ops'[o].gen = ops[o].gen
<1> OpTypes
  BY TypeParts DEF Inv
<1>1. ASSUME NEW u \in Ops, Read(u) PROVE FALSE
  BY <1>1 DEF Read, OpTypes, OpType
<1>2. ASSUME NEW u \in Ops, Finish(u) PROVE FALSE
  BY <1>2 DEF Finish, Told, NoOp, OpTypes
<1>3. ASSUME NEW u \in Ops, NEW k \in Gens, NEW w \in Holders, Begin(u, k, w) PROVE FALSE
  BY <1>3 DEF Begin, NoOp, OpTypes
<1>4. ASSUME NEW p \in Processes, Exit(p) \/ Crash(p) PROVE FALSE
  <2>1. Restart(p)
    BY <1>4, Zenon DEF Exit, Crash
  <2>2. ops'[o] = NoOp \/ ops'[o] = ops[o]
    BY <2>1, Zenon DEF Restart
  <2> QED
    BY <2>2, NoOpTyped
<1>5. ASSUME NEW g \in Gens, RenewAnswers(g) \/ BeginDrain(g) \/ DeleteLease(g) PROVE FALSE
  <2>1. ops' = Crossed(g) \/ UNCHANGED ops
    BY <1>5 DEF RenewAnswers, BeginDrain, DeleteLease, DrainFails
  <2> QED
    BY <2>1, CrossedTyped DEF OpTypes
<1>6. ASSUME NEW u \in Ops, Decide(u) PROVE Decide(o) /\ Admits(o) /\ ops'[o].gen = ops[o].gen
  <2>1. \/ Admits(u) /\ ops' = [ops EXCEPT ![u].step = "running", ![u].seen = "nothing"]
        \/ ops' = [ops EXCEPT ![u] = NoOp]
        \/ ops' = [Crossed(ops[u].gen) EXCEPT ![u] = NoOp]
    BY <1>6, Zenon DEF Decide
  <2>2. CASE ops' = [ops EXCEPT ![u] = NoOp] \/ ops' = [Crossed(ops[u].gen) EXCEPT ![u] = NoOp]
    BY <2>2, NoOpTyped, CrossedTyped DEF OpTypes
  <2>3. CASE Admits(u) /\ ops' = [ops EXCEPT ![u].step = "running", ![u].seen = "nothing"]
    BY <1>6, <2>3 DEF OpTypes, OpType
  <2> QED
    BY <2>1, <2>2, <2>3
<1> QED
  BY <1>1, <1>2, <1>3, <1>4, <1>5, <1>6, OpSteps

(* No operation starts on a handle that is being disposed, though it may   *)
(* have been let in before the drain or the fence (dispatch asks again     *)
(* after the await); a drain that disposes before its deadline leaves none *)
(* running (settleBefore).                                                 *)
THEOREM DisposalIsLast == Spec => DisposedLast
<1>1. ASSUME Inv, [Next]_vars, NEW o \in Ops, NEW g, g = ops'[o].gen, ops'[o].step = "running"
      PROVE  (ops[o].step = "running" \/ cleanup[g] = "no") /\ drain'[g] # "dispose"
  <2>1. Inv'
    BY <1>1, InvInductive
  <2>2. g \in Gens /\ o \in InFlight(g)'
    BY <1>1, <2>1 DEF Inv, OpSound, Underway, InFlight
  <2>3. drain'[g] # "dispose"
    BY <2>1, <2>2 DEF Inv, GenSound
  <2>4. ops[o].step # "running" => cleanup[g] = "no"
    BY <1>1, <2>2, Starts DEF Admits, Accepting, Inv, GenSound
  <2> QED
    BY <2>3, <2>4
<1>2. Inv /\ [Next]_vars =>
        [\A o \in Ops : LET g == ops'[o].gen IN
           ops'[o].step = "running" =>
             /\ ops[o].step = "running" \/ cleanup[g] = "no"
             /\ drain'[g] # "dispose"]_vars
  BY <1>1
<1> QED
  BY <1>2, InvHolds, PTL DEF Spec, DisposedLast

(* An operation is answered only by Finish.                                *)
LEMMA Answers ==
  ASSUME Inv, [Next]_vars, NEW o \in Ops, ops'[o].step = "answered", ops[o].step # "answered"
  PROVE  state[ops[o].gen] # "self-fenced" /\ Underway(o)
<1> OpTypes
  BY TypeParts DEF Inv
<1>1. ASSUME NEW u \in Ops, Read(u) \/ Decide(u) PROVE FALSE
  BY <1>1, CrossedTyped, NoOpTyped DEF Read, Decide, OpTypes, OpType
<1>2. ASSUME NEW u \in Ops, Finish(u) PROVE state[ops[o].gen] # "self-fenced" /\ Underway(o)
  BY <1>2 DEF Finish, Told, NoOp, OpTypes, Underway
<1>3. ASSUME NEW u \in Ops, NEW k \in Gens, NEW w \in Holders, Begin(u, k, w) PROVE FALSE
  BY <1>3 DEF Begin, NoOp, OpTypes
<1>4. ASSUME NEW p \in Processes, Exit(p) \/ Crash(p) PROVE FALSE
  <2>1. Restart(p)
    BY <1>4, Zenon DEF Exit, Crash
  <2>2. ops'[o] = NoOp \/ ops'[o] = ops[o]
    BY <2>1, Zenon DEF Restart
  <2> QED
    BY <2>2, NoOpTyped
<1>5. ASSUME NEW g \in Gens, RenewAnswers(g) \/ BeginDrain(g) \/ DeleteLease(g) PROVE FALSE
  <2>1. ops' = Crossed(g) \/ UNCHANGED ops
    BY <1>5 DEF RenewAnswers, BeginDrain, DeleteLease, DrainFails
  <2> QED
    BY <2>1, CrossedTyped DEF OpTypes
<1> QED
  BY <1>1, <1>2, <1>3, <1>4, <1>5, OpSteps

(* An operation that was running when its owner fenced itself is reported  *)
(* as ambiguous (dispatch, McpRuntimeAmbiguousError), never as a result,   *)
(* as long as its caller holds the runtime and the worker is not closing.  *)
THEOREM LossIsReported == Spec => LossIsAmbiguous
<1>1. ASSUME Inv, [Next]_vars, NEW o \in Ops,
             ops[o].crossed, ops'[o].step = "answered", ops[o].step # "answered"
      PROVE  \/ ops[o].holder \in released[ops[o].gen]
             \/ down[owner[ops[o].gen]] = "closing"
  <2>1. state[ops[o].gen] # "self-fenced"
    BY <1>1, Answers
  <2>2. Left(o)
    BY <1>1, <2>1 DEF Inv, OpSound
  <2> QED
    BY <2>2 DEF Left, Closing
<1>2. Inv /\ [Next]_vars =>
        [\A o \in Ops :
           ops[o].crossed /\ ops'[o].step = "answered" /\ ops[o].step # "answered"
             => \/ ops[o].holder \in released[ops[o].gen]
                \/ down[owner[ops[o].gen]] = "closing"]_vars
  BY <1>1
<1> QED
  BY <1>2, InvHolds, PTL DEF Spec, LossIsAmbiguous
=============================================================================
