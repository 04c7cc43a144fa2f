--------------------------- MODULE McpRuntimeLease ---------------------------
(***************************************************************************)
(* Who runs the server of an MCP source (worker/src/mcp-runtime): the      *)
(* lease of one runtime key in Redis, the managers of the workers that     *)
(* compete for it, the operations they execute under it and the reconciler *)
(* that removes what a lost owner left behind.                             *)
(*                                                                         *)
(* Keys do not interact, so there is one.  Its reservations are numbered   *)
(* by leaseGeneration; a fence (runtime id, owner, epoch, generation) is   *)
(* unique to its generation, which therefore stands for it.  A worker that *)
(* restarts has a new epoch: nothing acts for its old generations.         *)
(*                                                                         *)
(* A Redis script is one step.  Leases run out when somebody let them, or, *)
(* under an owner that renews, by a fault (it stalled, or Redis did).      *)
(***************************************************************************)
EXTENDS Naturals

CONSTANTS
  Processes,       \* workers
  Holders,         \* callers that retain the runtime
  Ops,             \* operations they ask for
  NoProcess,       \* the owner of a generation that nobody has reserved
  NoHolder,        \* the holder of no operation
  MaxGenerations,  \* bound: how often the key is reserved
  Called,          \* bound: the generations that callers use
  MaxFaults        \* bound: crashes, shutdowns, stalls, failed calls

ASSUME GenerationsAssumption == MaxGenerations \in Nat
ASSUME FaultsAssumption == MaxFaults \in Nat
ASSUME NoProcessAssumption == NoProcess \notin Processes

Gens == 1 .. MaxGenerations
NoGen == 0

VARIABLES
  lease,       \* Redis: the generation that holds the key, and its state
  generation,  \* Redis: the counter of reservations
  owner,       \* per generation, the worker that reserved it
  flight,      \* per worker, its acquisition in progress
  down,        \* per worker: up, shutting (beginShutdown), closing (close)
  state,       \* per generation, the state of its owner's record
  holders,     \* per generation, who holds it
  released,    \* per generation, who must not hold it again
  renewing,    \* per generation, whether a renewal is under way
  drain,       \* per generation, the step of releaseOwned
  cleanup,     \* per generation, whether disposeRecord was started and ended
  resource,    \* per generation, its child process or container
  ops,         \* per operation, its step; what it crossed is history
  reaper,      \* the generation whose resource the reconciler is to reap
  faults

redis == <<lease, generation, owner>>
recordVars == <<state, holders, released, renewing, drain, cleanup>>
vars == <<redis, flight, down, recordVars, resource, ops, reaper, faults>>

NoLease == [gen |-> NoGen, state |-> "none"]
NoFlight == [step |-> "idle", gen |-> NoGen]
NoOp == [step |-> "idle", gen |-> NoGen, holder |-> NoHolder, seen |-> "nothing", crossed |-> FALSE]

Init ==
  /\ lease = NoLease
  /\ generation = 0
  /\ owner = [g \in Gens |-> NoProcess]
  /\ flight = [p \in Processes |-> NoFlight]
  /\ down = [p \in Processes |-> "up"]
  /\ state = [g \in Gens |-> "none"]
  /\ holders = [g \in Gens |-> {}]
  /\ released = [g \in Gens |-> {}]
  /\ renewing = [g \in Gens |-> FALSE]
  /\ drain = [g \in Gens |-> "none"]
  /\ cleanup = [g \in Gens |-> "no"]
  /\ resource = [g \in Gens |-> "none"]
  /\ ops = [o \in Ops |-> NoOp]
  /\ reaper = NoGen
  /\ faults = 0

Fault == faults < MaxFaults /\ faults' = faults + 1

Holds(g, states) == lease.gen = g /\ lease.state \in states

(* compareAndDelete.                                                       *)
AfterDelete(g) == IF lease.gen = g THEN NoLease ELSE lease

(***************************************************************************)
(* The record of a generation in its owner's memory.                       *)
(***************************************************************************)
Own(p) == {g \in Gens : owner[g] = p}

(* assertAccepting and assertRecordAccepting: accepting is set together    *)
(* with active, and cleared when that state is left or a shutdown begins.  *)
Accepting(g) == /\ state[g] = "active"
                /\ \A p \in Processes : owner[g] = p => down[p] = "up"

Underway(o) == ops[o].step \in {"read", "decide", "running"}
InFlight(g) == {o \in Ops : ops[o].gen = g /\ Underway(o)}
Idle(g, h) == h \in holders[g] /\ \A o \in InFlight(g) : ops[o].holder # h

(* cleanupFlight: the handle is disposed once.                             *)
Disposing(g) == [cleanup EXCEPT ![g] = IF @ = "no" THEN "running" ELSE @]

(* selfFence refuses new work, aborts the operations that run and disposes *)
(* the handle.  A record that was fenced or closed before stays as it is.  *)
SelfFence(g) ==
  IF state[g] \in {"self-fenced", "closed"}
    THEN UNCHANGED <<state, cleanup>>
    ELSE /\ state' = [state EXCEPT ![g] = "self-fenced"]
         /\ cleanup' = Disposing(g)

(* History: the operations that run while their owner fences itself.       *)
Crossed(g) ==
  [o \in Ops |-> [ops[o] EXCEPT !.crossed =
     @ \/ (ops[o].gen = g /\ ops[o].step = "running" /\ state[g] # "closed")]]

(* beginRecordDrain: one releaseFlight per record.                         *)
BeginRecordDrain(g) ==
  IF drain[g] # "none"
    THEN UNCHANGED <<state, drain>>
    ELSE /\ state' = [state EXCEPT ![g] = "draining"]
         /\ drain' = [drain EXCEPT ![g] = "begin"]

(***************************************************************************)
(* acquire: one flight per process.  One that finds the key taken returns  *)
(* the runtime, waits for it or fails, and changes nothing.                *)
(***************************************************************************)
Goes(p, step) == flight' = [flight EXCEPT ![p].step = step]
Ends(p) == flight' = [flight EXCEPT ![p] = NoFlight]

\* Mutant: the number is read before it is incremented.
NumberBefore == generation

(* The counter outlives the leases it numbers.                             *)
Number == generation + 1

Reserve(p) ==
  /\ flight[p].step = "idle" /\ down[p] = "up"
  /\ lease = NoLease /\ generation < MaxGenerations
  /\ generation' = generation + 1
  /\ lease' = [gen |-> Number, state |-> "starting"]
  /\ owner' = [owner EXCEPT ![generation + 1] = p]
  /\ \/ /\ flight' = [flight EXCEPT ![p] = [step |-> "starting", gen |-> Number]]
        /\ UNCHANGED faults
     \/ Fault /\ UNCHANGED flight
  /\ UNCHANGED <<down, recordVars, resource, ops, reaper>>

StartDriver(p) ==
  /\ flight[p].step = "starting"
  /\ resource' = [resource EXCEPT ![flight[p].gen] = "running"]
  /\ Goes(p, "discovering")
  /\ UNCHANGED <<redis, down, recordVars, ops, reaper, faults>>

(* After discovery the record is installed and then published: publishReady*)
(* serves only the generation that holds the key.                          *)
Publish(p) ==
  LET g == flight[p].gen IN
  /\ flight[p].step = "discovering"
  /\ \/ /\ Holds(g, {"starting"})
        /\ lease' = [lease EXCEPT !.state = "ready"]
        /\ Goes(p, "published")
        /\ state' = [state EXCEPT ![g] = "starting"]
        /\ UNCHANGED cleanup
     \/ /\ ~Holds(g, {"starting"})
        /\ Goes(p, "failing")
        /\ state' = [state EXCEPT ![g] = "closed"]
        /\ cleanup' = Disposing(g)
        /\ UNCHANGED lease
  /\ UNCHANGED <<generation, owner, down, holders, released, renewing, drain, resource, ops,
                 reaper, faults>>

Activate(p) ==
  /\ flight[p].step = "published" /\ down[p] = "up"
  /\ state' = [state EXCEPT ![flight[p].gen] = "active"]
  /\ Ends(p)
  /\ UNCHANGED <<redis, down, holders, released, renewing, drain, cleanup, resource, ops, reaper,
                 faults>>

(* The startup fails, times out, is abandoned by its waiters or by the     *)
(* shutdown, or the answer to publishReady is lost: what it has built is   *)
(* disposed.                                                               *)
FailStartup(p) ==
  LET g == flight[p].gen IN
  /\ flight[p].step \in {"starting", "discovering", "published"}
  /\ Goes(p, "failing")
  /\ state' = [state EXCEPT ![g] = IF @ = "none" THEN @ ELSE "closed"]
  /\ cleanup' = IF flight[p].step = "starting" THEN cleanup ELSE Disposing(g)
  /\ UNCHANGED <<redis, down, holders, released, renewing, drain, resource, ops, reaper, faults>>

(* Then the reservation is deleted; a failure to do so is ignored.         *)
DeleteReservation(p) ==
  LET g == flight[p].gen IN
  /\ flight[p].step = "failing" /\ cleanup[g] # "running"
  /\ \/ lease' = AfterDelete(g) /\ UNCHANGED faults
     \/ Fault /\ UNCHANGED lease
  /\ Ends(p)
  /\ UNCHANGED <<generation, owner, down, recordVars, resource, ops, reaper>>

(* The end of cleanupHandle, which may fail.                               *)
Dispose(g) ==
  /\ cleanup[g] = "running"
  /\ cleanup' = [cleanup EXCEPT ![g] = "done"]
  /\ \/ resource' = [resource EXCEPT ![g] = "gone"] /\ UNCHANGED faults
     \/ Fault /\ UNCHANGED resource
  /\ UNCHANGED <<redis, flight, down, state, holders, released, renewing, drain, ops, reaper>>

(***************************************************************************)
(* Holders.  Requests to the owner may be late, lost or repeated, so any   *)
(* of them may come at any time once the runtime can be reached.           *)
(***************************************************************************)
Retain(g, h) ==
  /\ g \in Called /\ Accepting(g)
  /\ h \notin released[g] /\ h \notin holders[g]
  /\ holders' = [holders EXCEPT ![g] = @ \union {h}]
  /\ UNCHANGED <<redis, flight, down, state, released, renewing, drain, cleanup, resource, ops,
                 reaper, faults>>

Removes(g, H) ==
  /\ holders' = [holders EXCEPT ![g] = @ \ H]
  /\ released' = [released EXCEPT ![g] = @ \union H]

(* A holder whose time is over is retired when it shows up.                *)
RetireHolder(g, h) ==
  /\ Accepting(g) /\ Idle(g, h)
  /\ Removes(g, {h})
  /\ IF holders[g] = {h} THEN BeginRecordDrain(g) ELSE UNCHANGED <<state, drain>>
  /\ UNCHANGED <<redis, flight, down, renewing, cleanup, resource, ops, reaper, faults>>

(* A release is taken in every state of the record, also before the retain *)
(* it belongs to.                                                          *)
Release(g, h) ==
  /\ \/ state[g] \in {"active", "draining", "self-fenced"}
     \/ state[g] = "starting" /\ Holds(g, {"ready"})
  /\ g \in Called /\ h \notin released[g]
  /\ Removes(g, {h})
  /\ IF holders[g] = {h} THEN BeginRecordDrain(g) ELSE UNCHANGED <<state, drain>>
  /\ UNCHANGED <<redis, flight, down, renewing, cleanup, resource, ops, reaper, faults>>

(* maintainOwnedRecord, by the timer: holders whose time is over are       *)
(* retired; a runtime that nobody holds drains, unless it may still wait   *)
(* for its first holder; else the lease is renewed.                        *)
Maintain(g) ==
  /\ Accepting(g)
  /\ \E H \in SUBSET {h \in holders[g] : Idle(g, h)} :
       /\ Removes(g, H)
       /\ \/ holders[g] = H /\ BeginRecordDrain(g) /\ UNCHANGED renewing
          \/ /\ holders[g] # H \/ H = {}
             /\ renewing' = [renewing EXCEPT ![g] = TRUE]
             /\ UNCHANGED <<state, drain>>
  /\ UNCHANGED <<redis, flight, down, cleanup, resource, ops, reaper, faults>>

\* Mutant: a lease that is not there counts as renewed.
RenewsAny(g) == g \in Gens

(* The renew script.                                                       *)
Renews(g) == Holds(g, {"ready"})

(* renewOwned: an owner that cannot confirm its lease fences itself, if it *)
(* has not begun to drain meanwhile.                                       *)
RenewAnswers(g) ==
  /\ renewing[g]
  /\ renewing' = [renewing EXCEPT ![g] = FALSE]
  /\ \/ Renews(g) /\ UNCHANGED <<state, cleanup, ops, faults>>
     \/ /\ IF Renews(g) THEN Fault ELSE UNCHANGED faults
        /\ IF state[g] = "draining"
             THEN UNCHANGED <<state, cleanup, ops>>
             ELSE SelfFence(g) /\ ops' = Crossed(g)
  /\ UNCHANGED <<redis, flight, down, holders, released, drain, resource, reaper>>

(***************************************************************************)
(* Operations: dispatch (invoke, read, getPrompt), discover and health.    *)
(***************************************************************************)
Begin(o, g, h) ==
  /\ ~Underway(o)
  /\ Accepting(g) /\ h \in holders[g]
  /\ ops' = [ops EXCEPT ![o] = [NoOp EXCEPT !.step = "read", !.gen = g, !.holder = h]]
  /\ UNCHANGED <<redis, flight, down, recordVars, resource, reaper, faults>>

(* assertLiveReady reads Redis; what comes back may be stale when taken.   *)
Read(o) ==
  LET g == ops[o].gen
      live == IF Holds(g, {"ready", "draining"}) THEN lease.state ELSE "lost" IN
  /\ ops[o].step = "read"
  /\ \E seen \in {live, "lost"} :
       /\ IF seen = live THEN UNCHANGED faults ELSE Fault
       /\ ops' = [ops EXCEPT ![o].step = "decide", ![o].seen = seen]
  /\ UNCHANGED <<redis, flight, down, recordVars, resource, reaper>>

\* Mutant: the record is not asked again after the await.
AdmitsAnyLive(o) == ops[o].seen = "ready"

(* What is checked again after the await.                                  *)
Admits(o) ==
  /\ ops[o].seen = "ready"
  /\ Accepting(ops[o].gen)
  /\ ops[o].holder \in holders[ops[o].gen]

(* The operation is dispatched, or served at once (discover, health), or   *)
(* refused; an owner that sees its lease lost fences itself.               *)
Decide(o) ==
  LET g == ops[o].gen
      lost == ops[o].seen = "lost" \/ (ops[o].seen = "draining" /\ state[g] # "draining") IN
  /\ ops[o].step = "decide"
  /\ \/ /\ Admits(o)
        /\ ops' = [ops EXCEPT ![o].step = "running", ![o].seen = "nothing"]
        /\ UNCHANGED <<state, cleanup>>
     \/ /\ ~lost
        /\ ops' = [ops EXCEPT ![o] = NoOp]
        /\ UNCHANGED <<state, cleanup>>
     \/ /\ lost
        /\ SelfFence(g)
        /\ ops' = [Crossed(g) EXCEPT ![o] = NoOp]
  /\ UNCHANGED <<redis, flight, down, holders, released, renewing, drain, resource, reaper,
                 faults>>

\* Mutant: only an operation that fails after the loss is told of it.
ToldAnswer(g) == "answered"

(* What the caller is told when the tool has answered or failed.           *)
Told(g) == IF state[g] = "self-fenced" THEN "ambiguous" ELSE "answered"

Finish(o) ==
  /\ ops[o].step = "running"
  /\ ops' = [ops EXCEPT ![o] = [NoOp EXCEPT !.step = Told(ops[o].gen)]]
  /\ UNCHANGED <<redis, flight, down, recordVars, resource, reaper, faults>>

(***************************************************************************)
(* releaseOwned: beginDrain, wait for the operations, dispose, delete.     *)
(***************************************************************************)
DrainTo(g, step) == drain' = [drain EXCEPT ![g] = step]

(* The fence is lost, or could not be confirmed.                           *)
DrainFails(g) ==
  /\ DrainTo(g, "done")
  /\ SelfFence(g)
  /\ ops' = Crossed(g)

BeginDrain(g) ==
  /\ drain[g] = "begin"
  /\ \/ /\ Holds(g, {"ready", "draining"})
        /\ lease' = [lease EXCEPT !.state = "draining"]
        /\ \/ DrainTo(g, "settle") /\ UNCHANGED <<state, cleanup, ops, faults>>
           \/ Fault /\ DrainFails(g)
     \/ ~Holds(g, {"ready", "draining"}) /\ DrainFails(g) /\ UNCHANGED <<lease, faults>>
  /\ UNCHANGED <<generation, owner, flight, down, holders, released, renewing, resource, reaper>>

(* settleBefore waits for the operations in progress when it is called;    *)
(* none is let in later.                                                   *)
Settle(g) ==
  /\ drain[g] = "settle" /\ InFlight(g) = {}
  /\ DrainTo(g, "dispose")
  /\ cleanup' = Disposing(g)
  /\ UNCHANGED <<redis, flight, down, state, holders, released, renewing, resource, ops, reaper,
                 faults>>

(* The drain's deadline, which is not after the end of the lease: what is  *)
(* running is aborted and no longer waited for.                            *)
Overdue(g) ==
  /\ drain[g] \in {"settle", "dispose"}
  /\ DrainTo(g, "overdue")
  /\ cleanup' = Disposing(g)
  /\ UNCHANGED <<redis, flight, down, state, holders, released, renewing, resource, ops, reaper,
                 faults>>

DeleteLease(g) ==
  /\ drain[g] = "overdue" \/ (drain[g] = "dispose" /\ cleanup[g] = "done")
  /\ lease' = AfterDelete(g)
  /\ \/ /\ lease.gen = g
        /\ DrainTo(g, "done")
        /\ state' = [state EXCEPT ![g] = "closed"]
        /\ UNCHANGED <<cleanup, ops, faults>>
     \/ /\ IF lease.gen = g THEN Fault ELSE UNCHANGED faults
        /\ DrainFails(g)
  /\ UNCHANGED <<generation, owner, flight, down, holders, released, renewing, resource, reaper>>

(***************************************************************************)
(* The end of a worker.                                                    *)
(***************************************************************************)
BeginShutdown(p) ==
  /\ down[p] = "up"
  /\ Fault
  /\ down' = [down EXCEPT ![p] = "shutting"]
  /\ UNCHANGED <<redis, flight, recordVars, resource, ops, reaper>>

(* closeOwnedRuntimes, once the acquisitions have settled: forceRelease.   *)
Close(p) ==
  LET forced == {g \in Own(p) : state[g] \in {"active", "draining"} /\ drain[g] = "none"} IN
  /\ down[p] = "shutting" /\ flight[p].step = "idle"
  /\ down' = [down EXCEPT ![p] = "closing"]
  /\ holders' = [g \in Gens |-> IF g \in forced THEN {} ELSE holders[g]]
  /\ state' = [g \in Gens |-> IF g \in forced THEN "draining" ELSE state[g]]
  /\ drain' = [g \in Gens |-> IF g \in forced THEN "begin" ELSE drain[g]]
  /\ UNCHANGED <<redis, flight, released, renewing, cleanup, resource, ops, reaper, faults>>

(* The process is gone and another takes its place.  Records, flights and  *)
(* answers under way are gone with it; what it started may be left.        *)
Restart(p) ==
  /\ down' = [down EXCEPT ![p] = "up"]
  /\ flight' = [flight EXCEPT ![p] = NoFlight]
  /\ state' = [g \in Gens |-> IF g \in Own(p) THEN "none" ELSE state[g]]
  /\ holders' = [g \in Gens |-> IF g \in Own(p) THEN {} ELSE holders[g]]
  /\ released' = [g \in Gens |-> IF g \in Own(p) THEN {} ELSE released[g]]
  /\ renewing' = [g \in Gens |-> renewing[g] /\ g \notin Own(p)]
  /\ drain' = [g \in Gens |-> IF g \in Own(p) THEN "done" ELSE drain[g]]
  /\ cleanup' = [g \in Gens |-> IF g \in Own(p) THEN "done" ELSE cleanup[g]]
  /\ ops' = [o \in Ops |-> IF Underway(o) /\ ops[o].gen \in Own(p) THEN NoOp ELSE ops[o]]
  /\ UNCHANGED <<redis, resource>>

Crash(p) ==
  /\ Fault
  /\ Restart(p)
  /\ reaper' \in {reaper, NoGen}

(* close() has ended: every release has, and what was left is disposed.    *)
Exit(p) ==
  /\ down[p] = "closing"
  /\ \A g \in Own(p) : drain[g] \in {"none", "done"} /\ cleanup[g] # "running"
  /\ Restart(p)
  /\ UNCHANGED <<reaper, faults>>

(***************************************************************************)
(* The reconciler, of any worker.                                          *)
(***************************************************************************)
\* Mutant: a runtime that is still starting does not count.
MatchesReady(g) == lease.gen = g /\ lease.state # "starting"

(* matchesFenceByHash.                                                     *)
Matches(g) == lease.gen = g

(* A resource in the inventory whose fence does not match, read twice; the *)
(* second answer decides.                                                  *)
Examine(g) ==
  /\ reaper = NoGen /\ resource[g] = "running"
  /\ ~Matches(g)
  /\ reaper' = g
  /\ UNCHANGED <<redis, flight, down, recordVars, resource, ops, faults>>

Reap ==
  /\ reaper # NoGen
  /\ \/ resource' = [resource EXCEPT ![reaper] = "gone"] /\ UNCHANGED faults
     \/ Fault /\ UNCHANGED resource
  /\ reaper' = NoGen
  /\ UNCHANGED <<redis, flight, down, recordVars, ops>>

(* A startup has less time than its lease (env.schema), and who accepts,   *)
(* renews.                                                                 *)
Attended(g) ==
  \/ Accepting(g)
  \/ \E p \in Processes : flight[p].gen = g /\ flight[p].step # "failing"

(* The time to live of the lease.                                          *)
LeaseExpires ==
  /\ lease # NoLease
  /\ lease' = NoLease
  /\ IF Attended(lease.gen) THEN Fault ELSE UNCHANGED faults
  /\ UNCHANGED <<generation, owner, flight, down, recordVars, resource, ops, reaper>>

Startup(p) == StartDriver(p) \/ Publish(p) \/ Activate(p) \/ DeleteReservation(p)

DrainStep(g) == BeginDrain(g) \/ Settle(g) \/ Overdue(g) \/ DeleteLease(g)

Reconcile == (\E g \in Gens : Examine(g)) \/ Reap

Next ==
  \/ \E p \in Processes :
       \/ Reserve(p) \/ Startup(p) \/ FailStartup(p)
       \/ BeginShutdown(p) \/ Close(p) \/ Exit(p) \/ Crash(p)
  \/ \E g \in Gens :
       \/ Dispose(g) \/ Maintain(g) \/ RenewAnswers(g) \/ DrainStep(g)
       \/ \E h \in Holders : Retain(g, h) \/ RetireHolder(g, h) \/ Release(g, h)
  \/ \E o \in Ops :
       \/ Read(o) \/ Decide(o) \/ Finish(o)
       \/ \E g \in Gens, h \in Holders : Begin(o, g, h)
  \/ Reconcile
  \/ LeaseExpires

Spec == Init /\ [][Next]_vars

(* Startups, renewals, drains and clean-ups are promises with timeouts of  *)
(* a live process, and the timers of maintenance and reconciliation fire.  *)
(* Nothing is promised of callers.                                         *)
WorkerStep(p) == Startup(p) \/ FailStartup(p) \/ Close(p) \/ Exit(p)

RecordStep(g) == Maintain(g) \/ RenewAnswers(g) \/ DrainStep(g) \/ Dispose(g)

FairSpec ==
  /\ Spec
  /\ \A p \in Processes : WF_vars(WorkerStep(p))
  /\ \A g \in Gens : WF_vars(RecordStep(g))
  /\ WF_vars(Reconcile)
==============================================================================
