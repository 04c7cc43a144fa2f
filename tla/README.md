# Sentris: TLA+ models and proofs

Sentris runs security workflows. A user draws a graph of actions; the backend
compiles it, starts a Temporal workflow for every run, and a worker executes the
actions: containers, tools of MCP servers, questions to people, child workflows.
PostgreSQL holds what must survive, Temporal carries what takes long, Redis and
Kafka carry what may be repeated.

This directory models the parts of that program that decide something under
concurrency and failure: who runs, who wins, what is recorded, what is delivered
and what ends. Each part has a specification, small instances that TLC checks
exhaustively, and theorems that TLAPS proves for every value of the constants.
Paths below are relative to the repository.

Contents: [the system](#1-the-system) · [plan](#2-plan) ·
[modules](#3-modules-and-the-code) · [runs](#4-runs-bounds-and-what-they-show) ·
[fairness](#5-fairness) · [proofs](#6-proofs) ·
[disagreements](#7-where-the-code-and-its-words-disagree) ·
[what is not modelled](#8-what-is-abstracted-and-what-is-left-out)

To repeat a check: `tlc -config MCOutbox.cfg MCOutbox`, `tlapm OutboxProofs.tla`.
`PROJECT.json` lists the runs, the source lines of every definition (`map`), the
hazards with the properties that cover them, and for each property a mutant of
the model that breaks it. The mutated definitions stand in the modules, marked
`\* Mutant`; nothing else uses them.

## 1. The system

### 1.1 Parts that are modelled

**Workflow scheduler** (`worker/src/temporal/workflow-scheduler.ts`).
*State:* the pending actions, the ready queue, a record per action (parents still
awaited, skipped parents, whether its join was met, which failure woke it), the
unhandled errors, and per handler the failures that its success clears.
*Operations:* start everything that is ready as one batch; wait until all of it
has settled; handle the outcomes one by one in completion order: deliver to, or
skip, the children of a success, wake the error handlers of a failure, cancel or
skip its other descendants; return, throw the first failure, or throw a deadlock
error. *Hard:* outcomes of a batch come in any order; functions call each other
recursively over the graph, and an action is reached over several paths; an
action may be queued twice or go stale in the queue; the callback for a skipped
action is an activity that may fail in the middle of a propagation. *Correct
when:* an action runs only when its join is met and, for a handler, one of its
sources has failed; it is told the right cause; skips and cancellations are the
ones the join strategies call for; a run completes only if every failure was
handled; nothing is left over.

**Transactional outbox** (`backend/src/outbox`). *State:* rows of
`outbox_events` with status, attempts, lease owner and due time; in every backend
process a drain with its dispatches. *Operations:* enqueue within a business
transaction, claim a batch (`FOR UPDATE SKIP LOCKED`, the head of each aggregate
only), renew the lease by a heartbeat, hand the event to in-process listeners,
complete, reschedule or dead-letter it, requeue dead letters. *Hard:* several
processes; leases that run out under a live listener; crashes between any two
statements; updates whose answer is lost; transactions that commit out of the
order of their timestamps. *Correct when:* every event is delivered at least
once, in the order of its aggregate, only the owner of a lease settles it, and
none is left behind.

**Run lifecycle** (`backend/src/workflows`, `finalizeLifecycle` of
`worker/src/temporal/workflows/index.ts`). *State:* the row of `workflow_runs`
(Temporal run id, terminal status), the run count of the workflow, the
`run.status.terminal` event, the executions of the workflow id in Temporal, the
cursor of the terminal reconciler. *Operations:* prepare under an idempotency
key, start in Temporal or recover an execution that was started before, persist
it, report a terminal status from the worker, from a status query or from the
reconciler. *Hard:* the database and Temporal do not commit together; two
requests with one key; reports that are late, lost or different; runs that never
end fill the reconciler's page. *Correct when:* callers agree on one execution,
a run is counted once, its first terminal status is true and final, and every
started run is finalized.

**Human-input gates** (`backend/src/human-inputs`,
`worker/src/temporal/workflows/human-input-handler.ts`,
`activities/human-input.activity.ts`). *State:* request rows, the resolutions the
workflow keeps by node, the resolution event in the outbox. *Operations:* create
a request, wait for a signal or a timer, resolve from the UI or by a one-time
link, expire. *Hard:* several people answer at once; the timer races an answer;
the result of the creating activity is lost, and it runs again; the signal comes
before the gate waits, twice, or never, and a signal that fails is not tried
again. *Correct when:* one answer wins, the gate acts only on a committed answer of
its own, and an accepted answer whose signal did not fail arrives.

**Tool invocations** (`worker/src/temporal/mcp-operation-executor.ts`,
`workflows/tool-invocation-update-handler.ts`,
`activities/mcp-invocation.activity.ts`,
`backend/src/mcp-runtime/mcp-runtime.{service,repository}.ts`). *State:* rows of
`mcp_invocations` (prepared, dispatched, and five results), the Update handlers
of a workflow, the dispatch activity, the backend's calls in flight.
*Operations:* prepare, claim, run the tool, settle, reconcile, and the sweep at
the end of the run. *Hard:* Temporal gives an activity up that is still at work;
calls are served after their caller has gone; answers are lost; deadlines and
cancellation strike anywhere. *Correct when:* what is recorded as cancelled or not
dispatched never runs, a completed record is the tool's answer, a failed one never
hides a start whose end nobody knows, the caller is told what is recorded, results
are final and finalization ends.

**MCP runtime ownership** (`worker/src/mcp-runtime`). *State:* in Redis, per
runtime key, a lease with a fence (owner, epoch, generation) and a counter of
generations; in every worker the acquisitions in flight and a record per runtime
(starting, active, draining, self-fenced, closed) with its holders, its renewal,
its drain and the disposal of its handle. *Operations:* acquire (reserve, start
the server, discover, publish), retain and release, run an operation, renew,
self-fence, drain, shut down, and the reconciler that removes processes and
containers whose fence is no longer the key's. *Hard:* a lease runs out under an
owner that is paused; every check of Redis is stale when its answer arrives;
drains, renewals, releases, new acquisitions and the end of the worker overlap;
the reconciler looks at the inventory, the lease and the resource at different
times. *Correct when:* what holds the key is never reaped, nothing starts on a
handle that is being disposed, an operation that ran across the loss of its lease
is reported as ambiguous, and what was lost is removed.

**Finding triage projection** (`backend/src/findings`,
`backend/src/analytics/security-analytics.service.ts`). *State:* versioned triage
records in PostgreSQL, their projection events in the outbox, the copy in an
OpenSearch index with its completion watermark, the reconciler's cycle (cursor,
cutoff, failures). *Operations:* change a finding, project a version, rebuild the
index, compare and repair a page of records under a lock, complete a cycle,
answer a health check. *Hard:* changes are committed later than the time they
carry; events are parked, or completed although their listener failed; a cycle
spans batches and processes; the session that holds the lock dies unnoticed; the
health check reads three stores one by one. *Correct when:* an answer "available"
is true of every change that the listener projected or the last cycle had to see,
and the reconciler repairs whatever is missing.

**Notifications** (`backend/src/notifications`). *State:* a delivery row per
terminal event and channel (pending, sending, sent, failed, unknown), the
deliveries that operators create to send it again, the reservation that links
them, and the event in the outbox. *Operations:* find or create the row, claim
it, post to the channel, record the outcome; mark a stale row unknown; reserve a
resend, send it, resolve the row by its outcome and requeue the event. *Hard:*
dispatches of one event overlap; a process dies between the post and the record;
outcomes are written by id, whatever became of the row; two operators follow the
same resend. *Correct when:* a delivery is posted once more only for a failure
that was recorded or a person who decided it, and no row claims a success that no
post had.

How they meet: the scheduler runs inside the workflow whose end RunLifecycle
follows; a human-input action is one of its actions and waits as a gate; an
agent's or client's tool call is an Update of the same workflow, and
`finalizeLifecycle` waits for those Updates and sweeps their rows before the
terminal status is reported; the terminal status and the answers of gates leave
their transactions as outbox events, and listeners turn them into signals,
notifications, archives and follow-ups. Gates, triage and notifications are
modelled as clients of the outbox, by its contract, which ends where the event
library has called the listeners (section 3, Outbox). A tool call of an MCP server
runs in the worker that owns the server's lease.

### 1.2 Parts that are not modelled

| part | state and operations | why, and what comes |
|---|---|---|
| Telemetry ingest (`*-ingest.service.ts`, Kafka adapters) | receipts per event and consumer, poison records, purges, durable publications of the worker | plan 7 |
| Workflow wrapper (`workflow-runner.ts`, `for-each-*`, `sub-workflow-handler.ts`, `tool-mode-handler.ts`) | what one action does; loops, child workflows, tool servers | an outcome, to the scheduler; child runs are plan 3b |
| Operator (`backend/src/operator`) | turns and actions: approval, execution, cancellation, follow-up | plan 8; its MCP actions run the executor of McpInvocation |
| Agents (`durable-ai-agent-workflow.ts`, `backend/src/agents`) | the loop of model and tool calls | tool calls are McpInvocation's; the rest is the model's choice |
| Locks and caches in Redis | locks with a time to live that are bypassed when Redis is out | they promise nothing by themselves (`docs/architecture/adr-redis-state-externalization.md`) |
| Workflow definitions (`backend/src/dsl`) | compile and validate a graph | a pure function; its possible results are the scheduler's constant `Graphs` |
| MCP gateway and discovery | sessions, catalogues, one Update per client call | ends where McpInvocation starts |
| Triggers (`webhooks`, `schedules`) | start runs with an idempotency key | the callers of RunLifecycle |
| Traces and logs | append and stream | no decision of their own |
| Resource clean-up (`worker/src/utils`) | remove containers and volumes of runs that are over | effects in Docker; relies on what RunLifecycle shows of terminal statuses |
| Administration; frontend and packages | create, read, update, delete; user interface; schemas | data |

## 2. Plan

The order is that of the harm a mistake does: first what decides which actions
run, then what carries every consequence of a run, then the records that people
and other parts act on.

1. **WorkflowScheduler** with the abstract JoinContract — written; every safety
   property and the refinement of JoinContract proved.
2. **Outbox** with the abstract OrderedDelivery — written; order, the ownership of
   settlements and the refinement proved.
3. **RunLifecycle** — written; five theorems. Left: (3b) child runs and the race
   of their timeout.
4. **HumanInput**, composed with OrderedDelivery — written; four theorems.
5. **McpInvocation** — written; five theorems.
6. **McpRuntimeLease** — written; four theorems. Left: its composition with
   McpInvocation through acquire, execute and the fence that a settlement carries.
7. Clients of OrderedDelivery: **FindingProjection** — written; two theorems;
   **NotificationDelivery** — written; three theorems. Left: **TelemetryIngest**
   (one projection per receipt until the receipt is purged).
8. **OperatorTurn** — left: actions that are approved, executed and cancelled
   across three transactions, with the idempotency of the commands they repeat.

Composition: HumanInput, FindingProjection and NotificationDelivery use the outbox
by its contract: each is an INSTANCE of OrderedDelivery with its own events, and
what is shown of it holds for whatever implements that contract, as Outbox is
proved to. The scheduler, the lifecycle and the invocations interact at one point
each (the end of the body, the sweep before the verdict), which the models take
as a choice of the other side.

## 3. Modules and the code

Every component has a module with its state and actions, a `…Props` module with
its properties, an `MC…` module and configurations, and a `…Proofs` module. One
action is one atomic step of the program: a transaction or SQL statement, a
Temporal request, or a stretch of code between two awaits.

### WorkflowScheduler, JoinContract

The closures of `runWorkflowWithScheduler` call one another recursively; the
model keeps their loops as a stack of frames `work`, innermost first. A step is
one iteration of the top loop:

| action | code |
|---|---|
| `StartBatch` | take the queue, drop stale items, start the batch |
| `SettleOk`, `SettleRejected` | a `run(ref)` promise settles, with any choice of active ports |
| `HandleSuccess`, `HandleFailure`, `RethrowCancellation` | the loop over the settled batch in completion order |
| `ProcessChild` | `processChild` and `queueReadyIfSatisfiedByFailureState` |
| `HandleSkip`, `SkipCallbackFails` | `handleSkip`, and its callback that rejects |
| `MarkInactive` | `markInactiveFailureDependents` |
| `PropagateFailure`, `CancelChild` | `handleFailure`, breadth first |
| `ThrowDeadlock`, `Return` | the two ends of the main loop |

`graph` is chosen in `Init` and never changes, so one run of TLC covers every
graph of the instance. JoinContract states, without queues or batches, when an
action may run, be skipped or be dropped, and how a run may end; it has
*may*-guards, so that the implementation is free in its order.

The context of a handler names the last failure that woke it, and its success
clears every failure that did (lines 526-550 of the source). An action that
handles failures of two sources is therefore held to have handled both; the
model does the same, and JoinContract asks only that every failure have *some*
handler that succeeded.

### Outbox, OrderedDelivery

Time is a flag: a row is `due` when its `available_at` has passed or its lease
has run out. `Claim(w)` is the one statement of `claimBatch` for any set of
claimable rows; `Renew`, `ListenersSettle`, `Complete`, `Reschedule` are the
stages of one `dispatch()`; `Elapse`, `Crash` and the two requeues are the world.
A fault is a crash, a database error (whether or not the statement took effect)
or a stall in which a lease runs out under a live dispatch. `awaited` says
whether the drain of the process still waits for the dispatch: when one
`reschedule` rejects, `Promise.all` lets go of the others. `ListenersSettle` lets
`emitAsync` resolve or reject freely; an event without listeners is rejected by
`dispatch()` itself (`outbox-dispatcher.service.ts:114-136`).

*Delivered* means that `emitAsync` resolved, and nothing more. The listeners of
this repository are bound by `@OnEvent(…, { async: true })` without
`suppressErrors: false` (`human-input-signal.listener.ts:14`,
`finding-triage-projector.service.ts:33`, `notification-dispatcher.service.ts:52`;
`EventEmitterModule.forRoot()` at `app.module.ts:165`, `@nestjs/event-emitter`
3.0.1 in `bun.lock`). The library's source is not in the repository; by its
default it logs the error of such a listener and swallows it, so that
`emitAsync` resolves. The tests of the dispatcher use a bare `EventEmitter2` and do
not show this. Every client below is therefore modelled with the listener apart
from its event: the event may be completed before, after or without the listener's
effect, and what a client's properties say does not rest on a retry.

OrderedDelivery keeps an event's phase only. Its refinement mapping reads
`pending` and `processing` as queued, `dead` as parked, and an event as begun
once it was claimed. Order is promised relative to `before`: `created_at` is the
time a transaction *began*, so an event may become visible after a younger one
was delivered, and nothing can order it any more.

### RunLifecycle

`call` follows each request through `run()`: find, start, find again, describe,
persist, report; `execs` holds the executions of a workflow id in Temporal. A
start is refused only while an execution is open, which is Temporal's default and
what `startPreparedRun` leaves in force. `Finalize` is the one transaction that
the worker, the reconciler, recovery and the queries share. A candidate or a
report carries what was read when it was read, so all of them may be stale when
written. `NextCursor`, `Page` and `List` are the reconciler's paging, including
the return to the start.

### HumanInput

The database row, the gate in the workflow and the answer's way between them. The
outbox is an INSTANCE of OrderedDelivery in which each request is an aggregate of
its own, so what is shown holds for whatever implements that contract. `Dispatch`
starts the listener and `Settle` completes the event; `Signal` and `SignalFails` end
the listener's run at any time, independently, and after `SignalFails` the answer is
in `lost`: nobody sends it again unless the event is handed out once more. `look` is
what a resolver read before its transaction. `Expire` updates by id alone, as
the activity does. `IdToSpare` is the bound on request ids: it keeps one id free
for a repeated creation, so that the bound never blocks a gate that creates.

### McpInvocation

`handler` is the Update in the workflow, `act` the dispatch activity, `calls` the
requests on their way to the backend. `Serve(c)` serves a call whether or not its
caller still waits; `Lose` lets the caller fail while the call may yet be served;
`Respond` may lose the answer. The claim is two steps (`Check`, `Claim`) because
the service reads the invocation, its deadline and its authority before the
transaction that claims. `Reconciled` is the one rule for closing a row. What it
answers for a row that was never dispatched depends on the kind of invocation
(`operations`, chosen once): an MCP operation is closed as a remote failure, the
value that a tool's own failure has (`mcp-runtime.repository.ts:1498-1504`,
`mcp-operation-executor.ts:45-53`), a component tool as `not_run`, a failure with a
class of its own.
Some choices cover more than the code does: `GiveUp` lets Temporal give up any
dispatch activity, also a component's, which may have no heartbeat to miss; an
authority error of the claim is a call that fails. A prepared invocation is
dispatched by one activity, so the runtime fence that a settlement carries always
matches, and it is left out; McpRuntimeLease is about those fences.

### McpRuntimeLease

Runtime keys do not interact, so there is one. A fence is unique to its
generation, and the number stands for it; a worker that restarts has a new epoch
and never acts for its old generations. A Redis script is one step.

| action | code |
|---|---|
| `Reserve`, `StartDriver`, `Publish`, `Activate`, `FailStartup`, `DeleteReservation` | one acquisition of a process |
| `Retain`, `RetireHolder`, `Release` | the requests of holders, late, lost or repeated |
| `Maintain`, `RenewAnswers` | the maintenance timer and the renewal it starts |
| `Begin`, `Read`, `Decide`, `Finish` | an operation: admitted, the lease read, checked again after the await, answered |
| `BeginDrain`, `Settle`, `Overdue`, `DeleteLease` | `releaseOwned` |
| `BeginShutdown`, `Close`, `Exit`, `Crash` | the end of a worker |
| `Examine`, `Reap` | the reconciler |

`LeaseExpires` is free for a lease that nobody attends to. Under an owner that
renews, or a startup, which has less time than its lease by the schema of the
environment (`worker/src/config/env.schema.ts:173-184`), it takes a fault: the
owner or Redis stalled. `crossed` is history: the operation was running when its
owner fenced itself.

### FindingProjection

One organization. Version v of a finding is an event of the finding's aggregate
in OrderedDelivery. `Dispatch` hands it out; `HandleProjection` writes at any time
after that, more than once or never, and `Settle` completes the event whatever
became of it. `committed` (when a change was committed) and `projected` (what the
listener has written) are history, for the property. The reconciler's
batch is `locked` while its session holds the advisory lock; `LoseSession` makes
it an `orphan` that goes on while another process starts its own; it is explored
before any rebuild, after at most `MaxBeforeLoss` other incidents, and as the last
one. The lock is
released together with the last write of a batch: between the two, no other batch
could do more than skip. `ReadOutbox`, `ReadState` and `ReadWatermark` are the
reads of one health check, in either order of the two services that run at the
same time. A failing precondition ends the check, since it can no longer answer
"available". Of two changes at once one re-reads and begins anew, so only the one
that commits is modelled; a change that is rolled back leaves nothing behind. All
backends share one clock.

### NotificationDelivery

One terminal run and one channel, which is active and subscribed. Row 0 is the
delivery of the event; other numbers are resends, each inserted together with the
reservation in its parent's `error_message`. `Begin` hands the event out and lets
`emitAsync` resolve; `PassOver`, `MarkUnknown` and `Answered` end the dispatch and tell
the outbox nothing. A post to the channel is the time
between `Post` (the claim) and `Answered` (the record), and its outcome is a
choice: adapters give up after five seconds, so that a row that has been sending
for the ten minutes of `notifications.service.ts:34` has nobody at work on it,
unless a fault has stalled the process (`Stale`). `Record` writes by the id of the row
whatever its status is by then, as the code does. `RequeueEvent` is one
transaction over the event and the row.

## 4. Runs, bounds, and what they show

| run | instance | distinct states | properties |
|---|---|---|---|
| `scheduler` | all graphs of 4 actions, cancellation preserved | 307 k | TypeOK, StartSound, ContextNamesItsCause, FailuresAccountedFor, CancellationNotMasked, ImplementsJoinContract, Terminates |
| `outbox` | 2 events of an aggregate, 2 processes, 2 attempts, 2 faults, 1 requeue | 195 k | TypeOK, DeliveredInOrder, ImplementsOrderedDelivery, OnlyOwnerSettles, EventuallySettled |
| `run_start` | 1 run, 2 callers, 2 executions, 2 faults | 489 k | TypeOK, HandlesAgree, CountedOnce, Truthful, TerminalIsFinal |
| `run_live` | 2 runs, page of 1, 1 fault | 169 k | EventuallyFinalized |
| `human_input` | 2 gates (one timed), 2 requests, 2 resolvers, 1 fault | 712 k | TypeOK, OneWinner, AnswerCommitted, TimedOutIsExpired, AnswerArrives |
| `mcp_invocation` | an operation of an MCP runtime and one of a component (MCP operation or tool), 2 attempts, 1 fault | 968 k | TypeOK, DeclinedNeverRuns, ConfirmedMeansRan, ToldWhatIsRecorded, ResultIsFinal, FinalizationEnds |
| `mcp_runtime` | 1 worker, 2 generations, 1 holder, 1 operation, 1 fault | 183 k | TypeOK, ReapsOnlyLost, DisposedLast, LossIsAmbiguous, LostMeansGone |
| `finding_projection` | 1 finding, 2 versions, page of 1, 2 times, 2 incidents | 1.19 M | TypeOK, HealthIsTrue, Recovers |
| `notifications` | 2 dispatches, 2 operators, 1 resend, 3 posts per row, 2 faults | 1.78 M | TypeOK, RepeatNeedsGround, SentMeansConfirmed |

Three more runs end in a counterexample; see section 7.

Why the bounds are enough to be worth something:

* **Scheduler.** Four actions give two parents a common child with a successor,
  a failure with a handler and a join behind both, and every mix of edge kinds:
  all 729 labelings of the six forward pairs, each with every choice of join
  strategy. Acyclic graphs are all there are (the compiler rejects cycles) and
  the numbering is a topological order. Longer chains and
  larger graphs are covered by the theorems, which state every property of the
  run but Terminates. A *mixed join* is an any-join
  with an error edge; on those the scheduler may get stuck (section 7), so
  Terminates is stated without them. The other properties and the refinement are
  checked on every graph.
* **Outbox.** Two events of one aggregate are what it takes to overtake, two
  processes to take a lease over, two attempts to retry and to die, two faults to
  crash and then lose an answer, one requeue to bring a dead letter back. Events
  of different aggregates do not interact in the code except by sharing a batch,
  which two events of one aggregate never do: the run has no batch of two, and so
  no overlapping drains of one process. Those are covered by the theorems only
  (Refines, OnlyOwnerSettlesCorrect), which hold for any events and aggregates.
* **RunLifecycle.** Two callers race for one key; two executions of an id are
  what a repeated start makes; two faults let a process die after the start and
  another report get lost. For paging, a page of one with two runs puts one run
  behind another that is never finalized.
* **HumanInput.** Two gates show an answer at the wrong gate, two resolvers race,
  two request ids are an orphan and its successor. One fault is a lost activity
  result, a failed transaction, a signal that fails or an event that is parked.
* **McpInvocation.** Invocations interact only through the run's finalization, so
  two (of different kinds) suffice. One fault is a lost, late or failed call, a
  broken tool, a dead worker or a repeated sweep; deadlines, cancellation and
  termination are free.
* **McpRuntimeLease.** One worker that restarts competes with itself: everything
  its old generation left (a lease, a resource, a reaper's finding) meets the
  acquisition of the next, and no action of a second worker touches the first but
  through the lease and the counter. Callers use the first generation only. One
  fault is a crash, a shutdown, a stall or a failed call. Larger instances were
  checked without the liveness property, all clean: two workers (984 k states), two
  holders (558 k), two operations (1.1 M), two faults (424 k).
* **FindingProjection.** A page of one makes every cycle two batches. Two versions
  show an old event, or an old page, next to a new record; two times put a change
  before or after a cutoff. Incidents are a joint budget of failed calls,
  rebuilds, aborts and parked events, and of changes after a finding's first;
  a lost lock uses all that is left. `MaxBeforeLoss` is how many incidents a lost
  lock may follow: none in this run; with one (2.65 M states) all properties were
  checked as well. The inductive invariant of the proof (section 6) was checked on
  the instance of the run before it was proved.
* **NotificationDelivery.** Two dispatches overlap, two operators reserve and
  follow one resend, two faults lose an outcome and stall a process. Three posts are
  an original and two repetitions, which one ground would not justify.

Deadlock is checked in the runs of RunLifecycle, whose queries never stop.
The other systems may really stop: a scheduler that returned, an outbox whose
events are all settled, a run that is over, a key that is reserved for the last
time, an incident budget that is spent; their configurations say so.
Symmetry is used twice: in `run_start`, where callers are interchangeable and
nothing temporal but a step property is checked, and in `notifications`, where
dispatches and operators are and only invariants are checked.

## 5. Fairness

Liveness is checked under weak fairness only, of what somebody runs again and
again:

* *Scheduler:* workflow code runs when it can; every started action settles,
  because activities have timeouts in Temporal.
* *Outbox:* some process polls; listeners settle; leases run out when nobody
  renews them. Faults are bounded, that is, they stop; heartbeats, requeues and
  enqueueing are not fair. EventuallySettled allows an event to wait behind a
  dead letter, since only a person requeues it.
* *RunLifecycle:* the reconciler's timer fires and its requests are answered;
  Temporal carries each execution on. Bodies end (`BodyEnds` is part of
  `Execution`): a run that never ends is never final. Callers promise nothing,
  so a run that was prepared and never started stays as it is.
* *HumanInput:* Temporal carries the gates on; per request, the outbox dispatches
  and completes the event, and Temporal takes the signal while the run is open
  (`Signal`), unless that run of the listener fails. A failed signal is not repeated
  by anything fair. People, timers and cancellation are not fair.
* *McpInvocation:* deadlines pass (`Expire`), a cancelled or expired activity
  notices (`Abort`), the backend serves calls and the workflow goes on. Tools may
  be silent for ever (`Answers` is not fair): finalization ends because of the
  deadline. Starting, `Finalize` and termination are not fair.
* *McpRuntimeLease:* startups, renewals, drains and disposals are promises with
  timeouts of a live process (`WorkerStep`, `RecordStep`), and the timers of
  maintenance and of the reconciler fire. Callers promise nothing; leases need not
  run out.
* *FindingProjection:* the five-minute timer of some backend starts a batch and
  its calls return. That takes that the batches of the organizations before this
  one do not throw (section 7). The outbox and the people who triage promise
  nothing: Recovers holds without them.
* *NotificationDelivery* states no liveness: a failed delivery is posted again only
  if the event is handed out again by chance or a person sends it, and a row whose
  outcome is unknown waits for a person.

## 6. Proofs

All proofs are checked for arbitrary constants, under the named assumptions of the
modules (finitely many actions, runs, requests and findings; numbers where the
code has numbers; at least one attempt, version and row on a page; `Outbound
\subseteq Invocations`; a name for "nobody" that nobody has). The bounds that only
keep TLC's instances small (`MaxFaults`, `MaxExecutions`, `MaxRequeues`,
`MaxIncidents`, `MaxBeforeLoss` and the like) are arbitrary, some of them arbitrary
natural numbers: the theorems hold for any number of faults.

Every safety property of the passing runs is a theorem. Each proof has the same
shape: an invariant that says of everything the system has *in its hands* (a
queue, a call, an event, a page that was read) why it is true, a lemma that no
step takes the evidence for it away, and then, per action, only what the action
touches.

**WorkflowSchedulerProofs.** Six theorems, on every finite graph of any size, also
with mixed joins. *StartSoundCorrect*: an action starts only when its join is met
and, if it has error sources, one of them has failed. StartSound says nothing of
the queue and the stack, so it is not inductive. `StartInv`
(WorkflowSchedulerProps) adds what the algorithm relies on: what a pending
action's record says of its parents is true (`JoinProgress`, `ErrorTrue`); items
in the queue are of actions whose join and error edge are met (`ReadySound`);
every loop on the stack speaks of deliveries that happened (`FramesSound`); and a
join that can no longer be met is being skipped by the innermost loop
(`DeadIsSkipped`), which is why no later parent can queue it. The lemma `Monotone`
shows that what has been delivered or has failed stays so.

The other properties need more of the same kind, `ContractInv`: a parent that an
action no longer waits for has ended, and did what the action's record says it did
(`ParentsTrue`, `InactiveTrue`); every loop on the stack tells children what
happened to the action it is about, and skips only what may be skipped
(`FramesTrue`); recorded errors happened, and a handler clears errors of its own
sources only (`ErrorsTrue`); every cause in the queue is true (`CausesTrue`);
outcomes are handled when the whole batch has settled, and when none of it was
cancelled if cancellation is preserved (`HandlingQuiet`). `EndedForever` is the
lemma under all of it: what has ended keeps its outcome. From `SchedulerInv`,
which is both invariants, the types and CancellationNotMasked, follow
*ContextNamesItsCauseCorrect*, *FailuresAccountedForCorrect*,
*CancellationNotMaskedCorrect* and *TypeCorrect*, which includes that no parent of
an action is recorded as both outstanding and skipped (the counters of a record fit
each other). *JoinContractImplemented* is the
refinement: the steps that only move queues, loops and records leave the phases
alone (a stutter of JoinContract); the others are shown one by one to be the step
of the contract that their name says, whose guards are exactly what `ReadySound`,
`FramesTrue`, `Accounted` and `HandlingQuiet` give.

**OutboxProofs.** *TypeCorrect*; *InOrder*; *OnlyOwnerSettlesCorrect*; and
*Refines*: the outbox implements OrderedDelivery. The invariant `Inv` adds that a
dispatch is of a claimed event, that one that completes its event had its
listeners accept it, that what is not in the table was never claimed, and that
`before` names older events of the aggregate that are in the table. Order holds
although rows are requeued and leases run out, because the predecessors of a
claimed event are completed and nothing takes an event out of `completed`. That
only the owner settles follows from the types and the guarded update of a
settlement (`SettledByOwner`), also when its answer is lost. For the refinement
every action is shown to be a step of the contract or a stutter; a lost settlement
is a stutter or the step it would have been, as the database decided.

**RunLifecycleProofs.** *HandlesAgreeCorrect*, *CountedOnceCorrect*,
*TruthfulCorrect*, *TerminalIsFinalCorrect*, *TypeCorrect*. The invariant says of
every status on its way (in a call, in a report, in an event) that an execution of
the run came to it, and of every execution number that Temporal started it
(`Sound`). It is preserved because executions only grow: `Growth` shows that no
step takes evidence away. For the types, the cursor of the reconciler is the last
run of a page: a page is finite and, where the cursor is taken, not empty, so it
has a last one, which the proof gets from well-founded induction.

**HumanInputProofs.** *OneWinnerCorrect*, *AnswerCommittedCorrect*,
*TimedOutIsExpiredCorrect*, *TypeCorrect*. The invariant follows the answer from
the row to the event, to the signal and to the gate (`Recorded`, `Traced`);
`RowKept` is what no step does to a row, which is exactly what the unconditional
expiry leaves true: the status may change, the answer does not. For the types,
`GateShape` says in which combinations the fields of a gate occur.

**McpInvocationProofs.** *DeclinedNeverRunsCorrect*, *ConfirmedMeansRanCorrect*,
*ToldWhatIsRecordedCorrect*, *ResultIsFinalCorrect*, *TypeCorrect*. A step moves
one invocation at most. `Moves(i)` says how its row, its handler, its activity and
its calls may change together; `MoveKeeps` proves the invariant from `Moves`
alone, and every action is shown to be such a move. The invariant ties the tool to
the row (the tool is running only if the row is dispatched or beyond), a
settlement on its way to the answer the tool gave, and a handler that is done to a
row that is final or that nobody ever asked for. A failed record of an MCP operation
may be the tool's answer or stand for a tool that never ran, and the record does not
tell which; what ConfirmedMeansRan excludes is the third case, a tool that was
started and whose end nobody knows. For the types, `HandlerShape`
bounds the attempts and says that a handler has a result exactly when it is done.

**McpRuntimeLeaseProofs.** *TypesHold*, *ReapIsSafe*, *DisposalIsLast*,
*LossIsReported*, which says nothing of operations whose holder was released or
whose worker is closing (section 7). `Inv` is the types, of which the counter is a part that matters
(no lease is ahead of it, so a generation that was seen to have lost the key never
holds it again, `ReapSound`), and three facts: nothing has touched a generation
that is not yet reserved, an active record has neither drain nor disposal under
way, and a drain that disposes has no operation left (`GenSound`); what a flight
has built so far is the record of its own generation (`FlightSound`); and the
holder of an operation under way still holds the runtime, or has given it up or
been made to (`OpSound`), which is what keeps a drain from beginning unseen under
an operation that was marked as crossed.

**NotificationDeliveryProofs.** *TypeCorrect*, *RepeatNeedsGroundCorrect*,
*SentMeansConfirmedCorrect*. Whatever a step does to a row is shown to be a
`RowStep`, and what is claimed of rows is proved of `RowStep` alone. The
strengthening, `Budget`, says that a row that may be posted, or that is reserved and
may become so, has a ground for every post so far: a row becomes `failed` only by a
failure that is counted, and a reservation brings a ground that its resolution hands
on once. `Relies` is what an operator may assume of the row and the resend it has
read while others write them: a resend that exists stays, and a success that was
read was confirmed.

**FindingProjectionProofs.** *TypeCorrect* and *HealthIsTrueCorrect*: a health
check that answers "available" is right about every change that was committed when
it began, if it was committed before the cutoff of the watermark's cycle or its
listener has projected it, for any number of findings, versions and incidents and
any size of a page. HealthIsTrue compares three reads, made at different times, with
an index that many steps of many actors have built, and is far from inductive.
`HealthInv` follows a version from the event, and from the page of a cycle, to the
index. A version is `Due` for a cutoff when it was committed before it or projected
by its listener, and a finding is `Good` when the index has every version that is
due; that a version is due does not depend on its event, which may be completed over
a failure that nobody heard of.

* Only a rebuild takes something out of the index; what is good stays good (`Keeps`).
* A cycle that began on this index, or on the first one, and has had no failure has
  covered the findings it has passed; what changed after its cutoff needs the
  listener only (`CycleSound`). A page that was read lacks nothing behind the
  cursor, and the inspection has found whatever is old (`PageSound`, `InspectSound`).
  That rests on `FirstOfDue`: a page is the first `PageSize` of the findings that are
  due, and all of them if it is not full, which is how the code knows that a cycle
  is done. A cycle that is done has covered all (`EndSound`).
* The watermark vouches for such a cycle (`MarkSound`), and on the first index so
  does the state that was saved (`StateSound`).
* Unless a session was lost, cycles follow one another: one begins after the last one
  was saved (`Serial`). That is what makes the state that a check reads fit the
  watermark it reads later (`AskedSound`, `AnswerSound`).

A lost session is explored on the first index only, where every cycle began on the
index there is and `StateSound` takes the place of `Serial`. After a rebuild two
cycles that begin and end at the same millisecond on two processes could not be told
apart by the times a check compares; neither the run nor the theorem says anything
of that, nor of incidents after a lost session. The other exceptions of HealthIsTrue,
`Forgone` and `Witnessed`, are described in section 7.

**Only model-checked** is liveness: Terminates, EventuallySettled,
EventuallyFinalized, AnswerArrives, FinalizationEnds, LostMeansGone, Recovers. The
prover does not do fairness or ENABLED.

## 7. Where the code and its words disagree

Each of these is a run that ends in a counterexample.

* **`scheduler_stuck`.** An any-join with an error edge can be left in the queue
  by nobody: a parent delivers before the error source fails, the failure does
  not wake the join because another parent is outstanding, and when that parent
  ends the join counts as triggered already. The scheduler throws its deadlock
  error although the action may run (`workflow-scheduler.ts:557`; the comment at
  130-134 says that something is then being waited for).
* **`run_twice`.** A start that was accepted but not persisted is recovered only
  while the execution is open; once it has closed, the retry with the same
  idempotency key starts a second execution (`workflow-run.service.ts:252`).
  Callers still agree on one handle and the run is counted once; the effects of
  the body happen twice.
* **`human_input_expire`.** The expiry of a request is not conditional on its
  being pending: an answer that was accepted between the timer and the update is
  overwritten as expired (`human-input.activity.ts:178`). The answer itself is
  kept in the row, and the gate fails by its timeout all the same.

Further observations, made while modelling. The models behave as described and no
run is spent on them; some disagree with a text, which is then quoted.

* *Listeners of the outbox.* A listener that fails does not bring its event back: the
  event library logs the error and the event is completed (section 3, Outbox). For
  gates, an accepted answer whose one signal fails is lost without a dead letter,
  though the test at `human-input-signal.listener.spec.ts:43` is called "propagates
  Temporal failures so the outbox reschedules the event" (it shows that the handler
  rejects). AnswerArrives excepts this case; without the exception TLC finds it. For
  triage, a change that was committed after the cutoff of the last cycle and whose
  projection fails is not in the index while the health check answers "available",
  until the next cycle repairs it; HealthIsTrue excepts it (`Forgone`), and without
  the exception TLC finds it, though the record calls the outbox "the durability
  mechanism" (`docs/architecture/adr-findings-ownership-and-projection.md:54`). For
  notifications, the event is completed over a delivery that failed or whose
  outcome is unknown. No run is spent on this, because it rests on a default of a
  library whose source is not in the repository.
* *Outbox.* An event whose listener kills its process is claimed without end,
  since only a dispatch that survives compares attempts
  (`outbox-dispatcher.service.ts:137`). When a reschedule rejects, the drain ends
  while dispatches of its batch are running, and the next poll overlaps it
  (line 108; the test at line 212 of its spec says the dispatcher "does not
  overlap drains in the same backend process"). The lease is fenced by the process
  only, so a dispatch of the first drain may settle a later claim of the second;
  OnlyOwnerSettles holds at the level of processes.
* *RunLifecycle.* A run that was prepared but never started is listed by every
  pass of the reconciler for ever (`run-terminal-reconciler.service.ts:102`).
* *McpRuntimeLease.* `beginRecordDrain` does not look at the state: the release of
  the last holder turns a self-fenced record into a draining one, and an operation
  that finishes then is answered instead of ambiguous. The design
  (`docs/superpowers/specs/2026-07-31-mcp-runtime-temporal-agent-architecture-design.md:439-440`
  and `:601`) says that an owner whose renewal is lost marks outcomes in flight
  ambiguous, without an exception. LossIsAmbiguous excepts operations whose holder
  was released and workers that are closing: of those neither the run nor the theorem
  says anything.
* *McpInvocation.* An MCP operation that was declined or ran out of time before its
  dispatch is recorded as a remote failure, as a tool's own failure is
  (`mcp-runtime.repository.ts:1498-1504`): the record does not tell whether the tool
  ran. ConfirmedMeansRan allows both.
* *FindingProjection.* The watermark takes the UUID of the index as it is when the
  cycle ends, so an index that was rebuilt in the middle of a cycle is certified
  although its first pages were compared with its predecessor
  (`docs/architecture/adr-findings-ownership-and-projection.md:127-129` says that "a
  rebuilt projection cannot inherit stale health"). HealthIsTrue excepts that case by
  `Witnessed`; without the exception TLC finds it.
* *FindingProjection.* The reconciler takes the organizations in turn, and one that
  throws ends the pass for those behind it (`finding-triage-reconciler.service.ts:97`).
  A bulk triage that meets a 422 in the re-validation of a retry stops midway with
  its earlier changes committed.
* *NotificationDelivery.* The channel may get a notification twice. A slow attempt
  that fails writes `failed` over the `sent` that a manual resend has set in the
  meantime, and the event, if it is handed out again, posts once more; and a post
  whose outcome is unknown is repeated by the outbox once a resend of it has failed.
  RepeatNeedsGround allows both: a failure was recorded, or a person decided. A
  reservation that is made between the read of the row and `MarkUnknown` is
  overwritten (`notification-dispatcher.service.ts:128`; the test at line 367 of
  its spec, "does not clobber an active manual resend reservation during concurrent
  outbox recovery", only has a reservation that is there when the row is read).

## 8. What is abstracted, and what is left out

* **Data.** Payloads, outputs, error texts, audit records, metrics and log lines.
  Requests that do not match a prepared row (a conflict) and tenancy checks leave
  no state behind and are not modelled.
* **Time.** Due times, leases and deadlines are flags that become true; backoff
  has no length. A live heartbeat keeps its lease unless a fault stalls it.
* **Identity of transactions.** One SQL transaction is one step. Nothing is said
  about isolation within one; the statements modelled lock the row they decide on
  or carry their condition in the update.
* **Temporal** is external: an activity is run at least once while its attempts
  last, its result may be lost, timers fire, signals are taken while the workflow
  runs, Updates until it finalizes. Replay and versioning of workflow code are
  Temporal's own business.
* **Outbox.** The receipts, poison records and purges of the same repository
  belong to TelemetryIngest; `dedupe` is an event that is enqueued once.
* **RunLifecycle.** Child runs; runs without an organization, which the
  reconciler never lists; cancellation as a request (it is a verdict the body may
  come to).
* **HumanInput.** `cancelHumanInputRequestActivity` is registered and called by
  nobody, so requests of a run that ended stay pending; the model leaves them so.
* **McpInvocation.** Grants, snapshots and manifests; the runtime's fence. A row
  whose preparation is served after the sweep has begun stays open, as does
  every open row of a terminated run; no property says that all rows are closed.
* **McpRuntimeLease.** The router that finds the owner of a key, leases of
  version 1, `listOwned`, and the bounded list of completed releases.
* **FindingProjection.** Which status may follow which, the discovery of
  organizations, the integrity pass over documents.
* **NotificationDelivery.** Channels and their subscriptions, test messages, the
  audit log, the job that deletes resolved rows by age, and deliveries that no
  outbox event asks for.
