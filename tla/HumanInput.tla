------------------------------ MODULE HumanInput ------------------------------
(***************************************************************************)
(* Human-input gates of one run: the requests in the database, the gates   *)
(* of the workflow that create them and wait, the people who resolve them  *)
(* in the UI or by a link, and the answer on its way to the workflow       *)
(* through the outbox and a Temporal signal                                *)
(* (backend/src/human-inputs, worker/src/temporal/workflows/               *)
(* human-input-handler.ts).                                                *)
(*                                                                         *)
(* The outbox is used by its contract, OrderedDelivery: the resolution of  *)
(* request q is the event q of an aggregate of its own.  The listener's    *)
(* work is apart from its event: HumanInputSignalListener.handle is bound  *)
(* by @OnEvent without suppressErrors, so the event library logs its error *)
(* and emitAsync resolves; the event is completed before, after or without *)
(* the signal.                                                             *)
(***************************************************************************)
EXTENDS Naturals, FiniteSets

CONSTANTS
  Gates,      \* human-input nodes of the run
  Timed,      \* the gates that time out
  Requests,   \* bound: request ids, a set of numbers
  Resolvers,  \* people who resolve requests at the same time
  MaxFaults   \* bound: lost activity results, failed signals, lost leases

ASSUME TimedAssumption == Timed \subseteq Gates
ASSUME RequestsAssumption == Requests \subseteq Nat \ {0} /\ IsFiniteSet(Requests)
ASSUME MaxFaultsAssumption == MaxFaults \in Nat

Answers   == {"approved", "rejected"}
None      == "none"   \* no answer, no gate
NoRequest == 0

VARIABLES
  request,     \* human_input_requests: status, the gate, the answer
  payload,     \* per request, the answer in its resolution event
  gate,        \* per gate, its step, the request it created, its answer
  resolution,  \* humanInputResolutions of the workflow, by gate
  look,        \* per resolver, the pending request it read and its answer
  accepted,    \* history: the resolutions that were committed
  sending,     \* resolutions for which the listener is at work
  lost,        \* history: resolutions whose signal failed while the workflow ran
  open,        \* the workflow is running
  faults,      \* faults so far
  phase, before, begun, delivered   \* the outbox

outbox == <<phase, before, begun, delivered>>
listener == <<sending, lost>>
vars == <<request, payload, gate, resolution, look, accepted, open, faults, listener, outbox>>

Outbox == INSTANCE OrderedDelivery WITH
  Events <- Requests, AggregateOf <- [q \in Requests |-> q]

NoLook == [req |-> NoRequest, answer |-> None]

Init ==
  /\ request = [q \in Requests |-> [status |-> "absent", gate |-> None, answer |-> None]]
  /\ payload = [q \in Requests |-> None]
  /\ gate = [g \in Gates |-> [step |-> "idle", req |-> NoRequest, answer |-> None]]
  /\ resolution = [g \in Gates |-> None]
  /\ look = [c \in Resolvers |-> NoLook]
  /\ accepted = {}
  /\ sending = {}
  /\ lost = {}
  /\ open = TRUE
  /\ faults = 0
  /\ Outbox!Init

NoFault == UNCHANGED faults

Fault ==
  /\ faults < MaxFaults
  /\ faults' = faults + 1

(***************************************************************************)
(* The gate in the workflow: handleHumanInput.                             *)
(***************************************************************************)
gateVars == <<payload, resolution, look, accepted, open, listener, outbox>>

At(g, step) == open /\ gate[g].step = step

Unused == {q \in Requests : request[q].status = "absent"}

(* bound: there is an id for every gate that creates, and one more.        *)
IdToSpare == Cardinality(Unused) > Cardinality({g \in Gates : gate[g].step = "creating"})

(* The node's component asks for a human input.                            *)
Reach(g) ==
  /\ At(g, "idle")
  /\ IdToSpare
  /\ gate' = [gate EXCEPT ![g].step = "creating"]
  /\ UNCHANGED <<gateVars, request, faults>>

\* Mutant: the gate does not keep the id of its request.
Forgotten(g, q) == [step |-> "waiting", req |-> NoRequest, answer |-> None]

Waiting(g, q) == [step |-> "waiting", req |-> q, answer |-> None]

(* createHumanInputRequestActivity inserts a row under a new id.  When its *)
(* result is lost Temporal runs it again.                                  *)
CreateRequest(g) ==
  /\ At(g, "creating")
  /\ \E q \in Unused :
       /\ request' = [request EXCEPT ![q] = [status |-> "pending", gate |-> g, answer |-> None]]
       /\ \/ NoFault /\ gate' = [gate EXCEPT ![g] = Waiting(g, q)]
          \/ Fault /\ IdToSpare /\ UNCHANGED gate
  /\ UNCHANGED gateVars

(* A resolution is there, from before the wait or by a signal.             *)
Resume(g) ==
  /\ At(g, "waiting")
  /\ resolution[g] # None
  /\ gate' = [gate EXCEPT ![g].step = "answered", ![g].answer = resolution[g]]
  /\ UNCHANGED <<gateVars, request, faults>>

(* The timer fires first.                                                  *)
Timeout(g) ==
  /\ g \in Timed
  /\ At(g, "waiting")
  /\ resolution[g] = None
  /\ gate' = [gate EXCEPT ![g].step = "expiring"]
  /\ UNCHANGED <<gateVars, request, faults>>

(* expireHumanInputRequestActivity, and the TimeoutError of the node: the  *)
(* update names the request and nothing else.                              *)
Expire(g) ==
  /\ At(g, "expiring")
  /\ request' = [request EXCEPT ![gate[g].req].status = "expired"]
  /\ gate' = [gate EXCEPT ![g].step = "failed"]
  /\ UNCHANGED <<gateVars, faults>>

(* The run is cancelled, terminated or over: its gates are abandoned and   *)
(* their requests stay as they are.                                        *)
RunEnds ==
  /\ open
  /\ open' = FALSE
  /\ UNCHANGED <<request, payload, gate, resolution, look, accepted, faults, listener, outbox>>

(***************************************************************************)
(* Resolving a request: resolve and resolveByToken.                        *)
(***************************************************************************)

(* The first read: a request that is not pending is refused.               *)
Look(c, q, a) ==
  /\ look[c] = NoLook
  /\ request[q].status = "pending"
  /\ look' = [look EXCEPT ![c] = [req |-> q, answer |-> a]]
  /\ UNCHANGED <<request, payload, gate, resolution, accepted, open, faults, listener, outbox>>

\* Mutant: the update relies on the first read.
AnyStatus(q) == TRUE

(* The update's condition.                                                 *)
StillPending(q) == request[q].status = "pending"

(* The event of a request is inserted once, by its dedupe key.             *)
Queued(q) == IF phase[q] = "absent" THEN Outbox!Enqueue(q) ELSE UNCHANGED outbox

(* The transaction: the row, its audit record and its resolution event, or *)
(* none of them when the request is no longer pending or the database      *)
(* fails.                                                                  *)
Resolve(c) ==
  LET q == look[c].req
      a == look[c].answer
  IN  /\ q # NoRequest
      /\ look' = [look EXCEPT ![c] = NoLook]
      /\ \/ /\ NoFault /\ StillPending(q)
            /\ request' = [request EXCEPT ![q].status = "resolved", ![q].answer = a]
            /\ payload' = IF phase[q] = "absent" THEN [payload EXCEPT ![q] = a] ELSE payload
            /\ accepted' = accepted \union {<<q, c, a>>}
            /\ Queued(q)
         \/ /\ (NoFault /\ ~StillPending(q)) \/ Fault
            /\ UNCHANGED <<request, payload, accepted, outbox>>
      /\ UNCHANGED <<gate, resolution, open, listener>>

(***************************************************************************)
(* The resolution event: HumanInputSignalListener, and the signal handler  *)
(* of the workflow.                                                        *)
(***************************************************************************)
signalVars == <<request, payload, gate, look, accepted, open>>

(* A dispatch, the first or one after a lost lease, hands the event to the *)
(* listener.  emitAsync resolves whatever becomes of the listener's run.   *)
Dispatch(q) ==
  /\ Outbox!Begin(q)
  /\ q \notin sending
  /\ begun' = begun \union {q}
  /\ delivered' = delivered \union {q}
  /\ sending' = sending \union {q}
  /\ UNCHANGED <<signalVars, resolution, lost, phase, before, faults>>

\* Mutant: a signal that nobody waits for is dropped.
HeardIfWaiting(q) ==
  IF gate[request[q].gate].step = "waiting"
    THEN [resolution EXCEPT ![request[q].gate] = payload[q]]
    ELSE resolution

\* Mutant: the answer is kept for every gate that is waiting.
HeardElsewhere(q) == [g \in Gates |-> payload[q]]

(* The signal handler keeps the last resolution of the node.               *)
Heard(q) == [resolution EXCEPT ![request[q].gate] = payload[q]]

(* Temporal takes the signal while the workflow runs.                      *)
Signal(q) ==
  /\ open
  /\ q \in sending
  /\ resolution' = Heard(q)
  /\ sending' = sending \ {q}
  /\ UNCHANGED <<signalVars, lost, outbox, faults>>

(* The signal fails, because the workflow is over or Temporal is out, or   *)
(* the process dies.  Nobody hears of the error.                           *)
SignalFails(q) ==
  /\ q \in sending
  /\ sending' = sending \ {q}
  /\ \/ open /\ Fault /\ lost' = lost \union {q}
     \/ ~open /\ NoFault /\ UNCHANGED lost
  /\ UNCHANGED <<signalVars, resolution, outbox>>

Settle(q) ==
  /\ Outbox!Finish(q)
  /\ UNCHANGED <<signalVars, resolution, listener, faults>>

(* The last attempt ends with a lost lease, or without any listener.       *)
Park(q) ==
  /\ Outbox!Park(q)
  /\ Fault
  /\ UNCHANGED <<signalVars, resolution, listener>>

(* An operator requeues the dead letter.                                   *)
Requeue(q) ==
  /\ Outbox!Requeue(q)
  /\ UNCHANGED <<signalVars, resolution, listener, faults>>

(***************************************************************************)
(* The specification.                                                      *)
(***************************************************************************)
GateStep(g) == CreateRequest(g) \/ Resume(g) \/ Expire(g)

Delivery(q) == Dispatch(q) \/ Signal(q) \/ Settle(q)

Next ==
  \/ \E g \in Gates : Reach(g) \/ GateStep(g) \/ Timeout(g)
  \/ RunEnds
  \/ \E c \in Resolvers : Resolve(c) \/ \E q \in Requests, a \in Answers : Look(c, q, a)
  \/ \E q \in Requests : Delivery(q) \/ SignalFails(q) \/ Park(q) \/ Requeue(q)

Spec == Init /\ [][Next]_vars

(* Temporal carries the gates on and the outbox delivers; people, timers   *)
(* and cancellations promise nothing.                                      *)
FairSpec ==
  /\ Spec
  /\ \A g \in Gates : WF_vars(GateStep(g))
  /\ \A q \in Requests :
       WF_vars(Dispatch(q)) /\ WF_vars(Signal(q)) /\ WF_vars(Settle(q))
==============================================================================
