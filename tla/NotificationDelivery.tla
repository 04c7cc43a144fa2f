------------------------- MODULE NotificationDelivery -------------------------
(***************************************************************************)
(* The notification of one terminal run to one channel                     *)
(* (backend/src/notifications): the delivery that the outbox event asks    *)
(* for, dispatches of that event that may overlap, and operators who send  *)
(* a delivery again by hand, through a new delivery that its parent        *)
(* reserves.  The outbox is used by its contract, OrderedDelivery.  The    *)
(* listener is apart from its event: handleRunTerminal is bound by         *)
(* @OnEvent without suppressErrors, so the event library logs the error of *)
(* a failed or unknown delivery and emitAsync resolves all the same.       *)
(*                                                                         *)
(* One SQL statement or transaction is one step.  A post to the webhook is *)
(* the time between the claim and the record of its outcome.               *)
(***************************************************************************)
EXTENDS Naturals

CONSTANTS
  Dispatches,  \* bound: dispatches of the event at the same time
  Operators,   \* people who send deliveries again at the same time
  Resends,     \* bound: ids of manual deliveries, a set of numbers
  MaxTries,    \* bound: posts of one delivery
  MaxFaults    \* bound: dead processes, lost updates, stalled posts

ASSUME ResendsAssumption == Resends \subseteq Nat \ {0}

Event    == 1
Own      == 0               \* the delivery of the event itself
NoResend == 0               \* error_message is not a reservation
Rows     == Resends \union {Own}
Outcomes == {"sent", "failed", "unknown"}

VARIABLES
  delivery,   \* notification_deliveries: status, and the resend that reserves the row
  dispatch,   \* per dispatch of the event, its step and the row it read
  operator,   \* per operator, the step, the row to send again, its resend, what was read
  tries,      \* history: how often a row was posted
  grounds,    \* history: definite failures recorded of a row's own posts, and
              \* operators' decisions to send the row again
  confirmed,  \* history: rows whose post, or whose resend's post, was answered with success
  faults,     \* faults so far
  phase, before, begun, delivered   \* the outbox

outbox  == <<phase, before, begun, delivered>>
history == <<tries, grounds, confirmed>>
vars    == <<delivery, dispatch, operator, history, faults, outbox>>

Outbox == INSTANCE OrderedDelivery WITH
  Events <- {Event}, AggregateOf <- [e \in {Event} |-> e]

NoDispatch == [step |-> "idle", saw |-> "absent", reserved |-> FALSE]
NoRequest  == [step |-> "idle", row |-> Own, resend |-> NoResend, saw |-> "absent"]

Init ==
  /\ delivery = [r \in Rows |-> [status |-> "absent", resend |-> NoResend]]
  /\ dispatch = [d \in Dispatches |-> NoDispatch]
  /\ operator = [o \in Operators |-> NoRequest]
  /\ tries = [r \in Rows |-> 0]
  /\ grounds = [r \in Rows |-> 0]
  /\ confirmed = {}
  /\ faults = 0
  /\ Outbox!Init

NoFault == UNCHANGED faults

Fault ==
  /\ faults < MaxFaults
  /\ faults' = faults + 1

Put(r, status, resend) ==
  delivery' = [delivery EXCEPT ![r] = [status |-> status, resend |-> resend]]

(***************************************************************************)
(* Posting: claimForSend and sendClaimedDelivery.                          *)
(***************************************************************************)

Claimable(r) == delivery[r].status \in {"pending", "failed"}

(* The claim leaves error_message as it is.                                *)
Claim(r) ==
  /\ Claimable(r)
  /\ tries[r] < MaxTries
  /\ Put(r, "sending", delivery[r].resend)
  /\ tries' = [tries EXCEPT ![r] = @ + 1]
  /\ UNCHANGED <<grounds, confirmed>>

\* Mutant: the outcome leaves error_message as it is.
KeepsReservation(r, outcome) == delivery[r].resend

(* error_message after an outcome: only success leaves it as it is.        *)
Kept(r, outcome) == IF outcome = "sent" THEN delivery[r].resend ELSE NoResend

(* The outcome is written by the id of the row, whatever became of it.     *)
Record(r, outcome) ==
  /\ Put(r, outcome, Kept(r, outcome))
  /\ grounds' = IF outcome = "failed" THEN [grounds EXCEPT ![r] = @ + 1] ELSE grounds
  /\ confirmed' = IF outcome = "sent" THEN confirmed \union {r} ELSE confirmed
  /\ UNCHANGED tries

(* Nobody is at work on a row that is being sent, or a stalled process is: *)
(* it was claimed or reserved more than ten minutes ago.                   *)
Posting(r) ==
  \/ r = Own /\ \E d \in Dispatches : dispatch[d].step = "sending"
  \/ \E o \in Operators :
       \/ operator[o].step = "sending" /\ operator[o].resend = r
       \/ operator[o].resend # NoResend /\ operator[o].row = r

Stale(r) ==
  /\ delivery[r].status = "sending"
  /\ IF Posting(r) THEN Fault ELSE NoFault

(***************************************************************************)
(* The listener: dispatchToChannel, for a delivery of the outbox.          *)
(***************************************************************************)

Step(d, k) == dispatch' = [dispatch EXCEPT ![d] = k]

(* The outbox hands the event out, perhaps while an earlier dispatch is    *)
(* still at work, and findOrCreateForOutbox inserts or reads the row.      *)
(* emitAsync resolves whatever becomes of the dispatch.                    *)
Begin(d) ==
  LET status == IF delivery[Own].status = "absent" THEN "pending" ELSE delivery[Own].status
  IN  /\ dispatch[d].step = "idle"
      /\ Outbox!Begin(Event)
      /\ begun' = begun \union {Event}
      /\ delivered' = delivered \union {Event}
      /\ Put(Own, status, delivery[Own].resend)
      /\ Step(d, [step |-> "found", saw |-> status,
                  reserved |-> delivery[Own].resend # NoResend])
      /\ UNCHANGED <<operator, history, faults, phase, before>>

Found(d, statuses) == dispatch[d].step = "found" /\ dispatch[d].saw \in statuses

(* Nothing is posted: the row is sent, its outcome is unknown, a manual    *)
(* resend is in progress, or another dispatch claimed it in the meantime.  *)
PassOver(d) ==
  /\ \/ Found(d, {"sent", "unknown"})
     \/ Found(d, {"sending"}) /\ dispatch[d].reserved
     \/ Found(d, {"pending", "failed"}) /\ ~Claimable(Own)
  /\ Step(d, NoDispatch)
  /\ UNCHANGED <<delivery, operator, history, faults, outbox>>

(* The row was being sent when it was read.  The update does not look at   *)
(* its status again.                                                       *)
MarkUnknown(d) ==
  /\ Found(d, {"sending"})
  /\ ~dispatch[d].reserved
  /\ Put(Own, "unknown", NoResend)
  /\ Step(d, NoDispatch)
  /\ UNCHANGED <<operator, history, faults, outbox>>

Post(d) ==
  /\ Found(d, {"pending", "failed"})
  /\ Claim(Own)
  /\ Step(d, [dispatch[d] EXCEPT !.step = "sending"])
  /\ UNCHANGED <<operator, faults, outbox>>

Answered(d, outcome) ==
  /\ dispatch[d].step = "sending"
  /\ Record(Own, outcome)
  /\ Step(d, NoDispatch)
  /\ UNCHANGED <<operator, faults, outbox>>

(* The process dies, or the database is out.                               *)
Crash(d) ==
  /\ dispatch[d].step # "idle"
  /\ Fault
  /\ Step(d, NoDispatch)
  /\ UNCHANGED <<delivery, operator, history, outbox>>

(***************************************************************************)
(* The rest of the outbox.                                                 *)
(***************************************************************************)
outboxClients == <<delivery, dispatch, operator, history, faults>>

(* The run is terminal, and its event is committed.                        *)
RunEnds == Outbox!Enqueue(Event) /\ UNCHANGED outboxClients

Settle  == Outbox!Finish(Event) /\ UNCHANGED outboxClients

(* Attempts are exhausted.                                                 *)
Park    == Outbox!Park(Event) /\ UNCHANGED outboxClients

Requeue == Outbox!Requeue(Event) /\ UNCHANGED outboxClients

(***************************************************************************)
(* Sending again by hand: resendDelivery and reconcileManualResend.        *)
(***************************************************************************)
At(o, step) == operator[o].step = step

Go(o, k) == operator' = [operator EXCEPT ![o] = k]

(* An operator chooses a delivery.  What is sent or pending is refused.    *)
Ask(o, r) ==
  LET d == delivery[r]
  IN  /\ At(o, "idle")
      /\ \/ /\ d.status = "sending" /\ d.resend # NoResend
            /\ Go(o, [step |-> "look", row |-> r, resend |-> d.resend, saw |-> d.status])
         \/ /\ d.status = "sending" /\ d.resend = NoResend
            /\ Go(o, [step |-> "stale", row |-> r, resend |-> NoResend, saw |-> d.status])
         \/ /\ d.status \in {"failed", "unknown"}
            /\ Go(o, [step |-> "reserve", row |-> r, resend |-> NoResend, saw |-> d.status])
      /\ UNCHANGED <<delivery, dispatch, history, faults, outbox>>

(* A delivery that has been sending for ten minutes is unknown; otherwise  *)
(* the operator is told to wait.                                           *)
MarkStale(o) ==
  LET r == operator[o].row
  IN  /\ At(o, "stale")
      /\ \/ /\ Stale(r)
            /\ Put(r, "unknown", NoResend)
            /\ Go(o, [operator[o] EXCEPT !.step = "reserve", !.saw = "unknown"])
         \/ NoFault /\ UNCHANGED delivery /\ Go(o, NoRequest)
      /\ UNCHANGED <<dispatch, history, outbox>>

(* reserveManualResend: the row must still be as it was read; the new      *)
(* delivery is inserted in the same transaction.                           *)
Reserve(o) ==
  LET r == operator[o].row
  IN  /\ At(o, "reserve")
      /\ \/ /\ delivery[r].status = operator[o].saw
            /\ \E c \in {c \in Resends : delivery[c].status = "absent"} :
                 /\ delivery' = [delivery EXCEPT
                      ![r] = [status |-> "sending", resend |-> c],
                      ![c] = [status |-> "pending", resend |-> NoResend]]
                 /\ grounds' = [grounds EXCEPT ![r] = @ + 1]
                 /\ UNCHANGED <<tries, confirmed>>
                 /\ Go(o, [operator[o] EXCEPT !.step = "look", !.resend = c])
         \/ /\ delivery[r].status # operator[o].saw
            /\ UNCHANGED <<delivery, history>>
            /\ Go(o, NoRequest)
      /\ UNCHANGED <<dispatch, faults, outbox>>

(* What is done with the resend, by its status; a delivery of the outbox   *)
(* that is resolved has its event requeued.                                *)
NextStep(r, status) ==
  CASE status = "pending"                -> "claim"
    [] status = "sent" /\ r = Own        -> "requeue"
    [] OTHER                             -> "finalize"

(* The resend is read (dispatchPendingDelivery reads a pending one again,  *)
(* to the same effect); one that is stale becomes unknown, and one that is *)
(* being sent is left alone.                                               *)
Look(o) ==
  LET k == operator[o]
      c == delivery[k.resend].status
  IN  /\ At(o, "look")
      /\ \/ /\ c # "sending"
            /\ NoFault
            /\ UNCHANGED delivery
            /\ Go(o, [k EXCEPT !.step = NextStep(k.row, c), !.saw = c])
         \/ /\ Stale(k.resend)
            /\ Put(k.resend, "unknown", NoResend)
            /\ Go(o, [k EXCEPT !.step = "finalize", !.saw = "unknown"])
         \/ /\ c = "sending"
            /\ NoFault
            /\ UNCHANGED delivery
            /\ Go(o, NoRequest)
      /\ UNCHANGED <<dispatch, history, outbox>>

(* dispatchPendingDelivery.                                                *)
PostResend(o) ==
  LET c == operator[o].resend
  IN  /\ At(o, "claim")
      /\ \/ Claim(c) /\ Go(o, [operator[o] EXCEPT !.step = "sending"])
         \/ ~Claimable(c) /\ UNCHANGED <<delivery, history>> /\ Go(o, NoRequest)
      /\ UNCHANGED <<dispatch, faults, outbox>>

AnsweredResend(o, outcome) ==
  /\ At(o, "sending")
  /\ Record(operator[o].resend, outcome)
  /\ Go(o, [operator[o] EXCEPT !.step = "look"])
  /\ UNCHANGED <<dispatch, faults, outbox>>

\* Mutant: the reservation is not compared.
BeingSent(o) == delivery[operator[o].row].status = "sending"

(* The row is still reserved by this resend (completeManualResend and      *)
(* finalizeManualResend).                                                  *)
Reserved(o) ==
  delivery[operator[o].row] = [status |-> "sending", resend |-> operator[o].resend]

\* Mutant: what did not fail counts as sent.
SentUnlessFailed(status) == IF status = "failed" THEN "failed" ELSE "sent"

(* How a row is resolved by what was read of its resend.                   *)
Completion(status) == IF status \in {"sent", "failed"} THEN status ELSE "unknown"

Resolve(o) ==
  LET k == operator[o]
  IN  /\ Put(k.row, Completion(k.saw), NoResend)
      /\ confirmed' = IF k.resend \in confirmed THEN confirmed \union {k.row} ELSE confirmed
      /\ UNCHANGED <<tries, grounds>>

(* requeueDeadLetter: the event and the row, or neither of them; an event  *)
(* that is not parked is left alone.                                       *)
RequeueEvent(o) ==
  /\ At(o, "requeue")
  /\ \/ /\ Reserved(o)
        /\ Outbox!Requeue(Event)
        /\ Resolve(o)
        /\ Go(o, NoRequest)
     \/ /\ ~Reserved(o) /\ phase[Event] = "parked"
        /\ UNCHANGED <<delivery, history, outbox>>
        /\ Go(o, NoRequest)
     \/ /\ phase[Event] # "parked"
        /\ UNCHANGED <<delivery, history, outbox>>
        /\ Go(o, [operator[o] EXCEPT !.step = "finalize"])
  /\ UNCHANGED <<dispatch, faults>>

Finalize(o) ==
  /\ At(o, "finalize")
  /\ IF Reserved(o) THEN Resolve(o) ELSE UNCHANGED <<delivery, history>>
  /\ Go(o, NoRequest)
  /\ UNCHANGED <<dispatch, faults, outbox>>

(* The request dies with its process, or the database is out.              *)
CrashRequest(o) ==
  /\ ~At(o, "idle")
  /\ Fault
  /\ Go(o, NoRequest)
  /\ UNCHANGED <<delivery, dispatch, history, outbox>>

(***************************************************************************)
(* The specification.                                                      *)
(***************************************************************************)
Listen(d) ==
  \/ Begin(d) \/ PassOver(d) \/ MarkUnknown(d) \/ Post(d) \/ Crash(d)
  \/ \E outcome \in Outcomes : Answered(d, outcome)

Operate(o) ==
  \/ \E r \in Rows : Ask(o, r)
  \/ MarkStale(o) \/ Reserve(o) \/ Look(o) \/ PostResend(o)
  \/ \E outcome \in Outcomes : AnsweredResend(o, outcome)
  \/ RequeueEvent(o) \/ Finalize(o) \/ CrashRequest(o)

Next ==
  \/ RunEnds \/ Settle \/ Park \/ Requeue
  \/ \E d \in Dispatches : Listen(d)
  \/ \E o \in Operators : Operate(o)

Spec == Init /\ [][Next]_vars
===============================================================================
