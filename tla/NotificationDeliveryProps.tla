----------------------- MODULE NotificationDeliveryProps -----------------------
(***************************************************************************)
(* What a channel and an operator may rely on.                             *)
(***************************************************************************)
EXTENDS NotificationDelivery

Statuses == {"absent", "pending", "sending"} \union Outcomes

RowType == [status : Statuses, resend : Resends \union {NoResend}]

DispatchType ==
  [step : {"idle", "found", "sending"}, saw : Statuses, reserved : BOOLEAN]

OperatorType ==
  [step   : {"idle", "stale", "reserve", "look", "claim", "sending", "requeue", "finalize"},
   row    : Rows,
   resend : Resends \union {NoResend},
   saw    : Statuses]

(* The rows and the work on them have their types; a reservation names a   *)
(* delivery that was inserted with it, and is there only while the row is  *)
(* being sent or after a success that left it there; an operator at work   *)
(* on a resend has one (reserveManualResend, and the updates by id).       *)
TypeOK ==
  /\ delivery \in [Rows -> RowType]
  /\ dispatch \in [Dispatches -> DispatchType]
  /\ operator \in [Operators -> OperatorType]
  /\ tries \in [Rows -> Nat]
  /\ grounds \in [Rows -> Nat]
  /\ confirmed \subseteq Rows
  /\ faults \in Nat
  /\ \A r \in Rows :
       delivery[r].resend # NoResend =>
         /\ delivery[r].status \in {"sending", "sent"}
         /\ delivery[delivery[r].resend].status # "absent"
  /\ \A o \in Operators :
       operator[o].step \notin {"idle", "stale", "reserve"} =>
         /\ operator[o].resend # NoResend
         /\ delivery[operator[o].resend].status # "absent"

(* Every post of a delivery after its first has a ground of its own: a     *)
(* definite failure that was recorded of an earlier post of it, or an      *)
(* operator who decided to send it again ("Ambiguous outcomes require an   *)
(* explicit operator action").  Overlapping dispatches, crashes, late      *)
(* records and two operators at one reservation do not count a ground      *)
(* twice.  It does not say that the channel gets nothing twice: a failure  *)
(* that is recorded late replaces a resend's success, and an unknown post  *)
(* whose resend failed is posted again by the outbox.                      *)
RepeatNeedsGround == \A r \in Rows : tries[r] <= 1 + grounds[r]

(* A row says sent only when the channel accepted a post of it or of a     *)
(* resend of it, whatever crashed, overlapped or was read before.          *)
SentMeansConfirmed == \A r \in Rows : delivery[r].status = "sent" => r \in confirmed
===============================================================================
