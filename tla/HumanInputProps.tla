--------------------------- MODULE HumanInputProps ---------------------------
(***************************************************************************)
(* What a human-input gate promises to the run and to the people it asks.  *)
(***************************************************************************)
EXTENDS HumanInput

RequestType ==
  [status : {"absent", "pending", "resolved", "expired"},
   gate   : Gates \union {None},
   answer : Answers \union {None}]

GateType ==
  [step   : {"idle", "creating", "waiting", "expiring", "answered", "failed"},
   req    : Requests \union {NoRequest},
   answer : Answers \union {None}]

(* The rows, gates and looks have their types; a gate knows its request    *)
(* from the time it waits, and has an answer exactly when it is answered.  *)
TypeOK ==
  /\ request \in [Requests -> RequestType]
  /\ payload \in [Requests -> Answers \union {None}]
  /\ gate \in [Gates -> GateType]
  /\ resolution \in [Gates -> Answers \union {None}]
  /\ look \in [Resolvers -> [req : Requests \union {NoRequest}, answer : Answers \union {None}]]
  /\ accepted \subseteq Requests \X Resolvers \X Answers
  /\ sending \union lost \subseteq Requests
  /\ open \in BOOLEAN
  /\ faults \in 0 .. MaxFaults
  /\ \A g \in Gates :
       /\ gate[g].req = NoRequest <=> gate[g].step \in {"idle", "creating"}
       /\ gate[g].answer # None <=> gate[g].step = "answered"

(* Of the people who answer a request at the same time, one is accepted    *)
(* (the status condition of the updates in resolve and resolveByToken).    *)
OneWinner ==
  \A x, y \in accepted : x[1] = y[1] => x = y

(* A gate acts only on an answer that is committed for one of its own      *)
(* requests, and the row still says that answer, whatever is redelivered,  *)
(* raced or retried.                                                       *)
AnswerCommitted ==
  \A g \in Gates :
    gate[g].step = "answered" =>
      \E x \in accepted :
        /\ request[x[1]].gate = g
        /\ request[x[1]].answer = gate[g].answer
        /\ x[3] = gate[g].answer

(* A gate that failed by its timeout has an expired request, which nobody  *)
(* can answer any more.                                                    *)
TimedOutIsExpired ==
  \A g \in Gates : gate[g].step = "failed" => request[gate[g].req].status = "expired"

(* An accepted answer reaches its gate, unless the gate was over, the run  *)
(* ended, the outbox gave the event up, or a run of the listener failed    *)
(* and the event was completed all the same: a signal that comes before    *)
(* the gate waits, or more than once, is not lost.                         *)
AnswerArrives ==
  \A q \in Requests, g \in Gates :
    request[q].status = "resolved" /\ request[q].gate = g ~>
      \/ gate[g].step \in {"answered", "expiring", "failed"}
      \/ ~open
      \/ phase[q] = "parked"
      \/ phase[q] = "done" /\ q \in lost

(* Only a pending request expires: "Activity to expire a pending human     *)
(* input request (due to timeout)" (human-input.activity.ts).              *)
OnlyPendingExpires ==
  [][\A q \in Requests :
       request'[q].status = "expired" => request[q].status \in {"pending", "expired"}]_vars
==============================================================================
