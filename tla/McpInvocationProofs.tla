------------------------- MODULE McpInvocationProofs --------------------------
(***************************************************************************)
(* Proofs about tool invocations, for any number of invocations, attempts  *)
(* and faults.  A step moves one invocation at most: Moves says how its    *)
(* row, its handler, its activity and its calls may change together, and   *)
(* is all that the proof of the inductive invariant needs to know of a     *)
(* step.                                                                   *)
(***************************************************************************)
EXTENDS McpInvocationProps, TLAPS

Calls ==
  [op : {"prepare", "claim", "settle", "reconcile"}, inv : Invocations,
   from : {"handler", "activity"}, try : Nat,
   arg : {None, "unchecked", "checked", "failure", "deadline"} \union Terminal]

Handlers ==
  [step : {"idle", "prepare", "prepared", "dispatch", "reconcile", "done", "failed"},
   tries : Nat,
   cause : {None, "failure", "deadline", "cancelled"},
   result : Terminal \union {None}]

ActSteps == {"none", "queued", "claim", "execute", "running", "settle", "reconcile", "over"}

Types ==
  /\ row \in [Invocations -> {"absent"} \union Open \union Terminal]
  /\ calls \subseteq Calls
  /\ handler \in [Invocations -> Handlers]
  /\ act \in [Invocations -> ActSteps]
  /\ ran \in [Invocations -> Nat]
  /\ answer \in [Invocations -> Answered \union {None}]
  /\ todo \subseteq Invocations

(* A row from which nothing leads back to a declined one.                  *)
Started == {"dispatched", "ambiguous"} \union Answered

(* The tool answered r, once, and will not be started again.               *)
Confirmed(i, r) == ran[i] = 1 /\ answer[i] = r /\ act[i] \in {"settle", "over"}

CallSound(c) ==
  /\ c.op = "prepare" => c.from = "handler"
  /\ c.op \in {"claim", "settle"} => c.from = "activity"
  /\ c.op = "settle" => /\ c.arg \in Answered \union {"ambiguous"}
                        /\ c.arg \in Answered => Confirmed(c.inv, c.arg)

(* The activity has not been scheduled while the handler prepares, and the *)
(* tool is started on the way from the claim to the answer.                *)
ActSound(i) ==
  /\ handler[i].step \in {"idle", "prepare", "prepared"} => act[i] = "none"
  /\ ran[i] \in {0, 1}
  /\ act[i] = "running" => ran[i] = 1
  /\ ran[i] = 1 => act[i] \in {"running", "settle", "reconcile", "over"}
  /\ ran[i] = 1 \/ act[i] \in {"execute", "running"} => row[i] \in Started

(* The tool was not started and, with a closed row, will not be.           *)
Unstarted(i) == ran[i] = 0 /\ act[i] \notin {"execute", "running"}

RowSound(i) ==
  row[i] \in Answered =>
    \/ Confirmed(i, row[i])
    \/ i \in operations /\ row[i] = "remote_failure" /\ Unstarted(i)

(* Nothing was ever asked of the backend.                                  *)
Untouched(i) == row[i] = "absent" /\ act[i] = "none" /\ \A c \in calls : c.inv # i

Told(i) ==
  /\ handler[i].step = "idle" => Untouched(i)
  /\ handler[i].step = "done" =>
       \/ handler[i].result = row[i] /\ row[i] \in Terminal
       \/ handler[i].result = NotRun(i) /\ Untouched(i)

Inv ==
  /\ Types
  /\ \A c \in calls : CallSound(c)
  /\ \A i \in Invocations : ActSound(i) /\ RowSound(i) /\ Told(i)
  /\ \A i \in todo : row[i] # "absent"

(***************************************************************************)
(* What a step may do to invocation i.                                     *)
(***************************************************************************)
Rows == {"absent"} \union Open \union Terminal

(* Before the activity is scheduled.                                       *)
Early == {"idle", "prepare", "prepared"}

(* A new call is sound; a settlement carries what the tool answers now.    *)
NewCall(i, c) ==
  /\ c.inv = i
  /\ c.op = "prepare" => c.from = "handler"
  /\ c.op \in {"claim", "settle"} => c.from = "activity"
  /\ c.op = "settle" =>
       \/ c.arg = "ambiguous"
       \/ /\ c.arg \in Answered
          /\ act[i] = "running" /\ act'[i] = "settle" /\ answer'[i] = c.arg

HandlerMove(i) ==
  /\ handler'[i].step \in Early => handler[i].step \in Early /\ act'[i] = act[i]
  /\ handler'[i].step = "idle" => handler[i].step = "idle"
  /\ handler'[i].step = "done" =>
       \/ handler'[i] = handler[i]
       \/ handler'[i].result = NotRun(i) /\ handler[i].step = "idle"
       \/ handler'[i].result = row'[i] /\ row'[i] \in Terminal

ActMove(i) ==
  \/ act'[i] = act[i]
  \/ act[i] # "none" /\ act'[i] = "over"
  \/ act[i] = "none" /\ act'[i] = "queued"
  \/ act[i] = "queued" /\ act'[i] \in {"claim", "reconcile"}
  \/ act[i] = "claim" /\ act'[i] = "execute" /\ row'[i] = "dispatched"
  \/ act[i] \in {"execute", "running"} /\ act'[i] \in {"settle", "reconcile"}
  \/ act[i] = "execute" /\ act'[i] = "running" /\ ran'[i] = ran[i] + 1

(* The calls, the handlers and the activities.                             *)
Side(i) ==
  /\ calls' \subseteq Calls
  /\ handler' \in [Invocations -> Handlers]
  /\ act' \in [Invocations -> ActSteps]
  /\ \A j \in Invocations \ {i} : handler'[j] = handler[j] /\ act'[j] = act[j]
  /\ \A c \in calls' \ calls : NewCall(i, c)
  /\ HandlerMove(i)
  /\ ActMove(i)
  /\ Untouched(i) /\ handler'[i].step \in {"idle", "done"} =>
       act'[i] = act[i] /\ calls' \subseteq calls

RowMove(i) ==
  /\ row' \in [Invocations -> Rows]
  /\ \A j \in Invocations \ {i} : row'[j] = row[j]
  /\ row[i] \in Terminal => row'[i] = row[i]
  /\ row[i] # "absent" => row'[i] # "absent"
  /\ row[i] \in Started => row'[i] \in Started
  /\ row'[i] # row[i] => ~Untouched(i)
  /\ row'[i] \in Answered =>
       \/ row'[i] = row[i]
       \/ Confirmed(i, row'[i])
       \/ row'[i] = NotRun(i) /\ Unstarted(i)

ToolMove(i) ==
  /\ ran' \in [Invocations -> Nat]
  /\ answer' \in [Invocations -> Answered \union {None}]
  /\ \A j \in Invocations \ {i} : ran'[j] = ran[j] /\ answer'[j] = answer[j]
  /\ \/ ran'[i] = ran[i]
     \/ act[i] = "execute" /\ act'[i] = "running" /\ ran'[i] = ran[i] + 1
  /\ answer'[i] # answer[i] => act[i] = "running" /\ act'[i] = "settle"

(* The sweep takes rows that are there.                                    *)
TodoMove == todo' \subseteq Invocations /\ \A j \in todo' : j \in todo \/ row[j] # "absent"

Moves(i) == Side(i) /\ RowMove(i) /\ ToolMove(i) /\ TodoMove /\ UNCHANGED operations

(***************************************************************************)
(* Every move preserves the invariant.                                     *)
(***************************************************************************)
LEMMA MoveKeeps ==
  ASSUME NEW i \in Invocations, Inv, Moves(i)
  PROVE  Inv'
<1> USE DEF Moves
<1>t. Types /\ Types'
  BY DEF Inv, Side, RowMove, ToolMove, TodoMove, Types, Rows
<1>o. \A j \in Invocations \ {i} :
        /\ row'[j] = row[j] /\ handler'[j] = handler[j] /\ act'[j] = act[j]
        /\ ran'[j] = ran[j] /\ answer'[j] = answer[j]
  BY DEF Side, RowMove, ToolMove
<1>c. \A c \in calls' : c \in calls \/ NewCall(i, c)
  BY DEF Side
<1>a. ActSound(i) /\ RowSound(i) /\ Told(i)
  BY DEF Inv
<1>1. ActSound(i)'
  <2>1. handler'[i].step \in Early => act'[i] = "none"
    BY <1>a DEF Side, HandlerMove, Early, ActSound
  <2>2. ran'[i] \in {0, 1} /\ (act'[i] = "running" => ran'[i] = 1)
    BY <1>a DEF Side, ActMove, ToolMove, ActSound
  <2>3. ran'[i] = 1 => act'[i] \in {"running", "settle", "reconcile", "over"}
    BY <1>a DEF Side, ActMove, ToolMove, ActSound
  <2>4. ran'[i] = 1 \/ act'[i] \in {"execute", "running"} => row'[i] \in Started
    BY <1>a DEF Side, ActMove, ToolMove, ActSound, RowMove, Started
  <2> QED
    BY <2>1, <2>2, <2>3, <2>4 DEF ActSound, Early
<1>2. \A r \in Answered : Confirmed(i, r) => Confirmed(i, r)'
  BY <1>a DEF Side, ActMove, ToolMove, Confirmed, ActSound
<1>3. RowSound(i)'
  <2>1. CASE row'[i] \in Answered /\ (row'[i] = row[i] \/ Confirmed(i, row'[i]))
                                  /\ Confirmed(i, row'[i])
    BY <1>2, <2>1 DEF RowSound
  <2>2. Unstarted(i) /\ row'[i] \in Answered => Unstarted(i)'
    BY <1>a DEF Unstarted, ActSound, Side, ActMove, ToolMove, RowMove, Answered, Started
  <2>3. NotRun(i) \in Answered => i \in operations /\ NotRun(i) = "remote_failure"
    BY DEF NotRun, Answered
  <2> QED
    BY <1>a, <2>1, <2>2, <2>3 DEF RowMove, RowSound
<1>4. Told(i)'
  <2>1. Untouched(i) /\ handler'[i].step \in {"idle", "done"} => Untouched(i)'
    BY DEF Untouched, Side, RowMove
  <2>2. ASSUME handler'[i].step = "idle" PROVE Untouched(i)'
    BY <1>a, <2>1, <2>2 DEF Told, Side, HandlerMove
  <2>3. ASSUME handler'[i].step = "done"
        PROVE  \/ handler'[i].result = row'[i] /\ row'[i] \in Terminal
               \/ handler'[i].result = NotRun(i)' /\ Untouched(i)'
    BY <1>a, <2>1, <2>3 DEF Told, Side, HandlerMove, RowMove, NotRun
  <2> QED
    BY <2>2, <2>3 DEF Told
<1>5. \A c \in calls' : CallSound(c)'
  <2>1. ASSUME NEW c \in calls PROVE CallSound(c)'
    <3>1. CallSound(c) /\ c \in Calls
      BY <1>t DEF Inv, Types
    <3>2. c.inv \in Invocations
      BY <3>1 DEF Calls
    <3>3. c.inv # i => \A r : Confirmed(c.inv, r) => Confirmed(c.inv, r)'
      BY <1>o, <3>2 DEF Confirmed
    <3> QED
      BY <1>2, <3>1, <3>3 DEF CallSound
  <2>2. ASSUME NEW c \in calls', NewCall(i, c) PROVE CallSound(c)'
    <3>1. act[i] = "running" /\ act'[i] = "settle" => ran'[i] = 1
      BY <1>a DEF ActSound, ToolMove
    <3> QED
      BY <2>2, <3>1 DEF NewCall, CallSound, Confirmed, Answered
  <2> QED
    BY <1>c, <2>1, <2>2
<1>6. ASSUME NEW j \in Invocations, j # i
      PROVE  ActSound(j)' /\ RowSound(j)' /\ Told(j)'
  <2>1. ActSound(j) /\ RowSound(j) /\ Told(j)
    BY DEF Inv
  <2>2. Untouched(j) => Untouched(j)'
    BY <1>o, <1>c, <1>6 DEF Untouched, NewCall
  <2>3. RowSound(j)'
    BY <1>o, <1>6, <2>1 DEF RowSound, Confirmed, Unstarted
  <2>4. ActSound(j)'
    BY <1>o, <1>6, <2>1 DEF ActSound
  <2>5. Told(j)'
    BY <1>o, <1>6, <2>1, <2>2 DEF Told, NotRun
  <2> QED
    BY <2>3, <2>4, <2>5
<1>7. \A j \in todo' : row'[j] # "absent"
  BY <1>t, <1>o DEF Inv, TodoMove, RowMove, Types
<1> QED
  BY <1>t, <1>1, <1>3, <1>4, <1>5, <1>6, <1>7 DEF Inv

LEMMA Initially == Init => Inv
BY DEF Init, Inv, Types, ActSound, RowSound, Told, Untouched, Idle, Handlers, ActSteps, Open,
       Terminal, Answered, Declined, None, Started

(***************************************************************************)
(* How a call, a handler and an activity go on.                            *)
(***************************************************************************)
LEMMA AsksSide ==
  ASSUME NEW i \in Invocations, Inv, NEW op, NEW arg, Asks(i, op, arg),
         \/ act[i] = "queued" /\ op \in {"claim", "reconcile"}
         \/ act[i] \in {"execute", "running"} /\ op \in {"settle", "reconcile"},
         arg \in {None, "unchecked", "checked", "failure", "deadline"} \union Terminal,
         op = "settle" =>
           \/ arg = "ambiguous"
           \/ arg \in Answered /\ act[i] = "running" /\ answer'[i] = arg
  PROVE  Side(i)
<1>t. Types /\ ActSound(i)
  BY DEF Inv
<1>1. Call(op, i, "activity", 1, arg) \in Calls
  BY DEF Call, Calls
<1>2. calls' = calls \union {Call(op, i, "activity", 1, arg)} /\ act' = [act EXCEPT ![i] = op]
      /\ handler' = handler
  BY DEF Asks
<1>3. act'[i] = op /\ act' \in [Invocations -> ActSteps]
  BY <1>t, <1>2 DEF Types, ActSteps
<1>4. \A c \in calls' \ calls : NewCall(i, c)
  BY <1>2, <1>3 DEF NewCall, Call
<1>5. HandlerMove(i)
  BY <1>t, <1>2 DEF HandlerMove, ActSound, Early
<1>6. ActMove(i)
  BY <1>3 DEF ActMove
<1>7. ~Untouched(i)
  BY DEF Untouched
<1>8. \A j \in Invocations \ {i} : handler'[j] = handler[j] /\ act'[j] = act[j]
  BY <1>2, <1>t DEF Types
<1> QED
  BY <1>t, <1>1, <1>2, <1>3, <1>4, <1>5, <1>6, <1>7, <1>8 DEF Side, Types

(* A handler that calls the reconciliation.                                *)
LEMMA ReconcileSide ==
  ASSUME NEW i \in Invocations, Inv, NEW B, B \subseteq calls, Reconcile(i, B),
         \/ act' = act
         \/ act[i] # "none" /\ act' = [act EXCEPT ![i] = "over"]
  PROVE  Side(i)
<1>t. Types
  BY DEF Inv
<1>1. PICK cause \in Causes(i) :
        /\ handler' = [handler EXCEPT ![i] = Step("reconcile", 1, cause)]
        /\ calls' = B \union {Call("reconcile", i, "handler", 1, cause)}
  BY DEF Reconcile
<1>2. cause \in {"deadline", "cancelled", "failure"}
  BY DEF Causes
<1>3. Step("reconcile", 1, cause) \in Handlers
  BY <1>2 DEF Step, Handlers
<1>4. Call("reconcile", i, "handler", 1, cause) \in Calls
  BY <1>2 DEF Call, Calls, Terminal, Declined
<1>5. handler' \in [Invocations -> Handlers] /\ handler'[i].step = "reconcile"
  BY <1>t, <1>1, <1>3 DEF Types, Step
<1>6. \A c \in calls' \ calls : NewCall(i, c)
  BY <1>1 DEF NewCall, Call
<1>7. act' \in [Invocations -> ActSteps] /\ ActMove(i)
  BY <1>t DEF Types, ActMove, ActSteps
<1>8. \A j \in Invocations \ {i} : handler'[j] = handler[j] /\ act'[j] = act[j]
  BY <1>1, <1>t DEF Types
<1>9. HandlerMove(i)
  BY <1>5 DEF HandlerMove, Early
<1> QED
  BY <1>t, <1>1, <1>4, <1>5, <1>6, <1>7, <1>8, <1>9 DEF Side, Types

(* A handler that goes on without a new call.                              *)
LEMMA StepSide ==
  ASSUME NEW i \in Invocations, Inv, NEW B, B \subseteq calls, calls' = B,
         NEW h \in Handlers, handler' = [handler EXCEPT ![i] = h],
         \/ act' = act
         \/ act[i] # "none" /\ act' = [act EXCEPT ![i] = "over"],
         h.step = "failed" \/ (h.step = "prepared" /\ handler[i].step \in Early /\ act' = act)
         \/ (h.step = "done" /\ h.result = row'[i] /\ row'[i] \in Terminal),
         Untouched(i) => act' = act
  PROVE  Side(i)
<1>t. Types
  BY DEF Inv
<1>1. handler' \in [Invocations -> Handlers] /\ handler'[i] = h
  BY <1>t DEF Types
<1>2. act' \in [Invocations -> ActSteps] /\ ActMove(i)
  BY <1>t DEF Types, ActMove, ActSteps
<1>3. \A j \in Invocations \ {i} : handler'[j] = handler[j] /\ act'[j] = act[j]
  BY <1>t DEF Types
<1>4. HandlerMove(i)
  BY <1>1 DEF HandlerMove, Early
<1> QED
  BY <1>t, <1>1, <1>2, <1>3, <1>4 DEF Side, Types

LEMMA FailsSide ==
  ASSUME NEW i \in Invocations, Inv, NEW B, B \subseteq calls, act[i] # "none", Fails(i, B)
  PROVE  Side(i)
<1>t. Types /\ ActSound(i)
  BY DEF Inv
<1>1. act' = [act EXCEPT ![i] = "over"]
  BY DEF Fails
<1>2. CASE Reconcile(i, B)
  BY <1>1, <1>2, ReconcileSide
<1>3. CASE UNCHANGED handler /\ calls' = B
  <2>1. act' \in [Invocations -> ActSteps] /\ ActMove(i)
    BY <1>1, <1>t DEF Types, ActMove, ActSteps
  <2>2. HandlerMove(i)
    BY <1>3, <1>t DEF HandlerMove, ActSound, Early
  <2>3. \A j \in Invocations \ {i} : handler'[j] = handler[j] /\ act'[j] = act[j]
    BY <1>1, <1>3, <1>t DEF Types
  <2>4. ~Untouched(i)
    BY DEF Untouched
  <2> QED
    BY <1>t, <1>3, <2>1, <2>2, <2>3, <2>4 DEF Side, Types
<1> QED
  BY <1>2, <1>3 DEF Fails

LEMMA ReturnsSide ==
  ASSUME NEW i \in Invocations, Inv, NEW B, B \subseteq calls, act[i] # "none",
         row'[i] \in Terminal, Returns(i, row'[i], B)
  PROVE  Side(i)
<1>t. Types /\ ActSound(i)
  BY DEF Inv
<1>1. act' = [act EXCEPT ![i] = "over"] /\ calls' = B
  BY DEF Returns, Finish
<1>0. ~Untouched(i)
  BY DEF Untouched
<1>2. CASE handler' = [handler EXCEPT ![i] = Done(row'[i])]
  <2>1. Done(row'[i]) \in Handlers /\ Done(row'[i]).step = "done" /\ Done(row'[i]).result = row'[i]
    BY DEF Done, Handlers
  <2> QED
    BY <1>0, <1>1, <1>2, <2>1, StepSide
<1>3. CASE UNCHANGED handler
  <2>1. act' \in [Invocations -> ActSteps] /\ ActMove(i)
    BY <1>1, <1>t DEF Types, ActMove, ActSteps
  <2>2. HandlerMove(i)
    BY <1>3, <1>t DEF HandlerMove, ActSound, Early
  <2>3. \A j \in Invocations \ {i} : handler'[j] = handler[j] /\ act'[j] = act[j]
    BY <1>1, <1>3, <1>t DEF Types
  <2> QED
    BY <1>0, <1>t, <1>1, <1>3, <2>1, <2>2, <2>3 DEF Side, Types
<1> QED
  BY <1>2, <1>3 DEF Returns, Finish

(* Calls are dropped, and nobody notices.                                  *)
LEMMA DropSide ==
  ASSUME NEW i \in Invocations, Inv, calls' \subseteq calls, UNCHANGED <<handler, act>>
  PROVE  Side(i)
<1>t. Types
  BY DEF Inv
<1>1. HandlerMove(i) /\ ActMove(i)
  BY DEF HandlerMove, ActMove
<1> QED
  BY <1>t, <1>1 DEF Side, Types

LEMMA RetrySide ==
  ASSUME NEW i \in Invocations, Inv, NEW B, B \subseteq calls, Retry(i, B), UNCHANGED act,
         handler[i].step \in {"prepare", "reconcile"}
  PROVE  Side(i)
<1>t. Types /\ handler[i] \in Handlers
  BY DEF Inv, Types
<1> DEFINE h == handler[i]
           n == Step(h.step, h.tries + 1, h.cause)
           d == Call(h.step, i, "handler", h.tries + 1, h.cause)
<1>1. CASE /\ handler' = [handler EXCEPT ![i] = n]
           /\ calls' = B \union {d}
  <2>1. n \in Handlers /\ n.step = h.step
    BY <1>t DEF Handlers, Step
  <2>2. d \in Calls
    BY <1>t DEF Handlers, Calls, Call, Terminal, Declined
  <2>3. \A c \in calls' \ calls : NewCall(i, c)
    BY <1>1 DEF NewCall, Call
  <2>4. handler' \in [Invocations -> Handlers] /\ handler'[i].step = h.step
    BY <1>t, <1>1, <2>1 DEF Types
  <2>5. HandlerMove(i) /\ ActMove(i)
    BY <2>4 DEF HandlerMove, ActMove, Early
  <2>6. \A j \in Invocations \ {i} : handler'[j] = handler[j] /\ act'[j] = act[j]
    BY <1>1, <1>t DEF Types
  <2>7. handler'[i].step \notin {"idle", "done"}
    BY <2>4
  <2>8. calls' \subseteq Calls /\ act' \in [Invocations -> ActSteps]
    BY <1>t, <1>1, <2>2 DEF Types
  <2> HIDE DEF h, n, d
  <2> QED
    BY <2>3, <2>4, <2>5, <2>6, <2>7, <2>8 DEF Side
<1>2. CASE handler' = [handler EXCEPT ![i] = Failed] /\ calls' = B
  <2>1. Failed \in Handlers /\ Failed.step = "failed"
    BY DEF Failed, Handlers
  <2> QED
    BY <1>2, <2>1, StepSide
<1> QED
  BY <1>1, <1>2 DEF Retry

(* Who waits for a call, and with which operation.                         *)
LEMMA WaitingStep ==
  ASSUME Inv, NEW c \in calls, Waiting(c)
  PROVE  /\ c.inv \in Invocations
         /\ c.from \in {"handler", "activity"}
         /\ c.from = "handler" =>
              handler[c.inv].step = c.op /\ c.op \in {"prepare", "reconcile"}
         /\ c.from # "handler" => act[c.inv] = c.op /\ c.op \in {"claim", "settle", "reconcile"}
         /\ ~Untouched(c.inv)
<1>1. c \in Calls /\ CallSound(c)
  BY DEF Inv, Types
<1> QED
  BY <1>1 DEF Waiting, Calls, CallSound, Untouched

LEMMA ErrorSide ==
  ASSUME Inv, NEW c \in calls, Waiting(c), NEW B, B \subseteq calls, Error(c, B)
  PROVE  Side(c.inv)
<1>1. CASE c.from = "handler"
  BY <1>1, WaitingStep, RetrySide DEF Error
<1>2. CASE c.from # "handler"
  BY <1>2, WaitingStep, FailsSide DEF Error
<1> QED
  BY <1>1, <1>2

LEMMA ReplySide ==
  ASSUME Inv, NEW c \in calls, Waiting(c), NEW B, B \subseteq calls, Reply(c, row'[c.inv], B),
         \/ row'[c.inv] \in Terminal
         \/ row'[c.inv] \notin Terminal /\ c.op = "prepare"
         \/ row'[c.inv] = "dispatched" /\ c.op = "claim"
  PROVE  Side(c.inv)
<1> DEFINE i == c.inv
           r == row'[i]
<1>w. /\ i \in Invocations
      /\ c.from \in {"handler", "activity"}
      /\ c.from = "handler" => handler[i].step = c.op /\ c.op \in {"prepare", "reconcile"}
      /\ c.from # "handler" => act[i] = c.op /\ c.op \in {"claim", "settle", "reconcile"}
      /\ ~Untouched(i)
  BY WaitingStep
<1>t. Types /\ ActSound(i)
  BY <1>w DEF Inv
<1>1. CASE c.from = "handler" /\ r \in Terminal
  <2>1. Done(r) \in Handlers /\ Done(r).step = "done" /\ Done(r).result = r
    BY <1>1 DEF Done, Handlers
  <2>2. handler' = [handler EXCEPT ![i] = Done(r)] /\ calls' = B /\ act' = act
    BY <1>1 DEF Reply, Finish
  <2> QED
    BY <1>1, <1>w, <2>1, <2>2, StepSide
<1>2. CASE c.from = "handler" /\ r \notin Terminal
  <2>1. Step("prepared", 1, None) \in Handlers /\ Step("prepared", 1, None).step = "prepared"
    BY DEF Step, Handlers
  <2>2. /\ handler' = [handler EXCEPT ![i] = Step("prepared", 1, None)]
        /\ calls' = B /\ act' = act
    BY <1>2 DEF Reply
  <2>3. handler[i].step \in Early
    BY <1>2, <1>w DEF Early
  <2> QED
    BY <1>2, <1>w, <2>1, <2>2, <2>3, StepSide
<1>3. CASE c.from = "activity" /\ r \in Terminal
  <2>1. Returns(i, r, B) /\ act[i] # "none"
    BY <1>3, <1>w DEF Reply
  <2> QED
    BY <1>3, <1>w, <2>1, ReturnsSide
<1>4. CASE c.from = "activity" /\ r \notin Terminal
  <2>1. r = "dispatched" /\ act[i] = "claim"
    BY <1>4, <1>w
  <2>2. act' = [act EXCEPT ![i] = "execute"] /\ calls' = B /\ handler' = handler
    BY <1>4 DEF Reply
  <2>3. act' \in [Invocations -> ActSteps] /\ act'[i] = "execute"
    BY <2>2, <1>t, <1>w DEF Types, ActSteps
  <2>4. ActMove(i)
    BY <2>1, <2>3 DEF ActMove
  <2>5. HandlerMove(i)
    BY <1>t, <2>1, <2>2 DEF HandlerMove, ActSound, Early
  <2>6. \A j \in Invocations \ {i} : handler'[j] = handler[j] /\ act'[j] = act[j]
    BY <1>t, <2>2 DEF Types
  <2> QED
    BY <1>w, <1>t, <2>2, <2>3, <2>4, <2>5, <2>6 DEF Side, Types
<1> QED
  BY <1>w, <1>1, <1>2, <1>3, <1>4

LEMMA RespondSide ==
  ASSUME Inv, NEW c \in calls, Respond(c, row'[c.inv]),
         \/ row'[c.inv] \in Terminal
         \/ row'[c.inv] \notin Terminal /\ c.op = "prepare"
         \/ row'[c.inv] = "dispatched" /\ c.op = "claim"
  PROVE  Side(c.inv)
<1>1. c.inv \in Invocations
  BY DEF Inv, Types, Calls
<1>2. calls \ {c} \subseteq calls
  OBVIOUS
<1> QED
  BY <1>1, <1>2, ReplySide, ErrorSide, DropSide DEF Respond

LEMMA RefuseSide ==
  ASSUME Inv, NEW c \in calls, Refuse(c)
  PROVE  Side(c.inv)
<1>1. c.inv \in Invocations
  BY DEF Inv, Types, Calls
<1>2. calls \ {c} \subseteq calls
  OBVIOUS
<1> QED
  BY <1>1, <1>2, ErrorSide, DropSide DEF Refuse

(***************************************************************************)
(* The row, the tool and the sweep.                                        *)
(***************************************************************************)
LEMMA RowSame ==
  ASSUME NEW i \in Invocations, Inv, UNCHANGED row
  PROVE  RowMove(i)
BY DEF RowMove, Inv, Types, Rows

LEMMA ToolSame ==
  ASSUME NEW i \in Invocations, Inv, UNCHANGED <<ran, answer>>
  PROVE  ToolMove(i)
BY DEF ToolMove, Inv, Types

LEMMA TodoSame ==
  ASSUME Inv, todo' \subseteq todo \/ todo' = Remaining
  PROVE  TodoMove
BY DEF TodoMove, Inv, Types, Remaining, Open

(* What is reconciled gets a result, and keeps the one it has.             *)
LEMMA ReconciledRow ==
  ASSUME NEW i \in Invocations, Inv, NEW cause, ~Untouched(i),
         SetRow(i, Reconciled(i, cause))
  PROVE  RowMove(i) /\ row'[i] = Reconciled(i, cause) /\ row'[i] \in Terminal
<1>t. Types
  BY DEF Inv
<1>1. row[i] \in Terminal => Reconciled(i, cause) = row[i]
  BY DEF Reconciled
<1>2. /\ Reconciled(i, cause) \in Terminal
      /\ row[i] \in Started => Reconciled(i, cause) \in Started
      /\ Reconciled(i, cause) \in Answered =>
           Reconciled(i, cause) = row[i] \/ (Reconciled(i, cause) = NotRun(i) /\ Unstarted(i))
  <2>1. row[i] \in {"absent", "prepared"} => Unstarted(i)
    BY DEF Inv, ActSound, Unstarted, Started, Answered
  <2> QED
    BY <1>t, <2>1 DEF Reconciled, NotRun, Types, Open, Terminal, Answered, Declined, Started
<1>3. row'[i] = Reconciled(i, cause) /\ row' = [row EXCEPT ![i] = Reconciled(i, cause)]
  BY <1>t DEF SetRow, Types
<1>4. \A j \in Invocations \ {i} : row'[j] = row[j]
  BY <1>3, <1>t DEF Types
<1>5. row' \in [Invocations -> Rows] /\ "absent" \notin Terminal
  BY <1>2, <1>3, <1>t DEF Types, Rows, Terminal, Answered, Declined
<1> QED
  BY <1>1, <1>2, <1>3, <1>4, <1>5 DEF RowMove

(* An open row goes on.                                                    *)
LEMMA OpenRow ==
  ASSUME NEW i \in Invocations, Inv, NEW r, ~Untouched(i), SetRow(i, r),
         \/ row[i] = "absent" /\ r = "prepared"
         \/ row[i] = "prepared" /\ r = "dispatched"
         \/ row[i] = "dispatched" /\ r = "ambiguous"
         \/ row[i] = "dispatched" /\ r \in Answered /\ Confirmed(i, r)
  PROVE  RowMove(i) /\ row'[i] = r
<1>t. Types
  BY DEF Inv
<1>1. row'[i] = r /\ row' = [row EXCEPT ![i] = r]
  BY <1>t DEF SetRow, Types
<1>2. row' \in [Invocations -> Rows]
  BY <1>1, <1>t DEF Types, Rows, Terminal, Answered, Open
<1>3. \A j \in Invocations \ {i} : row'[j] = row[j]
  BY <1>1, <1>t DEF Types
<1>4. /\ row[i] \in Terminal => r = row[i]
      /\ r # "absent"
      /\ row[i] \in Started => r \in Started
      /\ r \in Answered => Confirmed(i, r)
  BY DEF Terminal, Answered, Declined, Started
<1> QED
  BY <1>1, <1>2, <1>3, <1>4 DEF RowMove

(***************************************************************************)
(* The backend.                                                            *)
(***************************************************************************)
LEMMA ServeMoves ==
  ASSUME Inv, NEW c \in calls, Serve(c)
  PROVE  Moves(c.inv)
<1> DEFINE i == c.inv
<1>t. Types /\ c \in Calls /\ CallSound(c) /\ i \in Invocations /\ row[i] \in Rows
  BY DEF Inv, Types, Calls, Rows
<1>u. ~Untouched(i)
  BY DEF Untouched
<1>s. SUFFICES Side(i) /\ RowMove(i) /\ todo' = todo
  BY <1>t, ToolSame, TodoSame DEF Moves, Serve
<1>1. CASE ServePrepare(c)
  <2>1. CASE Refuse(c) /\ UNCHANGED row
    BY <1>1, <1>t, <2>1, RefuseSide, RowSame DEF ServePrepare
  <2>2. CASE row[i] = "absent" /\ SetRow(i, "prepared") /\ Respond(c, "prepared")
    <3>1. RowMove(i) /\ row'[i] = "prepared"
      BY <1>t, <1>u, <2>2, OpenRow
    <3> QED
      BY <1>1, <2>2, <3>1, RespondSide DEF ServePrepare, Terminal, Answered, Declined
  <2>3. CASE UNCHANGED row /\ Respond(c, row[i])
    <3>1. RowMove(i) /\ row'[i] = row[i]
      BY <1>t, <2>3, RowSame
    <3> QED
      BY <1>1, <2>3, <3>1, RespondSide DEF ServePrepare
  <2> QED
    BY <1>1, <2>1, <2>2, <2>3 DEF ServePrepare
<1>2. CASE ServeReconcile(c)
  <2>1. SetRow(i, Reconciled(i, c.arg)) /\ Respond(c, Reconciled(i, c.arg)) /\ todo' = todo
    BY <1>2 DEF ServeReconcile
  <2>2. RowMove(i) /\ row'[i] = Reconciled(i, c.arg) /\ row'[i] \in Terminal
    BY <1>t, <1>u, <2>1, ReconciledRow
  <2> QED
    BY <2>1, <2>2, RespondSide
<1>3. CASE Check(c)
  <2>1. CASE SetRow(i, Reconciled(i, "deadline")) /\ Respond(c, Reconciled(i, "deadline"))
    <3>1. RowMove(i) /\ row'[i] = Reconciled(i, "deadline") /\ row'[i] \in Terminal
      BY <1>t, <1>u, <2>1, ReconciledRow
    <3> QED
      BY <1>3, <2>1, <3>1, RespondSide DEF Check
  <2>2. CASE /\ calls' = (calls \ {c}) \union {[c EXCEPT !.arg = "checked"]}
             /\ UNCHANGED <<row, handler, act>>
    <3>1. RowMove(i)
      BY <1>t, <2>2, RowSame
    <3>2. [c EXCEPT !.arg = "checked"] \in Calls
      BY <1>t DEF Calls
    <3>3. NewCall(i, [c EXCEPT !.arg = "checked"])
      BY <1>3, <1>t DEF NewCall, Check, CallSound, Calls
    <3>4. \A d \in calls' \ calls : NewCall(i, d)
      BY <2>2, <3>3
    <3>5. HandlerMove(i) /\ ActMove(i)
      BY <2>2 DEF HandlerMove, ActMove
    <3>6. Side(i)
      BY <1>t, <1>u, <2>2, <3>2, <3>4, <3>5 DEF Side, Types
    <3> QED
      BY <1>3, <3>1, <3>6 DEF Check
  <2> QED
    BY <1>3, <2>1, <2>2 DEF Check
<1>4. CASE Claim(c)
  <2>1. CASE Claimable(i)
    <3>1. SetRow(i, "dispatched") /\ Respond(c, "dispatched") /\ c.op = "claim" /\ todo' = todo
      BY <1>4, <2>1 DEF Claim
    <3>2. RowMove(i) /\ row'[i] = "dispatched"
      BY <1>t, <1>u, <2>1, <3>1, OpenRow DEF Claimable
    <3> QED
      BY <3>1, <3>2, RespondSide
  <2>2. CASE ~Claimable(i)
    <3>1. SetRow(i, Reconciled(i, "failure")) /\ Respond(c, Reconciled(i, "failure"))
          /\ todo' = todo
      BY <1>4, <2>2 DEF Claim
    <3>2. RowMove(i) /\ row'[i] = Reconciled(i, "failure") /\ row'[i] \in Terminal
      BY <1>t, <1>u, <3>1, ReconciledRow
    <3> QED
      BY <3>1, <3>2, RespondSide
  <2> QED
    BY <2>1, <2>2
<1>5. CASE Settle(c)
  <2>1. CASE Unsettled(i)
    <3>1. SetRow(i, c.arg) /\ Respond(c, c.arg) /\ todo' = todo
          /\ c.arg \in Answered \union {"ambiguous"}
          /\ (c.arg \in Answered => Confirmed(i, c.arg))
      BY <1>5, <1>t, <2>1 DEF Settle, CallSound
    <3>2. RowMove(i) /\ row'[i] = c.arg
      BY <1>t, <1>u, <2>1, <3>1, OpenRow DEF Unsettled
    <3> QED
      BY <3>1, <3>2, RespondSide DEF Terminal
  <2>2. CASE ~Unsettled(i)
    BY <1>5, <1>t, <2>2, RefuseSide, RowSame DEF Settle
  <2> QED
    BY <2>1, <2>2
<1> QED
  BY <1>1, <1>2, <1>3, <1>4, <1>5 DEF Serve

LEMMA LoseMoves ==
  ASSUME Inv, NEW c \in calls, Lose(c)
  PROVE  Moves(c.inv)
<1>1. c.inv \in Invocations
  BY DEF Inv, Types, Calls
<1>2. calls \subseteq calls /\ calls \ {c} \subseteq calls
  OBVIOUS
<1>3. Side(c.inv)
  BY <1>2, ErrorSide DEF Lose
<1> QED
  BY <1>1, <1>3, RowSame, ToolSame, TodoSame DEF Lose, Moves

(***************************************************************************)
(* The handler of an Update.                                               *)
(***************************************************************************)
LEMMA StartMoves ==
  ASSUME NEW i \in Invocations, Inv, Start(i)
  PROVE  Moves(i)
<1>t. Types /\ Told(i) /\ ActSound(i)
  BY DEF Inv
<1>1. handler[i].step = "idle" /\ Untouched(i)
  BY <1>t DEF Start, Idle, Told
<1>2. SUFFICES Side(i)
  BY RowSame, ToolSame, TodoSame DEF Start, Moves
<1>3. CASE handler' = [handler EXCEPT ![i] = Done(NotRun(i))] /\ calls' = calls
  <2>1. Done(NotRun(i)) \in Handlers
    BY DEF Done, Handlers, NotRun, Terminal, Answered, Declined
  <2>2. handler'[i] = Done(NotRun(i)) /\ handler' \in [Invocations -> Handlers]
    BY <1>t, <1>3, <2>1 DEF Types
  <2>3. HandlerMove(i) /\ ActMove(i)
    BY <1>1, <2>2 DEF HandlerMove, ActMove, Start, Done, Early
  <2> QED
    BY <1>t, <1>3, <2>2, <2>3 DEF Start, Side, Types
<1>4. CASE /\ handler' = [handler EXCEPT ![i] = Step("prepare", 1, None)]
           /\ calls' = calls \union {Call("prepare", i, "handler", 1, None)}
  <2>1. Step("prepare", 1, None) \in Handlers
    BY DEF Step, Handlers
  <2>2. handler'[i].step = "prepare" /\ handler' \in [Invocations -> Handlers]
    BY <1>t, <1>4, <2>1 DEF Types, Step
  <2>3. Call("prepare", i, "handler", 1, None) \in Calls
    BY DEF Call, Calls
  <2>4. \A c \in calls' \ calls : NewCall(i, c)
    BY <1>4 DEF NewCall, Call
  <2>5. HandlerMove(i) /\ ActMove(i)
    BY <1>1, <2>2 DEF HandlerMove, ActMove, Start, Early
  <2>6. \A j \in Invocations \ {i} : handler'[j] = handler[j] /\ act'[j] = act[j]
    BY <1>4, <1>t DEF Types, Start
  <2> QED
    BY <1>t, <1>4, <2>2, <2>3, <2>4, <2>5, <2>6 DEF Start, Side, Types
<1> QED
  BY <1>3, <1>4 DEF Start, Finish

LEMMA DispatchMoves ==
  ASSUME NEW i \in Invocations, Inv, Dispatch(i)
  PROVE  Moves(i)
<1>t. Types /\ ActSound(i)
  BY DEF Inv
<1>1. SUFFICES Side(i)
  BY RowSame, ToolSame, TodoSame DEF Dispatch, Moves
<1>2. CASE Reconcile(i, calls) /\ UNCHANGED act
  BY <1>2, ReconcileSide
<1>3. CASE /\ handler' = [handler EXCEPT ![i] = Step("dispatch", 1, None)]
           /\ act' = [act EXCEPT ![i] = "queued"]
           /\ UNCHANGED calls
  <2>1. Step("dispatch", 1, None) \in Handlers
    BY DEF Step, Handlers
  <2>2. handler'[i].step = "dispatch" /\ handler' \in [Invocations -> Handlers]
    BY <1>t, <1>3, <2>1 DEF Types, Step
  <2>3. act'[i] = "queued" /\ act' \in [Invocations -> ActSteps]
    BY <1>t, <1>3 DEF Types, ActSteps
  <2>4. act[i] = "none"
    BY <1>t DEF Dispatch, ActSound
  <2>5. HandlerMove(i) /\ ActMove(i)
    BY <2>2, <2>3, <2>4 DEF HandlerMove, ActMove, Early
  <2>6. \A j \in Invocations \ {i} : handler'[j] = handler[j] /\ act'[j] = act[j]
    BY <1>3, <1>t DEF Types
  <2> QED
    BY <1>t, <1>3, <2>2, <2>3, <2>5, <2>6 DEF Side, Types
<1> QED
  BY <1>2, <1>3 DEF Dispatch

LEMMA HandlerMoves ==
  ASSUME NEW i \in Invocations, Inv, PrepareCancelled(i) \/ GiveUp(i) \/ Expire(i)
  PROVE  Moves(i)
<1>1. CASE PrepareCancelled(i)
  <2>1. Failed \in Handlers /\ Failed.step = "failed"
    BY DEF Failed, Handlers
  <2>2. Side(i)
    BY <1>1, <2>1, StepSide DEF PrepareCancelled
  <2> QED
    BY <1>1, <2>2, RowSame, ToolSame, TodoSame DEF PrepareCancelled, Moves
<1>2. CASE GiveUp(i)
  <2>1. Side(i)
    BY <1>2, ReconcileSide DEF GiveUp
  <2> QED
    BY <1>2, <2>1, RowSame, ToolSame, TodoSame DEF GiveUp, Moves
<1>3. CASE Expire(i)
  BY <1>3, DropSide, RowSame, ToolSame, TodoSame DEF Expire, Moves
<1> QED
  BY <1>1, <1>2, <1>3

(***************************************************************************)
(* The dispatch activity.                                                  *)
(***************************************************************************)
LEMMA UnansweredSide ==
  ASSUME NEW i \in Invocations, Inv, act[i] \in {"execute", "running"}, Unanswered(i)
  PROVE  Side(i)
<1>1. CASE Asks(i, "settle", Unconfirmed)
  BY <1>1, AsksSide DEF Unconfirmed, Terminal
<1>2. CASE \E cause \in {"cancelled", "failure"} : Asks(i, "reconcile", cause)
  BY <1>2, AsksSide DEF Terminal, Declined
<1>3. CASE Fails(i, calls)
  BY <1>3, FailsSide
<1> QED
  BY <1>1, <1>2, <1>3 DEF Unanswered

LEMMA ActivityMoves ==
  ASSUME NEW i \in Invocations, Inv, Activity(i)
  PROVE  Moves(i)
<1>t. Types
  BY DEF Inv
<1>1. CASE Begin(i)
  <2>0. SUFFICES Side(i)
    BY <1>1, RowSame, ToolSame, TodoSame DEF Begin, Moves
  <2>1. CASE Asks(i, "reconcile", "deadline") \/ Asks(i, "claim", "unchecked")
    BY <1>1, <2>1, AsksSide DEF Begin
  <2>2. CASE Fails(i, calls)
    BY <1>1, <2>2, FailsSide DEF Begin
  <2> QED
    BY <1>1, <2>1, <2>2 DEF Begin
<1>2. CASE Execute(i)
  <2>1. act'[i] = "running" /\ ran'[i] = ran[i] + 1 /\ act[i] = "execute"
    BY <1>2, <1>t DEF Execute, Types
  <2>2. act' \in [Invocations -> ActSteps] /\ ran' \in [Invocations -> Nat]
    BY <1>2, <1>t DEF Execute, Types, ActSteps
  <2>3. ActMove(i)
    BY <2>1 DEF ActMove
  <2>4. HandlerMove(i)
    BY <1>2 DEF Execute, HandlerMove, Inv, ActSound, Early
  <2>5. \A j \in Invocations \ {i} :
          /\ handler'[j] = handler[j] /\ act'[j] = act[j]
          /\ ran'[j] = ran[j] /\ answer'[j] = answer[j]
    BY <1>2, <1>t DEF Execute, Types
  <2>6. Side(i)
    BY <1>2, <1>t, <2>1, <2>2, <2>3, <2>4, <2>5 DEF Execute, Side, Types, Untouched
  <2>7. ToolMove(i)
    BY <1>2, <1>t, <2>1, <2>2, <2>5 DEF Execute, ToolMove, Types
  <2> QED
    BY <1>2, <2>6, <2>7, RowSame, TodoSame DEF Execute, Moves
<1>3. CASE Answers(i)
  <2>1. PICK r \in Answered : answer' = [answer EXCEPT ![i] = r] /\ Asks(i, "settle", r)
    BY <1>3 DEF Answers
  <2>2. /\ answer' \in [Invocations -> Answered \union {None}]
        /\ answer'[i] = r
        /\ \A j \in Invocations \ {i} : answer'[j] = answer[j]
    BY <1>t, <2>1 DEF Types
  <2>3. Side(i)
    BY <1>3, <2>1, <2>2, AsksSide DEF Answers, Terminal
  <2>4. act[i] = "running" /\ act'[i] = "settle" /\ ran' = ran
    BY <1>3, <1>t, <2>1 DEF Answers, Asks, Types
  <2>5. ToolMove(i)
    BY <1>t, <2>2, <2>4 DEF ToolMove, Types
  <2> QED
    BY <1>3, <2>3, <2>5, RowSame, TodoSame DEF Answers, Moves
<1> QED
  BY <1>1, <1>2, <1>3 DEF Activity

LEMMA TroubleMoves ==
  ASSUME NEW i \in Invocations, Inv, Broken(i) \/ Abort(i) \/ Crash(i)
  PROVE  Moves(i)
<1>1. CASE Broken(i)
  <2>1. Side(i)
    BY <1>1, UnansweredSide DEF Broken
  <2> QED
    BY <1>1, <2>1, RowSame, ToolSame, TodoSame DEF Broken, Moves
<1>2. CASE Abort(i)
  <2>0. SUFFICES Side(i)
    BY <1>2, RowSame, ToolSame, TodoSame DEF Abort, Moves
  <2>1. CASE act[i] \in {"queued", "claim", "settle"} /\ Fails(i, calls)
    BY <2>1, FailsSide
  <2>2. CASE act[i] \in {"execute", "running"} /\ Unanswered(i)
    BY <2>2, UnansweredSide
  <2> QED
    BY <1>2, <2>1, <2>2 DEF Abort
<1>3. CASE Crash(i)
  <2>1. Side(i)
    BY <1>3, FailsSide DEF Crash
  <2> QED
    BY <1>3, <2>1, RowSame, ToolSame, TodoSame DEF Crash, Moves
<1> QED
  BY <1>1, <1>2, <1>3

(***************************************************************************)
(* The end of the workflow.                                                *)
(***************************************************************************)
LEMMA SweepRowMoves ==
  ASSUME NEW i \in Invocations, Inv, SweepRow(i)
  PROVE  Moves(i)
<1>1. ~Untouched(i)
  BY DEF SweepRow, Inv, Untouched
<1>2. RowMove(i)
  BY <1>1, ReconciledRow DEF SweepRow
<1> QED
  BY <1>2, DropSide, ToolSame, TodoSame DEF SweepRow, runVars, Moves

LEMMA RunMoves ==
  ASSUME NEW i \in Invocations, Inv,
         Finalize \/ Sweep \/ SweepAgain \/ Over \/ Terminate \/ UNCHANGED vars
  PROVE  Moves(i)
BY DropSide, RowSame, ToolSame, TodoSame
   DEF Finalize, Sweep, SweepAgain, Over, Terminate, runVars, vars, Moves

(* Every step moves one invocation, if there is one.                       *)
LEMMA StepMoves ==
  ASSUME Inv, [Next]_vars, Invocations # {}
  PROVE  \E i \in Invocations : Moves(i)
<1>1. ASSUME NEW i \in Invocations,
             \/ Start(i) \/ Dispatch(i) \/ PrepareCancelled(i) \/ GiveUp(i)
             \/ Activity(i) \/ Broken(i) \/ Abort(i) \/ Crash(i) \/ Expire(i)
      PROVE  Moves(i)
  BY <1>1, StartMoves, DispatchMoves, HandlerMoves, ActivityMoves, TroubleMoves
<1>2. ASSUME NEW c \in calls, Serve(c) \/ Lose(c)
      PROVE  c.inv \in Invocations /\ Moves(c.inv)
  BY <1>2, ServeMoves, LoseMoves DEF Inv, Types, Calls
<1>3. ASSUME Finalize \/ Sweep \/ SweepAgain \/ Over \/ Terminate \/ UNCHANGED vars
      PROVE  \A i \in Invocations : Moves(i)
  BY <1>3, RunMoves
<1>4. ASSUME NEW i \in Invocations, SweepRow(i) PROVE Moves(i)
  BY <1>4, SweepRowMoves
<1> QED
  BY <1>1, <1>2, <1>3, <1>4 DEF Next, Ending

LEMMA Inductive == Inv /\ [Next]_vars => Inv'
<1> SUFFICES ASSUME Inv, [Next]_vars PROVE Inv'
  OBVIOUS
<1>1. CASE Invocations # {}
  BY <1>1, StepMoves, MoveKeeps
<1>2. CASE Invocations = {}
  <2>1. calls = {}
    <3>1. \A c \in calls : c.inv \in Invocations
      BY DEF Inv, Types, Calls
    <3> QED
      BY <1>2, <3>1
  <2>2. UNCHANGED <<row, calls, handler, act, ran, answer, operations>> /\ todo' \subseteq Invocations
    BY <1>2, <2>1 DEF Inv, Types, Next, Ending, Finalize, Sweep, SweepAgain, Over, Terminate,
       runVars, vars, Remaining
  <2>3. Types' /\ todo' = {}
    BY <1>2, <2>2 DEF Inv, Types
  <2> QED
    BY <1>2, <2>1, <2>2, <2>3 DEF Inv
<1> QED
  BY <1>1, <1>2

THEOREM Invariant == Spec => []Inv
BY Initially, Inductive, PTL DEF Spec

(***************************************************************************)
(* The rest of the types: attempts are counted within their bound, and a   *)
(* handler has a result exactly when it is done.                           *)
(***************************************************************************)
HandlerShape(h) ==
  /\ h.tries \in 0 .. Attempts
  /\ h.result # None <=> h.step = "done"

Tried(c) == c.try \in 1 .. Attempts

RunSteps == {"open", "draining", "cancelling", "sweeping", "over", "terminated"}

Shaped ==
  /\ \A c \in calls : Tried(c)
  /\ \A i \in Invocations : HandlerShape(handler[i])
  /\ Outbound \subseteq operations /\ operations \subseteq Invocations
  /\ expired \subseteq Invocations
  /\ run \in RunSteps
  /\ faults \in 0 .. MaxFaults

(* What a step does to the calls and the handlers.                         *)
SideShaped ==
  /\ \A c \in calls' : Tried(c)
  /\ \/ UNCHANGED handler
     \/ \E i \in Invocations, h \in Handlers :
          handler' = [handler EXCEPT ![i] = h] /\ HandlerShape(h)

(* A step that is no fault, or one more within the bound.                  *)
FaultsCounted == UNCHANGED faults \/ Fault

LEMMA FinishShaped ==
  ASSUME Shaped, NEW i \in Invocations, NEW r \in Terminal, NEW B, B \subseteq calls,
         Finish(i, r, B)
  PROVE  SideShaped
<1>1. Done(r) \in Handlers /\ HandlerShape(Done(r))
  BY AttemptsAssumption
     DEF Done, Handlers, HandlerShape, None, Terminal, Answered, Declined
<1> QED BY <1>1 DEF Finish, Shaped, SideShaped

LEMMA StepShape ==
  ASSUME NEW s \in {"prepare", "prepared", "dispatch", "reconcile"},
         NEW n \in 1 .. Attempts, NEW cause \in {None, "failure", "deadline", "cancelled"}
  PROVE  Step(s, n, cause) \in Handlers /\ HandlerShape(Step(s, n, cause))
BY DEF Step, Handlers, HandlerShape

LEMMA ReconcileShaped ==
  ASSUME Shaped, NEW i \in Invocations, NEW B, B \subseteq calls, Reconcile(i, B)
  PROVE  SideShaped
<1>1. PICK cause \in {"failure", "deadline", "cancelled"} :
        /\ handler' = [handler EXCEPT ![i] = Step("reconcile", 1, cause)]
        /\ calls' = B \union {Call("reconcile", i, "handler", 1, cause)}
  BY DEF Reconcile, Causes
<1>2. 1 \in 1 .. Attempts
  BY AttemptsAssumption
<1>3. \A c \in calls' : Tried(c)
  BY <1>1, <1>2 DEF Shaped, Tried, Call
<1> QED BY <1>1, <1>2, <1>3, StepShape DEF SideShaped

(* Temporal's retries stop at the bound.                                   *)
LEMMA RetryShaped ==
  ASSUME Types, Shaped, NEW i \in Invocations, NEW B, B \subseteq calls, Retry(i, B),
         handler[i].step \in {"prepare", "reconcile"}
  PROVE  SideShaped
<1> DEFINE h == handler[i]
           n == Step(h.step, h.tries + 1, h.cause)
           d == Call(h.step, i, "handler", h.tries + 1, h.cause)
<1>h. /\ h.tries \in 0 .. Attempts
      /\ h.cause \in {None, "failure", "deadline", "cancelled"}
  BY DEF Types, Handlers, Shaped, HandlerShape
<1>1. CASE /\ h.tries < Attempts
           /\ handler' = [handler EXCEPT ![i] = n]
           /\ calls' = B \union {d}
  <2>1. h.tries + 1 \in 1 .. Attempts
    BY <1>h, <1>1, AttemptsAssumption
  <2>2. n \in Handlers /\ HandlerShape(n)
    BY <1>h, <2>1, StepShape
  <2>3. Tried(d)
    BY <2>1 DEF Tried, Call
  <2> HIDE DEF h, n, d
  <2> QED BY <1>1, <2>2, <2>3 DEF Shaped, SideShaped
<1>2. CASE handler' = [handler EXCEPT ![i] = Failed] /\ calls' = B
  <2>1. Failed \in Handlers /\ HandlerShape(Failed)
    BY AttemptsAssumption DEF Failed, Handlers, HandlerShape
  <2> QED BY <1>2, <2>1 DEF Shaped, SideShaped
<1> QED BY <1>1, <1>2 DEF Retry

LEMMA AsksShaped ==
  ASSUME Shaped, NEW i, NEW op, NEW arg, Asks(i, op, arg)
  PROVE  SideShaped
BY AttemptsAssumption DEF Asks, Call, Tried, Shaped, SideShaped

LEMMA DropShaped ==
  ASSUME Shaped, calls' \subseteq calls, UNCHANGED handler
  PROVE  SideShaped
BY DEF Shaped, SideShaped

LEMMA FailsShaped ==
  ASSUME Shaped, NEW i \in Invocations, NEW B, B \subseteq calls, Fails(i, B)
  PROVE  SideShaped
BY ReconcileShaped, DropShaped DEF Fails

LEMMA ErrorShaped ==
  ASSUME Inv, Shaped, NEW c \in calls, Waiting(c), NEW B, B \subseteq calls, Error(c, B)
  PROVE  SideShaped
<1>1. Types
  BY DEF Inv
<1> QED BY <1>1, WaitingStep, RetryShaped, FailsShaped DEF Error

LEMMA ReplyShaped ==
  ASSUME Inv, Shaped, NEW c \in calls, Waiting(c), NEW r, NEW B, B \subseteq calls,
         Reply(c, r, B)
  PROVE  SideShaped
<1>1. c.inv \in Invocations
  BY WaitingStep
<1>2. CASE r \in Terminal
  BY <1>1, <1>2, FinishShaped, DropShaped DEF Reply, Returns
<1>3. CASE r \notin Terminal /\ c.from = "handler"
  <2>1. 1 \in 1 .. Attempts
    BY AttemptsAssumption
  <2>2. Step("prepared", 1, None) \in Handlers /\ HandlerShape(Step("prepared", 1, None))
    BY <2>1, StepShape
  <2> QED BY <1>1, <1>3, <2>2 DEF Reply, Shaped, SideShaped
<1>4. CASE r \notin Terminal /\ c.from # "handler"
  BY <1>4, DropShaped DEF Reply
<1> QED BY <1>2, <1>3, <1>4

LEMMA RespondShaped ==
  ASSUME Inv, Shaped, NEW c \in calls, NEW r, Respond(c, r)
  PROVE  SideShaped /\ FaultsCounted
<1>1. calls \ {c} \subseteq calls
  OBVIOUS
<1> QED BY <1>1, ReplyShaped, ErrorShaped, DropShaped DEF Respond, NoFault, FaultsCounted

LEMMA RefuseShaped ==
  ASSUME Inv, Shaped, NEW c \in calls, Refuse(c)
  PROVE  SideShaped /\ FaultsCounted
<1>1. calls \ {c} \subseteq calls
  OBVIOUS
<1> QED BY <1>1, ErrorShaped, DropShaped DEF Refuse, NoFault, FaultsCounted

LEMMA ServeShaped ==
  ASSUME Inv, Shaped, NEW c \in calls, Serve(c) \/ Lose(c)
  PROVE  SideShaped /\ FaultsCounted
<1>1. CASE ServePrepare(c) \/ ServeReconcile(c) \/ Claim(c) \/ Settle(c)
  BY <1>1, RespondShaped, RefuseShaped DEF ServePrepare, ServeReconcile, Claim, Settle
<1>2. CASE Check(c)
  <2>1. CASE /\ calls' = (calls \ {c}) \union {[c EXCEPT !.arg = "checked"]}
             /\ UNCHANGED handler
             /\ NoFault
    <3>1. Tried([c EXCEPT !.arg = "checked"])
      <4>1. c \in Calls /\ Tried(c)
        BY DEF Inv, Types, Shaped
      <4>2. [c EXCEPT !.arg = "checked"].try = c.try
        BY <4>1 DEF Calls
      <4> QED BY <4>1, <4>2 DEF Tried
    <3> QED BY <2>1, <3>1 DEF Shaped, SideShaped, NoFault, FaultsCounted
  <2>2. CASE \E r : Respond(c, r)
    BY <2>2, RespondShaped
  <2> QED BY <1>2, <2>1, <2>2 DEF Check
<1>3. CASE Lose(c)
  <2>1. calls \subseteq calls /\ calls \ {c} \subseteq calls
    OBVIOUS
  <2> QED BY <1>3, <2>1, ErrorShaped DEF Lose, FaultsCounted
<1> QED BY <1>1, <1>2, <1>3 DEF Serve

LEMMA HandlerStepsShaped ==
  ASSUME Shaped, NEW i \in Invocations,
         Start(i) \/ Dispatch(i) \/ PrepareCancelled(i) \/ GiveUp(i)
  PROVE  SideShaped /\ FaultsCounted
<1>0. 1 \in 1 .. Attempts /\ calls \subseteq calls
  BY AttemptsAssumption
<1>1. CASE Start(i)
  <2>1. CASE Finish(i, NotRun(i), calls)
    <3>1. NotRun(i) \in Terminal
      BY DEF NotRun, Terminal, Answered, Declined
    <3> QED BY <1>0, <1>1, <2>1, <3>1, FinishShaped DEF Start, FaultsCounted
  <2>2. CASE /\ handler' = [handler EXCEPT ![i] = Step("prepare", 1, None)]
             /\ calls' = calls \union {Call("prepare", i, "handler", 1, None)}
    <3>1. Step("prepare", 1, None) \in Handlers /\ HandlerShape(Step("prepare", 1, None))
      BY <1>0, StepShape
    <3>2. \A c \in calls' : Tried(c)
      BY <1>0, <2>2 DEF Shaped, Tried, Call
    <3> QED BY <1>1, <2>2, <3>1, <3>2 DEF Start, SideShaped, FaultsCounted
  <2> QED BY <1>1, <2>1, <2>2 DEF Start
<1>2. CASE Dispatch(i)
  <2>1. CASE Reconcile(i, calls)
    BY <1>0, <1>2, <2>1, ReconcileShaped DEF Dispatch, FaultsCounted
  <2>2. CASE handler' = [handler EXCEPT ![i] = Step("dispatch", 1, None)] /\ UNCHANGED calls
    <3>1. Step("dispatch", 1, None) \in Handlers /\ HandlerShape(Step("dispatch", 1, None))
      BY <1>0, StepShape
    <3> QED BY <1>2, <2>2, <3>1 DEF Dispatch, Shaped, SideShaped, FaultsCounted
  <2> QED BY <1>2, <2>1, <2>2 DEF Dispatch
<1>3. CASE PrepareCancelled(i)
  <2>1. Failed \in Handlers /\ HandlerShape(Failed)
    BY AttemptsAssumption DEF Failed, Handlers, HandlerShape
  <2> QED BY <1>3, <2>1 DEF PrepareCancelled, Shaped, SideShaped, FaultsCounted
<1>4. CASE GiveUp(i)
  BY <1>0, <1>4, ReconcileShaped DEF GiveUp, NoFault, FaultsCounted
<1> QED BY <1>1, <1>2, <1>3, <1>4

LEMMA ActivityShaped ==
  ASSUME Shaped, NEW i \in Invocations,
         Activity(i) \/ Broken(i) \/ Abort(i) \/ Crash(i)
  PROVE  SideShaped /\ FaultsCounted
<1>0. calls \subseteq calls
  OBVIOUS
<1>u. Unanswered(i) => SideShaped
  BY <1>0, AsksShaped, FailsShaped DEF Unanswered
<1>1. CASE Begin(i)
  BY <1>0, <1>1, AsksShaped, FailsShaped DEF Begin, NoFault, FaultsCounted
<1>2. CASE Execute(i)
  BY <1>0, <1>2, DropShaped DEF Execute, FaultsCounted
<1>3. CASE Answers(i)
  BY <1>3, AsksShaped DEF Answers, FaultsCounted
<1>4. CASE Broken(i)
  BY <1>u, <1>4 DEF Broken, FaultsCounted
<1>5. CASE Abort(i)
  BY <1>0, <1>u, <1>5, FailsShaped DEF Abort, FaultsCounted
<1>6. CASE Crash(i)
  BY <1>0, <1>6, FailsShaped DEF Crash, FaultsCounted
<1> QED BY <1>1, <1>2, <1>3, <1>4, <1>5, <1>6 DEF Activity

LEMMA ShapedKept == Inv /\ Shaped /\ [Next]_vars => Shaped'
<1> SUFFICES ASSUME Inv, Shaped, [Next]_vars PROVE Shaped'
  OBVIOUS
<1>0. calls \subseteq calls
  OBVIOUS
<1>1. SideShaped /\ FaultsCounted
  <2>1. CASE \E i \in Invocations : \/ Start(i) \/ Dispatch(i) \/ PrepareCancelled(i) \/ GiveUp(i)
                                    \/ Activity(i) \/ Broken(i) \/ Abort(i) \/ Crash(i)
    BY <2>1, HandlerStepsShaped, ActivityShaped
  <2>2. CASE \E c \in calls : Serve(c) \/ Lose(c)
    BY <2>2, ServeShaped
  <2>3. CASE \/ \E i \in Invocations : Expire(i) \/ SweepRow(i)
             \/ Finalize \/ Sweep \/ Over \/ SweepAgain \/ Terminate \/ UNCHANGED vars
    BY <1>0, <2>3, DropShaped DEF Expire, SweepRow, Finalize, Sweep, Over, SweepAgain, Terminate,
       runVars, vars, FaultsCounted
  <2> QED BY <2>1, <2>2, <2>3 DEF Next, Ending
<1>2. faults' \in 0 .. MaxFaults
  BY <1>1, MaxFaultsAssumption DEF Shaped, FaultsCounted, Fault
<1>3. \A i \in Invocations : HandlerShape(handler'[i])
  BY <1>1 DEF SideShaped, Shaped, Inv, Types
<1>4. expired' \subseteq Invocations /\ run' \in RunSteps
  <2>1. CASE \E i \in Invocations : Expire(i)
    BY <2>1 DEF Expire, Shaped
  <2>2. CASE Finalize \/ Sweep \/ Over \/ Terminate
    BY <2>2 DEF Finalize, Sweep, Over, Terminate, runVars, Shaped, RunSteps
  <2>3. CASE UNCHANGED <<expired, run>>
    BY <2>3 DEF Shaped
  <2>4. CASE \E i \in Invocations : \/ Start(i) \/ Dispatch(i) \/ PrepareCancelled(i) \/ GiveUp(i)
                                    \/ Activity(i) \/ Broken(i) \/ Abort(i) \/ Crash(i)
    BY <2>3, <2>4 DEF Start, Dispatch, PrepareCancelled, GiveUp, Activity, Begin, Execute, Answers,
       Broken, Abort, Crash
  <2>5. CASE \/ \E c \in calls : Serve(c) \/ Lose(c)
             \/ \E i \in Invocations : SweepRow(i)
             \/ SweepAgain \/ UNCHANGED vars
    BY <2>3, <2>5 DEF Serve, Lose, SweepRow, SweepAgain, runVars, vars
  <2> QED BY <2>1, <2>2, <2>4, <2>5 DEF Next, Ending
<1>5. operations' = operations
  <2>1. CASE Invocations # {}
    BY <2>1, StepMoves DEF Moves
  <2>2. CASE Invocations = {}
    <3>1. calls = {}
      BY <2>2 DEF Inv, Types, Calls
    <3> QED
      BY <2>2, <3>1 DEF Next, Ending, Finalize, Sweep, SweepAgain, Over, Terminate, runVars, vars
  <2> QED BY <2>1, <2>2
<1> QED BY <1>1, <1>2, <1>3, <1>4, <1>5 DEF SideShaped, Shaped

(***************************************************************************)
(* The theorems.                                                           *)
(***************************************************************************)

(* Every variable keeps its type: in particular no activity is attempted   *)
(* beyond its bound, and a handler has a result exactly when it is done.   *)
THEOREM TypeCorrect == Spec => []TypeOK
<1>1. Init => Shaped
  BY AttemptsAssumption, MaxFaultsAssumption, OutboundAssumption
     DEF Init, Idle, Shaped, HandlerShape, RunSteps
<1>2. Inv /\ Shaped => TypeOK
  <2> SUFFICES ASSUME Inv, Shaped PROVE TypeOK
    OBVIOUS
  <2>1. calls \subseteq CallType
    BY DEF Inv, Types, Shaped, Tried, Calls, CallType
  <2>2. handler \in [Invocations -> HandlerType]
    <3>1. \A i \in Invocations : handler[i] \in Handlers /\ HandlerShape(handler[i])
      BY DEF Inv, Types, Shaped
    <3>2. \A h \in Handlers : HandlerShape(h) => h \in HandlerType
      BY DEF Handlers, HandlerShape, HandlerType
    <3> QED BY <3>1, <3>2 DEF Inv, Types
  <2> QED BY <2>1, <2>2 DEF Inv, Types, Shaped, HandlerShape, ActSteps, RunSteps, TypeOK
<1> QED
  BY <1>1, <1>2, Initially, Inductive, ShapedKept, PTL DEF Spec

(* The backend's prepared-or-dispatched record decides: a row closed       *)
(* without having been claimed belongs to a tool that was not started, and *)
(* no claim on its way can start it any more.                              *)
THEOREM DeclinedNeverRunsCorrect == Spec => []DeclinedNeverRuns
<1>1. Inv => DeclinedNeverRuns
  BY DEF Inv, DeclinedNeverRuns, ActSound, Started, Answered, Declined
<1> QED
  BY <1>1, Invariant, PTL

(* A completed record is the answer of the one start of the tool; a failed *)
(* one is too, or it closed an MCP operation that was never started.       *)
THEOREM ConfirmedMeansRanCorrect == Spec => []ConfirmedMeansRan
<1>1. Inv => ConfirmedMeansRan
  BY DEF Inv, ConfirmedMeansRan, RowSound, Confirmed, Unstarted
<1> QED
  BY <1>1, Invariant, PTL

(* Update results and stored results agree, whichever of the settlement,   *)
(* its answer and the reconciliation came first.                           *)
THEOREM ToldWhatIsRecordedCorrect == Spec => []ToldWhatIsRecorded
<1>1. Inv => ToldWhatIsRecorded
  BY DEF Inv, ToldWhatIsRecorded, Told, Untouched
<1> QED
  BY <1>1, Invariant, PTL

(* No transaction of the backend replaces a stored result.                 *)
THEOREM ResultIsFinalCorrect == Spec => ResultIsFinal
<1>1. Inv /\ [Next]_vars => [\A i \in Invocations : row[i] \in Terminal => row'[i] = row[i]]_vars
  <2> SUFFICES ASSUME Inv, [Next]_vars, NEW j \in Invocations, row[j] \in Terminal
               PROVE  row'[j] = row[j]
    OBVIOUS
  <2> QED
    BY StepMoves DEF Moves, RowMove
<1> QED
  BY <1>1, Invariant, PTL DEF Spec, ResultIsFinal

===============================================================================
