--------------------------- MODULE HumanInputProofs ---------------------------
(***************************************************************************)
(* Proofs about human-input gates, for any number of gates, requests and   *)
(* resolvers.  The inductive invariant follows an answer from the row to   *)
(* the gate: the row, the event and the signal of a request all say the    *)
(* one answer that was accepted for it.                                    *)
(***************************************************************************)
EXTENDS HumanInputProps, TLAPS

Types ==
  /\ request \in [Requests -> RequestType]
  /\ payload \in [Requests -> Answers \union {None}]
  /\ gate \in [Gates -> GateType]
  /\ resolution \in [Gates -> Answers \union {None}]
  /\ look \in [Resolvers -> [req : Requests \union {NoRequest}, answer : Answers \union {None}]]
  /\ accepted \subseteq Requests \X Resolvers \X Answers
  /\ phase \in [Requests -> {"absent", "queued", "done", "parked"}]

(* An accepted answer is in its row, which is pending no more, and in its  *)
(* event.                                                                  *)
Recorded ==
  \A x \in accepted :
    /\ request[x[1]].status \in {"resolved", "expired"}
    /\ request[x[1]].gate \in Gates
    /\ request[x[1]].answer = x[3]
    /\ payload[x[1]] = x[3]

(* An answer for gate g was accepted, and its row still says it.           *)
Committed(g, a) ==
  \E x \in accepted : request[x[1]].gate = g /\ request[x[1]].answer = a /\ x[3] = a

Traced ==
  /\ \A q \in Requests : phase[q] = "absent" <=> payload[q] = None
  /\ \A q \in Requests :
       payload[q] # None =>
         request[q].gate \in Gates /\ Committed(request[q].gate, payload[q])
  /\ \A q \in Requests : request[q].status \in {"pending", "absent"} => payload[q] = None
  /\ \A q \in Requests : request[q].status # "absent" => request[q].gate \in Gates
  /\ \A g \in Gates : resolution[g] # None => Committed(g, resolution[g])
  /\ \A g \in Gates : gate[g].step = "answered" => Committed(g, gate[g].answer)
  /\ \A c \in Resolvers :
       look[c].req # NoRequest => look[c].answer \in Answers /\ request[look[c].req].status # "absent"
  /\ \A g \in Gates :
       gate[g].step \in {"waiting", "expiring", "failed"} =>
         gate[g].req \in Requests /\ request[gate[g].req].status # "absent"

Inv ==
  /\ Types
  /\ Recorded
  /\ Traced
  /\ OneWinner
  /\ TimedOutIsExpired

(* What a step never does to a row: move it to another gate, change an     *)
(* accepted answer, or bring a request back.                               *)
RowKept(q) ==
  /\ request[q].status # "absent" =>
       request'[q].status # "absent" /\ request'[q].gate = request[q].gate
  /\ request[q].status \in {"resolved", "expired"} =>
       /\ request'[q].status \in {request[q].status, "expired"}
       /\ request'[q].answer = request[q].answer

(***************************************************************************)
(* The initial states.                                                     *)
(***************************************************************************)
LEMMA Initially == Init => Inv
<1> SUFFICES ASSUME Init PROVE Inv
  OBVIOUS
<1> USE DEF Init
<1>1. Types
  BY DEF Types, RequestType, GateType, NoLook, Outbox!Init
<1>2. Recorded /\ OneWinner /\ TimedOutIsExpired
  BY DEF Recorded, OneWinner, TimedOutIsExpired
<1>3. Traced
  BY DEF Traced, NoLook, Outbox!Init
<1> QED
  BY <1>1, <1>2, <1>3 DEF Inv

(***************************************************************************)
(* Types and rows.                                                         *)
(***************************************************************************)

(* One step per action; only the activities and Resolve write rows.        *)
LEMMA TypesKept == Inv /\ [Next]_vars => Types' /\ \A q \in Requests : RowKept(q)
<1> SUFFICES ASSUME Inv, [Next]_vars
             PROVE  Types' /\ \A q \in Requests : RowKept(q)
  OBVIOUS
<1>t. Types
  BY DEF Inv
<1>u. ASSUME UNCHANGED request
      PROVE  \A q \in Requests : RowKept(q)
  BY <1>u, <1>t DEF RowKept, Types
<1>1. ASSUME NEW g \in Gates, Reach(g)
      PROVE  Types' /\ \A q \in Requests : RowKept(q)
  <2>1. [gate[g] EXCEPT !.step = "creating"] \in GateType
    BY <1>t DEF Types, GateType
  <2>2. gate' = [gate EXCEPT ![g] = [gate[g] EXCEPT !.step = "creating"]]
    BY <1>1 DEF Reach
  <2> QED
    BY <1>1, <1>t, <1>u, <2>1, <2>2 DEF Types, Reach, gateVars, outbox
<1>2. ASSUME NEW g \in Gates, CreateRequest(g)
      PROVE  Types' /\ \A q \in Requests : RowKept(q)
  <2>1. PICK q \in Unused :
          /\ request' = [request EXCEPT ![q] = [status |-> "pending", gate |-> g, answer |-> None]]
          /\ gate' = gate \/ gate' = [gate EXCEPT ![g] = Waiting(g, q)]
    BY <1>2 DEF CreateRequest
  <2>2. q \in Requests /\ request[q].status = "absent"
    BY DEF Unused
  <2>3. request' \in [Requests -> RequestType]
    BY <1>t, <2>1, <2>2 DEF Types, RequestType
  <2>4. Waiting(g, q) \in GateType
    BY <2>2 DEF Waiting, GateType
  <2>5. gate' \in [Gates -> GateType]
    BY <1>t, <2>1, <2>4 DEF Types
  <2>6. \A r \in Requests : RowKept(r)
    BY <1>t, <2>1, <2>2 DEF RowKept, Types
  <2> QED
    BY <1>2, <1>t, <2>3, <2>5, <2>6 DEF Types, CreateRequest, gateVars, outbox
<1>3. ASSUME NEW g \in Gates, Resume(g)
      PROVE  Types' /\ \A q \in Requests : RowKept(q)
  <2>1. gate[g] \in GateType /\ resolution[g] \in Answers \union {None}
    BY <1>t DEF Types
  <2> DEFINE d == [gate[g] EXCEPT !.step = "answered"]
  <2>2. d \in GateType
    BY <2>1 DEF GateType
  <2>3. [d EXCEPT !.answer = resolution[g]] \in GateType
    <3> HIDE DEF d
    <3> QED BY <2>1, <2>2 DEF GateType
  <2>4. gate' = [gate EXCEPT ![g] = [d EXCEPT !.answer = resolution[g]]]
    BY <1>3 DEF Resume
  <2> HIDE DEF d
  <2>5. gate' \in [Gates -> GateType]
    BY <1>t, <2>3, <2>4 DEF Types
  <2> QED
    BY <1>3, <1>t, <1>u, <2>5 DEF Types, Resume, gateVars, outbox
<1>4. ASSUME NEW g \in Gates, Timeout(g)
      PROVE  Types' /\ \A q \in Requests : RowKept(q)
  <2>1. [gate[g] EXCEPT !.step = "expiring"] \in GateType
    BY <1>t DEF Types, GateType
  <2>2. gate' = [gate EXCEPT ![g] = [gate[g] EXCEPT !.step = "expiring"]]
    BY <1>4 DEF Timeout
  <2> QED
    BY <1>4, <1>t, <1>u, <2>1, <2>2 DEF Types, Timeout, gateVars, outbox
<1>5. ASSUME NEW g \in Gates, Expire(g)
      PROVE  Types' /\ \A q \in Requests : RowKept(q)
  <2>1. PICK q : q = gate[g].req
    OBVIOUS
  <2>2. q \in Requests /\ request[q].status # "absent"
    BY <1>5, <2>1 DEF Inv, Traced, Expire, At
  <2>3. /\ [request[q] EXCEPT !.status = "expired"] \in RequestType
        /\ [gate[g] EXCEPT !.step = "failed"] \in GateType
    BY <1>t, <2>2 DEF Types, RequestType, GateType
  <2>4. /\ request' = [request EXCEPT ![q] = [request[q] EXCEPT !.status = "expired"]]
        /\ gate' = [gate EXCEPT ![g] = [gate[g] EXCEPT !.step = "failed"]]
    BY <1>5, <2>1 DEF Expire
  <2>5. request' \in [Requests -> RequestType] /\ gate' \in [Gates -> GateType]
    BY <1>t, <2>2, <2>3, <2>4 DEF Types
  <2>6. \A r \in Requests : r # q => request'[r] = request[r]
    BY <1>t, <2>4 DEF Types
  <2>7. /\ request'[q].status = "expired" /\ request'[q].gate = request[q].gate
        /\ request'[q].answer = request[q].answer
    BY <1>t, <2>2, <2>4 DEF Types, RequestType
  <2>8. \A r \in Requests : RowKept(r)
    BY <1>t, <2>6, <2>7 DEF RowKept
  <2> QED
    BY <1>5, <1>t, <2>5, <2>8 DEF Types, Expire, gateVars, outbox
<1>6. ASSUME NEW c \in Resolvers, NEW q \in Requests, NEW a \in Answers, Look(c, q, a)
      PROVE  Types' /\ \A r \in Requests : RowKept(r)
  BY <1>6, <1>t, <1>u DEF Types, Look, outbox
<1>7. ASSUME NEW c \in Resolvers, Resolve(c)
      PROVE  Types' /\ \A q \in Requests : RowKept(q)
  <2>1. look' \in [Resolvers -> [req : Requests \union {NoRequest}, answer : Answers \union {None}]]
    BY <1>7, <1>t DEF Types, Resolve, NoLook
  <2>2. CASE UNCHANGED <<request, payload, accepted, outbox>>
    BY <1>7, <1>t, <1>u, <2>1, <2>2 DEF Types, Resolve, outbox
  <2>3. CASE ~ UNCHANGED <<request, payload, accepted, outbox>>
    <3>1. PICK q, a : q = look[c].req /\ a = look[c].answer
      OBVIOUS
    <3>2. q \in Requests /\ a \in Answers /\ request[q].status = "pending"
      BY <1>7, <1>t, <2>3, <3>1 DEF Types, Resolve, StillPending, Inv, Traced
    <3>3. /\ request' = [request EXCEPT ![q] = [request[q] EXCEPT !.status = "resolved", !.answer = a]]
          /\ payload' = payload \/ payload' = [payload EXCEPT ![q] = a]
          /\ accepted' = accepted \union {<<q, c, a>>}
          /\ phase' = phase \/ phase' = [phase EXCEPT ![q] = "queued"]
      BY <1>7, <2>3, <3>1 DEF Resolve, Queued, Outbox!Enqueue, outbox
    <3>4. [request[q] EXCEPT !.status = "resolved", !.answer = a] \in RequestType
      BY <1>t, <3>2 DEF Types, RequestType
    <3>5. request' \in [Requests -> RequestType]
      BY <1>t, <3>2, <3>3, <3>4 DEF Types
    <3>6. /\ \A r \in Requests : r # q => request'[r] = request[r]
          /\ request'[q].status = "resolved" /\ request'[q].gate = request[q].gate
      BY <1>t, <3>2, <3>3 DEF Types, RequestType
    <3>7. \A r \in Requests : RowKept(r)
      BY <1>t, <3>2, <3>6 DEF RowKept
    <3> QED
      BY <1>7, <1>t, <2>1, <3>2, <3>3, <3>5, <3>7 DEF Types, Resolve
  <2> QED
    BY <2>2, <2>3
<1>8. ASSUME NEW q \in Requests, Dispatch(q) \/ SignalFails(q) \/ Settle(q) \/ Park(q) \/ Requeue(q)
      PROVE  Types' /\ \A r \in Requests : RowKept(r)
  BY <1>8, <1>t, <1>u DEF Types, Dispatch, SignalFails, outbox, Settle, Park, Requeue, signalVars, Outbox!Finish, Outbox!Park, Outbox!Requeue
<1>9. ASSUME NEW q \in Requests, Signal(q)
      PROVE  Types' /\ \A r \in Requests : RowKept(r)
  BY <1>9, <1>t, <1>u DEF Types, Signal, Heard, signalVars, outbox
<1>10. CASE RunEnds \/ UNCHANGED vars
  BY <1>10, <1>t, <1>u DEF Types, RunEnds, vars, outbox
<1> QED
  BY <1>1, <1>2, <1>3, <1>4, <1>5, <1>6, <1>7, <1>8, <1>9, <1>10 DEF Next, GateStep, Delivery

(* A committed answer stays committed.                                     *)
LEMMA CommittedKept ==
  ASSUME Inv, [Next]_vars, NEW g, NEW a, Committed(g, a)
  PROVE  Committed(g, a)'
<1>1. PICK x \in accepted : request[x[1]].gate = g /\ request[x[1]].answer = a /\ x[3] = a
  BY DEF Committed
<1>2. x[1] \in Requests /\ request[x[1]].status \in {"resolved", "expired"}
  BY <1>1 DEF Inv, Types, Recorded
<1>3. request'[x[1]].gate = g /\ request'[x[1]].answer = a
  BY <1>1, <1>2, TypesKept DEF RowKept
<1>4. x \in accepted'
  BY DEF Next, vars, Reach, GateStep, CreateRequest, Resume, Expire, Timeout, gateVars, RunEnds, Look,
     Resolve, Delivery, Dispatch, Signal, SignalFails, Settle, Park, Requeue, signalVars
<1> QED
  BY <1>1, <1>3, <1>4 DEF Committed

(***************************************************************************)
(* Accepting an answer.                                                    *)
(***************************************************************************)

(* What the one accepting step does: the request was pending, so nothing   *)
(* was accepted for it and its event was not queued.                       *)
Accepts(q, c, a) ==
  /\ q \in Requests /\ c \in Resolvers /\ a \in Answers
  /\ request[q].status = "pending" /\ payload[q] = None /\ phase[q] = "absent"
  /\ request' = [request EXCEPT ![q] = [request[q] EXCEPT !.status = "resolved", !.answer = a]]
  /\ payload' = [payload EXCEPT ![q] = a]
  /\ phase' = [phase EXCEPT ![q] = "queued"]
  /\ accepted' = accepted \union {<<q, c, a>>}
  /\ UNCHANGED <<gate, resolution>>

(* Any other step queues no event and accepts nothing.                     *)
AcceptsNothing ==
  /\ UNCHANGED <<accepted, payload>>
  /\ \A q \in Requests : phase'[q] = "absent" <=> phase[q] = "absent"

LEMMA OnlyResolveAccepts ==
  Inv /\ [Next]_vars => AcceptsNothing \/ \E q, c, a : Accepts(q, c, a)
<1> SUFFICES ASSUME Inv, [Next]_vars
             PROVE  AcceptsNothing \/ \E q, c, a : Accepts(q, c, a)
  OBVIOUS
<1>t. Types
  BY DEF Inv
<1>1. ASSUME NEW c \in Resolvers, Resolve(c), StillPending(look[c].req), ~ UNCHANGED <<payload, accepted, phase>>
      PROVE  \E q, a : Accepts(q, c, a)
  <2>1. PICK q, a : q = look[c].req /\ a = look[c].answer
    OBVIOUS
  <2>2. q \in Requests /\ a \in Answers /\ request[q].status = "pending"
    BY <1>1, <2>1 DEF Resolve, StillPending, Inv, Traced, Types
  <2>3. payload[q] = None /\ phase[q] = "absent"
    BY <2>2 DEF Inv, Traced
  <2>4. Accepts(q, c, a)
    BY <1>1, <2>1, <2>2, <2>3 DEF Accepts, Resolve, Queued, Outbox!Enqueue, outbox
  <2> QED
    BY <2>4
<1>2. ASSUME NEW c \in Resolvers, Resolve(c), ~StillPending(look[c].req)
      PROVE  AcceptsNothing
  BY <1>2 DEF Resolve, AcceptsNothing, outbox
<1>3. ASSUME NEW q \in Requests, Settle(q) \/ Park(q) \/ Requeue(q)
      PROVE  AcceptsNothing
  BY <1>3, <1>t DEF AcceptsNothing, Types, Settle, Park, Requeue, signalVars, Outbox!Finish, Outbox!Park, Outbox!Requeue
<1>4. CASE UNCHANGED <<payload, accepted, phase>>
  BY <1>4 DEF AcceptsNothing
<1> QED
  BY <1>1, <1>2, <1>3, <1>4
     DEF Next, vars, outbox, Reach, GateStep, CreateRequest, Resume, Expire, Timeout, gateVars, RunEnds, Look,
         Delivery, Dispatch, Signal, SignalFails, signalVars

LEMMA RecordedKept == Inv /\ [Next]_vars => Recorded' /\ OneWinner'
<1> SUFFICES ASSUME Inv, [Next]_vars
             PROVE  Recorded' /\ OneWinner'
  OBVIOUS
<1>t. Types /\ Recorded /\ OneWinner /\ \A q \in Requests : RowKept(q)
  BY TypesKept DEF Inv
<1>1. ASSUME NEW x \in accepted
      PROVE  /\ request'[x[1]].status \in {"resolved", "expired"}
             /\ request'[x[1]].gate \in Gates
             /\ request'[x[1]].answer = x[3]
  BY <1>t DEF Types, Recorded, RowKept
<1>2. CASE UNCHANGED <<accepted, payload>>
  BY <1>t, <1>1, <1>2 DEF Recorded, OneWinner
<1>3. ASSUME NEW q, NEW c, NEW a, Accepts(q, c, a)
      PROVE  Recorded' /\ OneWinner'
  <2>1. /\ request[q] \in RequestType /\ request[q].status = "pending" /\ request[q].gate \in Gates
        /\ \A x \in accepted : x[1] \in Requests /\ x[1] # q
    BY <1>t, <1>3 DEF Accepts, Types, Recorded, Inv, Traced
  <2>2. /\ request'[q].status = "resolved" /\ request'[q].gate \in Gates /\ request'[q].answer = a
        /\ payload'[q] = a
        /\ \A r \in Requests : r # q => payload'[r] = payload[r]
    BY <1>t, <1>3, <2>1 DEF Accepts, Types, RequestType
  <2>3. accepted' = accepted \union {<<q, c, a>>}
    BY <1>3 DEF Accepts
  <2>4. Recorded'
    BY <1>t, <1>1, <2>1, <2>2, <2>3 DEF Recorded
  <2>5. OneWinner'
    BY <1>t, <2>1, <2>3 DEF OneWinner
  <2> QED
    BY <2>4, <2>5
<1> QED
  BY <1>2, <1>3, OnlyResolveAccepts DEF AcceptsNothing

(***************************************************************************)
(* Carrying an answer to its gate.                                         *)
(***************************************************************************)

LEMMA TracedKept == Inv /\ [Next]_vars => Traced'
<1> SUFFICES ASSUME Inv, [Next]_vars
             PROVE  Traced'
  OBVIOUS
<1>t. Types /\ Traced /\ Types' /\ \A q \in Requests : RowKept(q)
  BY TypesKept DEF Inv
<1>g. \A g, a : Committed(g, a) => Committed(g, a)'
  BY CommittedKept
<1>1. \A q \in Requests : request'[q].status # "absent" => request'[q].gate \in Gates
  <2>1. ASSUME NEW g \in Gates, CreateRequest(g), NEW q \in Requests, request'[q].status # "absent"
        PROVE  request'[q].gate \in Gates
    BY <1>t, <2>1 DEF CreateRequest, Unused, Types, Traced
  <2>2. CASE \A q \in Requests : request[q].status = "absent" => request'[q].status = "absent"
    BY <1>t, <2>2 DEF RowKept, Traced
  <2>3. CASE \E g \in Gates : Expire(g)
    <3>1. PICK g \in Gates : Expire(g)
      BY <2>3
    <3>2. PICK q : q = gate[g].req
      OBVIOUS
    <3>3. q \in Requests /\ request[q].status # "absent"
      BY <1>t, <3>1, <3>2 DEF Traced, Expire, At
    <3>4. \A r \in Requests : r # q => request'[r] = request[r]
      BY <1>t, <3>1, <3>2 DEF Expire, Types
    <3> QED
      BY <2>2, <3>3, <3>4
  <2>4. CASE \E c \in Resolvers : Resolve(c)
    <3>1. PICK c \in Resolvers : Resolve(c)
      BY <2>4
    <3>2. \A r \in Requests : request[r].status = "absent" => request'[r] = request[r]
      BY <1>t, <3>1 DEF Resolve, StillPending, Types
    <3> QED
      BY <2>2, <3>2
  <2>5. CASE UNCHANGED request
    BY <2>2, <2>5
  <2> QED
    BY <2>1, <2>3, <2>4, <2>5
       DEF Next, vars, GateStep, Reach, Resume, Timeout, RunEnds, Look, Delivery, Dispatch, Signal, SignalFails, Settle,
           Park, Requeue, signalVars
<1>2. \A q \in Requests : phase'[q] = "absent" <=> payload'[q] = None
  <2>1. CASE AcceptsNothing
    BY <1>t, <2>1 DEF Traced, AcceptsNothing
  <2>2. CASE \E q, c, a : Accepts(q, c, a)
    BY <1>t, <2>2 DEF Accepts, Types, Traced, Answers, None
  <2> QED
    BY <2>1, <2>2, OnlyResolveAccepts
<1>3. ASSUME NEW q \in Requests, payload'[q] # None, NEW a, a = payload'[q], NEW g, g = request'[q].gate
      PROVE  g \in Gates /\ Committed(g, a)'
  <2>1. CASE payload[q] # None
    <3>1. payload'[q] = payload[q]
      BY <1>t, <2>1, OnlyResolveAccepts DEF Accepts, AcceptsNothing, Types
    <3>2. request[q].status # "absent"
      BY <1>t, <2>1 DEF Traced
    <3>3. request[q].gate = g /\ g \in Gates /\ Committed(g, a)
      BY <1>t, <1>3, <2>1, <3>1, <3>2 DEF Traced, RowKept
    <3> QED
      BY <1>g, <3>3
  <2>2. CASE payload[q] = None
    <3>1. PICK r, c, b : Accepts(r, c, b)
      BY <1>3, <2>2, OnlyResolveAccepts DEF AcceptsNothing
    <3>2. r = q /\ b = a
      BY <1>t, <1>3, <2>2, <3>1 DEF Accepts, Types
    <3>3. <<q, c, a>> \in accepted'
      BY <3>1, <3>2 DEF Accepts
    <3>4. request'[q].answer = a /\ request'[q].gate \in Gates
      BY <3>3, RecordedKept DEF Recorded
    <3> QED
      BY <1>3, <3>3, <3>4 DEF Committed
  <2> QED
    BY <2>1, <2>2
<1>4. \A q \in Requests : request'[q].status \in {"pending", "absent"} => payload'[q] = None
  <2>1. CASE AcceptsNothing
    BY <1>t, <2>1 DEF Traced, AcceptsNothing, RowKept, Types, RequestType
  <2>2. ASSUME NEW q, NEW c, NEW a, Accepts(q, c, a)
        PROVE  \A r \in Requests : request'[r].status \in {"pending", "absent"} => payload'[r] = None
    <3>1. request'[q].status = "resolved"
      BY <1>t, <2>2 DEF Accepts, Types, RequestType
    <3>2. \A r \in Requests : r # q => request'[r] = request[r] /\ payload'[r] = payload[r]
      BY <1>t, <2>2 DEF Accepts, Types
    <3> QED
      BY <1>t, <3>1, <3>2 DEF Traced
  <2> QED
    BY <2>1, <2>2, OnlyResolveAccepts
<1>5. ASSUME NEW g \in Gates, resolution'[g] # None, NEW a, a = resolution'[g]
      PROVE  Committed(g, a)'
  <2>1. CASE resolution'[g] = resolution[g]
    BY <1>t, <1>5, <1>g, <2>1 DEF Traced
  <2>2. CASE resolution'[g] # resolution[g]
    <3>1. PICK q \in Requests : Signal(q)
      BY <2>2 DEF Next, vars, Reach, GateStep, CreateRequest, Resume, Expire, Timeout, gateVars, RunEnds,
         Look, Resolve, Delivery, Dispatch, SignalFails, Settle, Park, Requeue
    <3>2. request[q].gate = g /\ payload[q] = a
      BY <1>t, <1>5, <2>2, <3>1 DEF Signal, Heard, Types
    <3>3. Committed(g, a)
      BY <1>t, <1>5, <3>2 DEF Traced
    <3> QED
      BY <1>g, <3>3
  <2> QED
    BY <2>1, <2>2
<1>6. ASSUME NEW g \in Gates, gate'[g].step = "answered", NEW a, a = gate'[g].answer
      PROVE  Committed(g, a)'
  <2>1. CASE gate'[g] = gate[g]
    BY <1>t, <1>6, <1>g, <2>1 DEF Traced
  <2>2. CASE gate'[g] # gate[g]
    <3>1. gate[g] \in GateType
      BY <1>t DEF Types
    <3>2. Resume(g)
      <4>1. ASSUME NEW h \in Gates, h # g, Reach(h) \/ GateStep(h) \/ Timeout(h)
            PROVE  gate'[g] = gate[g]
        BY <1>t, <4>1 DEF Types, Reach, GateStep, CreateRequest, Resume, Expire, Timeout
      <4>2. ~Reach(g) /\ ~CreateRequest(g) /\ ~Expire(g) /\ ~Timeout(g)
        BY <1>t, <1>6, <2>2, <3>1 DEF Types, Reach, CreateRequest, Expire, Timeout, Waiting, GateType
      <4> QED
        BY <2>2, <4>1, <4>2
           DEF Next, vars, GateStep, RunEnds, Look, Resolve, Delivery, Dispatch, Signal, SignalFails, Settle, Park, Requeue,
               signalVars
    <3>3. gate'[g].answer = resolution[g] /\ resolution[g] # None
      BY <1>t, <3>1, <3>2 DEF Resume, Types, GateType
    <3>4. Committed(g, a)
      BY <1>t, <1>6, <3>3 DEF Traced
    <3> QED
      BY <1>g, <3>4
  <2> QED
    BY <2>1, <2>2
<1>7. ASSUME NEW c \in Resolvers, look'[c].req # NoRequest
      PROVE  look'[c].answer \in Answers /\ request'[look'[c].req].status # "absent"
  <2>1. CASE look'[c] = look[c]
    BY <1>t, <1>7, <2>1 DEF Traced, Types, RowKept
  <2>2. CASE look'[c] # look[c]
    <3>1. PICK q \in Requests, a \in Answers : Look(c, q, a)
      <4>1. \A d \in Resolvers : ~Resolve(d)
        BY <1>t, <1>7, <2>2 DEF Resolve, Types, NoLook
      <4>2. \A d \in Resolvers : d # c => \A q \in Requests, a \in Answers : ~Look(d, q, a)
        BY <1>t, <2>2 DEF Look, Types
      <4> QED
        BY <2>2, <4>1, <4>2
           DEF Next, vars, Reach, GateStep, CreateRequest, Resume, Expire, Timeout, gateVars, RunEnds,
               Delivery, Dispatch, Signal, SignalFails, Settle, Park, Requeue, signalVars
    <3> QED
      BY <1>t, <3>1 DEF Look, Types
  <2> QED
    BY <2>1, <2>2
<1>8. ASSUME NEW g \in Gates, gate'[g].step \in {"waiting", "expiring", "failed"}
      PROVE  gate'[g].req \in Requests /\ request'[gate'[g].req].status # "absent"
  <2>1. CASE gate'[g].req = gate[g].req /\ gate[g].step \in {"waiting", "expiring", "failed"}
    BY <1>t, <2>1 DEF Traced, RowKept
  <2>2. CASE CreateRequest(g) /\ gate'[g] # gate[g]
    <3>1. PICK q \in Unused :
            /\ request' = [request EXCEPT ![q] = [status |-> "pending", gate |-> g, answer |-> None]]
            /\ gate' = [gate EXCEPT ![g] = Waiting(g, q)]
      BY <1>t, <2>2 DEF CreateRequest, Types
    <3> QED
      BY <1>t, <3>1 DEF Unused, Types, Waiting
  <2>3. CASE gate'[g] # gate[g] /\ ~CreateRequest(g)
    <3>1. gate[g] \in GateType
      BY <1>t DEF Types
    <3>2. Timeout(g) \/ Expire(g)
      <4>1. ASSUME NEW h \in Gates, h # g, Reach(h) \/ GateStep(h) \/ Timeout(h)
            PROVE  gate'[g] = gate[g]
        BY <1>t, <4>1 DEF Types, Reach, GateStep, CreateRequest, Resume, Expire, Timeout
      <4>2. ~Reach(g) /\ ~Resume(g)
        BY <1>t, <1>8, <2>3, <3>1 DEF Types, Reach, Resume, GateType
      <4> QED
        BY <2>3, <4>1, <4>2
           DEF Next, vars, GateStep, RunEnds, Look, Resolve, Delivery, Dispatch, Signal, SignalFails, Settle, Park, Requeue,
               signalVars
    <3>3. gate'[g].req = gate[g].req /\ gate[g].step \in {"waiting", "expiring"}
      BY <1>t, <3>1, <3>2 DEF Timeout, Expire, At, Types, GateType
    <3> QED
      BY <2>1, <3>3
  <2>4. CASE gate'[g] = gate[g]
    BY <1>8, <2>1, <2>4
  <2> QED
    BY <2>2, <2>3, <2>4
<1>9. \A q \in Requests :
        payload'[q] # None =>
          request'[q].gate \in Gates /\ Committed(request[q].gate, payload[q])'
  BY <1>3 DEF Committed
<1>10. \A g \in Gates : resolution'[g] # None => Committed(g, resolution[g])'
  BY <1>5 DEF Committed
<1>11. \A g \in Gates : gate'[g].step = "answered" => Committed(g, gate[g].answer)'
  BY <1>6 DEF Committed
<1> QED
  BY <1>1, <1>2, <1>4, <1>7, <1>8, <1>9, <1>10, <1>11 DEF Traced

(* A request that expired stays expired, whoever read it before.           *)
LEMMA TimedOutKept == Inv /\ [Next]_vars => TimedOutIsExpired'
<1> SUFFICES ASSUME Inv, [Next]_vars, NEW g \in Gates, gate'[g].step = "failed"
             PROVE  request'[gate'[g].req].status = "expired"
  BY DEF TimedOutIsExpired
<1>t. Types /\ Traced /\ TimedOutIsExpired /\ \A q \in Requests : RowKept(q)
  BY TypesKept DEF Inv
<1>1. gate[g] \in GateType
  BY <1>t DEF Types
<1>2. CASE gate'[g] = gate[g]
  BY <1>t, <1>2 DEF Traced, TimedOutIsExpired, RowKept
<1>3. CASE gate'[g] # gate[g]
  <2>1. ASSUME NEW h \in Gates, h # g, Reach(h) \/ GateStep(h) \/ Timeout(h)
        PROVE  gate'[g] = gate[g]
    BY <1>t, <2>1 DEF Types, Reach, GateStep, CreateRequest, Resume, Expire, Timeout
  <2>2. ~Reach(g) /\ ~Resume(g) /\ ~CreateRequest(g) /\ ~Timeout(g)
    BY <1>t, <1>1, <1>3 DEF Types, Reach, CreateRequest, Resume, Timeout, Waiting, GateType
  <2>3. Expire(g)
    BY <1>3, <2>1, <2>2
       DEF Next, vars, GateStep, RunEnds, Look, Resolve, Delivery, Dispatch, Signal, SignalFails, Settle, Park, Requeue,
           signalVars
  <2>4. gate[g].req \in Requests /\ gate'[g].req = gate[g].req
    BY <1>t, <1>1, <2>3 DEF Traced, Expire, At, Types, GateType
  <2> QED
    BY <1>t, <2>3, <2>4 DEF Expire, Types, RequestType
<1> QED
  BY <1>2, <1>3

(***************************************************************************)
(* The theorems.                                                           *)
(***************************************************************************)
LEMMA Inductive == Inv /\ [Next]_vars => Inv'
BY TypesKept, RecordedKept, TracedKept, TimedOutKept DEF Inv

LEMMA Invariant == Spec => []Inv
<1> QED
  BY Initially, Inductive, PTL DEF Spec

(* A gate knows its request from the time it waits, and has an answer      *)
(* exactly when it is answered.                                            *)
GateShape(r) ==
  /\ r.req = NoRequest <=> r.step \in {"idle", "creating"}
  /\ r.answer # None <=> r.step = "answered"

(* The part of the type invariant that the other properties do not need.   *)
GatesShaped ==
  /\ sending \union lost \subseteq Requests
  /\ open \in BOOLEAN
  /\ faults \in 0 .. MaxFaults
  /\ \A g \in Gates : GateShape(gate[g])

(* A step that is no fault, or one more within the bound.                  *)
FaultsCounted == UNCHANGED faults \/ Fault

(* What a step does to the gates: nothing, or it moves one of them.        *)
GatesMoved ==
  \/ UNCHANGED gate
  \/ \E g \in Gates, r \in GateType : gate' = [gate EXCEPT ![g] = r] /\ GateShape(r)

(* No step of a gate leaves it without the request it waits for, or with   *)
(* an answer before it has resumed.                                        *)
LEMMA GateSteps ==
  ASSUME Inv, GatesShaped, NEW g \in Gates, Reach(g) \/ GateStep(g) \/ Timeout(g)
  PROVE  GatesMoved /\ FaultsCounted /\ UNCHANGED open
<1>t. gate[g] \in GateType /\ resolution[g] \in Answers \union {None} /\ GateShape(gate[g])
  BY DEF Inv, Types, GatesShaped
<1> DEFINE R(s, a) == [step |-> s, req |-> gate[g].req, answer |-> a]
<1>r. \A s : [gate[g] EXCEPT !.step = s] = R(s, gate[g].answer)
  BY <1>t DEF GateType
<1>a. \A s, a, b : [R(s, a) EXCEPT !.answer = b] = R(s, b)
  OBVIOUS
<1>s. \A s \in {"creating", "answered", "expiring", "failed"}, a \in Answers \union {None} :
        R(s, a) \in GateType
  BY <1>t DEF GateType
<1>f. \A s, a : R(s, a).step = s /\ R(s, a).req = gate[g].req /\ R(s, a).answer = a
  OBVIOUS
<1> HIDE DEF R
<1>m. ASSUME NEW r \in GateType, GateShape(r), gate' = [gate EXCEPT ![g] = r]
      PROVE  GatesMoved
  BY <1>m DEF GatesMoved
<1>1. CASE Reach(g)
  <2>1. gate[g].step = "idle" /\ gate[g].req = NoRequest /\ gate[g].answer = None
    BY <1>1, <1>t DEF Reach, At, GateShape
  <2>2. gate' = [gate EXCEPT ![g] = R("creating", None)]
    BY <1>1, <1>r, <2>1 DEF Reach
  <2>3. R("creating", None) \in GateType /\ GateShape(R("creating", None))
    BY <1>s, <1>f, <2>1 DEF GateShape
  <2>4. GatesMoved
    BY <1>m, <2>2, <2>3
  <2> QED BY <1>1, <2>4 DEF Reach, gateVars, FaultsCounted
<1>2. CASE CreateRequest(g)
  <2>1. PICK q \in Unused : UNCHANGED gate \/ gate' = [gate EXCEPT ![g] = Waiting(g, q)]
    BY <1>2 DEF CreateRequest
  <2>2. q \in Requests /\ q # NoRequest
    BY RequestsAssumption DEF Unused, NoRequest
  <2>3. Waiting(g, q) \in GateType /\ GateShape(Waiting(g, q))
    BY <2>2 DEF Waiting, GateType, GateShape
  <2>4. GatesMoved
    BY <2>1, <2>3 DEF GatesMoved
  <2> QED BY <1>2, <2>4 DEF CreateRequest, gateVars, NoFault, FaultsCounted
<1>3. CASE Resume(g)
  <2>1. gate[g].step = "waiting" /\ gate[g].req # NoRequest /\ resolution[g] # None
    BY <1>3, <1>t DEF Resume, At, GateShape
  <2> DEFINE d == [gate[g] EXCEPT !.step = "answered"]
  <2>d. gate' = [gate EXCEPT ![g] = [d EXCEPT !.answer = resolution[g]]]
    BY <1>3 DEF Resume
  <2>2. gate' = [gate EXCEPT ![g] = R("answered", resolution[g])]
    <3>1. d = R("answered", gate[g].answer)
      BY <1>r
    <3> HIDE DEF d
    <3>2. [d EXCEPT !.answer = resolution[g]] = R("answered", resolution[g])
      BY <1>a, <3>1
    <3> QED BY <2>d, <3>2
  <2>3. R("answered", resolution[g]) \in GateType /\ GateShape(R("answered", resolution[g]))
    BY <1>s, <1>t, <1>f, <2>1 DEF GateShape
  <2>4. GatesMoved
    BY <1>m, <2>2, <2>3
  <2> QED BY <1>3, <2>4 DEF Resume, gateVars, FaultsCounted
<1>4. CASE Timeout(g)
  <2>1. gate[g].step = "waiting" /\ gate[g].req # NoRequest /\ gate[g].answer = None
    BY <1>4, <1>t DEF Timeout, At, GateShape
  <2>2. gate' = [gate EXCEPT ![g] = R("expiring", None)]
    BY <1>4, <1>r, <2>1 DEF Timeout
  <2>3. R("expiring", None) \in GateType /\ GateShape(R("expiring", None))
    BY <1>s, <1>f, <2>1 DEF GateShape
  <2>4. GatesMoved
    BY <1>m, <2>2, <2>3
  <2> QED BY <1>4, <2>4 DEF Timeout, gateVars, FaultsCounted
<1>5. CASE Expire(g)
  <2>1. gate[g].step = "expiring" /\ gate[g].req # NoRequest /\ gate[g].answer = None
    BY <1>5, <1>t DEF Expire, At, GateShape
  <2>2. gate' = [gate EXCEPT ![g] = R("failed", None)]
    BY <1>5, <1>r, <2>1 DEF Expire
  <2>3. R("failed", None) \in GateType /\ GateShape(R("failed", None))
    BY <1>s, <1>f, <2>1 DEF GateShape
  <2>4. GatesMoved
    BY <1>m, <2>2, <2>3
  <2> QED BY <1>5, <2>4 DEF Expire, gateVars, FaultsCounted
<1> QED BY <1>1, <1>2, <1>3, <1>4, <1>5 DEF GateStep

LEMMA GatesShapedKept == Inv /\ GatesShaped /\ [Next]_vars => GatesShaped'
<1> SUFFICES ASSUME Inv, GatesShaped, [Next]_vars
             PROVE  GatesShaped'
  OBVIOUS
<1>1. GatesMoved /\ FaultsCounted /\ open' \in BOOLEAN
  <2>1. CASE \E g \in Gates : Reach(g) \/ GateStep(g) \/ Timeout(g)
    BY <2>1, GateSteps DEF GatesShaped
  <2>2. CASE RunEnds \/ UNCHANGED vars
    BY <2>2 DEF RunEnds, vars, GatesShaped, GatesMoved, FaultsCounted
  <2>3. CASE \E c \in Resolvers : Resolve(c) \/ \E q \in Requests, a \in Answers : Look(c, q, a)
    BY <2>3 DEF Resolve, Look, NoFault, GatesShaped, GatesMoved, FaultsCounted
  <2>4. CASE \E q \in Requests : Delivery(q) \/ SignalFails(q) \/ Park(q) \/ Requeue(q)
    BY <2>4 DEF Delivery, Dispatch, Signal, SignalFails, Settle, Park, Requeue, signalVars, NoFault,
       GatesShaped, GatesMoved, FaultsCounted
  <2> QED BY <2>1, <2>2, <2>3, <2>4 DEF Next
<1>2. faults' \in 0 .. MaxFaults
  BY <1>1, MaxFaultsAssumption DEF GatesShaped, FaultsCounted, Fault
<1>3. \A g \in Gates : GateShape(gate'[g])
  BY <1>1 DEF GatesMoved, GatesShaped, Inv, Types
<1>4. (sending \union lost)' \subseteq Requests
  BY DEF GatesShaped, Next, vars, listener, Reach, GateStep, CreateRequest, Resume, Expire, Timeout, gateVars,
     RunEnds, Look, Resolve, Delivery, Dispatch, Signal, SignalFails, Settle, Park, Requeue
<1> QED BY <1>1, <1>2, <1>3, <1>4 DEF GatesShaped

(* The rows, gates and looks keep their types; a gate knows its request    *)
(* from the time it waits, and has an answer exactly when it is answered.  *)
THEOREM TypeCorrect == Spec => []TypeOK
<1>1. Init => GatesShaped
  BY MaxFaultsAssumption DEF Init, GatesShaped, GateShape
<1>2. Inv /\ GatesShaped => TypeOK
  BY DEF Inv, Types, GatesShaped, GateShape, TypeOK
<1> QED
  BY <1>1, <1>2, Initially, Inductive, GatesShapedKept, PTL DEF Spec

(* However many people answer a request, one answer is accepted.           *)
THEOREM OneWinnerCorrect == Spec => []OneWinner
<1>1. Inv => OneWinner
  BY DEF Inv
<1> QED
  BY <1>1, Invariant, PTL

(* A gate acts only on a committed answer that its row still says.         *)
THEOREM AnswerCommittedCorrect == Spec => []AnswerCommitted
<1>1. Inv => AnswerCommitted
  BY DEF Inv, Traced, Committed, AnswerCommitted
<1> QED
  BY <1>1, Invariant, PTL

(* Nobody answers the request of a gate that has failed by its timeout.    *)
THEOREM TimedOutIsExpiredCorrect == Spec => []TimedOutIsExpired
<1>1. Inv => TimedOutIsExpired
  BY DEF Inv
<1> QED
  BY <1>1, Invariant, PTL
==============================================================================
