---------------------- MODULE NotificationDeliveryProofs ----------------------
(***************************************************************************)
(* Proofs about notifications, for any number of overlapping dispatches,   *)
(* operators, resends, posts and faults.  A step is first reduced to what  *)
(* it may do to one row (RowStep): the budget of posts, the truth of sent  *)
(* and the reservations follow from that alone.                            *)
(***************************************************************************)
EXTENDS NotificationDeliveryProps, TLAPS

Types ==
  /\ delivery \in [Rows -> RowType]
  /\ dispatch \in [Dispatches -> DispatchType]
  /\ operator \in [Operators -> OperatorType]
  /\ tries \in [Rows -> Nat]
  /\ grounds \in [Rows -> Nat]
  /\ confirmed \subseteq Rows
  /\ faults \in Nat

(* The row may be posted, or its resolution may let it be.                 *)
Postable(r) ==
  \/ delivery[r].status \in {"absent", "pending", "failed"}
  \/ delivery[r].status = "sending" /\ delivery[r].resend # NoResend

(* What may be posted has had a ground for every post: a reservation has   *)
(* its ground from the operator, and hands it on when it is resolved.      *)
Budget(r) ==
  /\ tries[r] <= 1 + grounds[r]
  /\ Postable(r) => tries[r] <= grounds[r]

Reservation(r) ==
  delivery[r].resend # NoResend =>
    /\ delivery[r].status \in {"sending", "sent"}
    /\ delivery[delivery[r].resend].status # "absent"

RowsSound ==
  \A r \in Rows :
    /\ Budget(r)
    /\ Reservation(r)
    /\ delivery[r].status = "sent" => r \in confirmed

(* What an operator in state k relies on.                                  *)
Relies(k) ==
  /\ k.step = "reserve" => k.saw \in {"failed", "unknown"}
  /\ k.step \notin {"idle", "stale", "reserve"} =>
       k.resend # NoResend /\ delivery[k.resend].status # "absent"
  /\ k.step \in {"requeue", "finalize"} =>
       k.saw \in Outcomes /\ (k.saw = "sent" => k.resend \in confirmed)

OperatorsSound == \A o \in Operators : Relies(operator[o])

Inv ==
  /\ Types
  /\ RowsSound
  /\ OperatorsSound

(***************************************************************************)
(* What a step may do to the table.                                        *)
(***************************************************************************)
Counted(r) == tries'[r] = tries[r] /\ grounds'[r] = grounds[r]

Claimed(r) ==
  /\ delivery[r].status \in {"pending", "failed"}
  /\ delivery'[r] = [status |-> "sending", resend |-> delivery[r].resend]
  /\ tries'[r] = tries[r] + 1
  /\ grounds'[r] = grounds[r]

Inserted(r) ==
  /\ delivery[r].status = "absent"
  /\ delivery'[r].status = "pending"
  /\ delivery'[r].resend = NoResend
  /\ Counted(r)

Taken(r) ==
  /\ delivery[r].status \in {"failed", "unknown"}
  /\ delivery'[r].status = "sending"
  /\ delivery'[r].resend \in Resends
  /\ delivery'[delivery'[r].resend].status # "absent"
  /\ tries'[r] = tries[r]
  /\ grounds'[r] = grounds[r] + 1

Written(r) ==
  /\ delivery'[r].status \in Outcomes
  /\ \/ delivery'[r].resend = NoResend
     \/ delivery'[r].status = "sent" /\ delivery'[r].resend = delivery[r].resend
  /\ delivery'[r].status = "sent" => r \in confirmed'
  /\ tries'[r] = tries[r]
  /\ grounds'[r] = IF delivery'[r].status = "failed" THEN grounds[r] + 1 ELSE grounds[r]

Resolved(r) ==
  /\ delivery[r].status = "sending" /\ delivery[r].resend # NoResend
  /\ delivery'[r].status \in Outcomes
  /\ delivery'[r].resend = NoResend
  /\ delivery'[r].status = "sent" => r \in confirmed'
  /\ Counted(r)

RowStep(r) ==
  \/ delivery'[r] = delivery[r] /\ Counted(r)
  \/ Claimed(r)
  \/ Inserted(r)
  \/ Taken(r)
  \/ Written(r)
  \/ Resolved(r)

TableStep ==
  /\ delivery' \in [Rows -> RowType]
  /\ tries' \in [Rows -> Nat]
  /\ grounds' \in [Rows -> Nat]
  /\ confirmed \subseteq confirmed'
  /\ confirmed' \subseteq Rows
  /\ \A r \in Rows : RowStep(r)

LEMMA QuietTable == ASSUME Types, UNCHANGED <<delivery, history>> PROVE TableStep
BY DEF Types, history, TableStep, RowStep, Counted

LEMMA ClaimTable == ASSUME Types, NEW r \in Rows, Claim(r) PROVE TableStep
<1>1. delivery[r] \in RowType
  BY DEF Types
<1>2. PICK w : w = [status |-> "sending", resend |-> delivery[r].resend]
  OBVIOUS
<1>3. w \in RowType
  BY <1>1, <1>2 DEF RowType, Statuses
<1>4. delivery' = [delivery EXCEPT ![r] = w]
  BY <1>2 DEF Claim, Put
<1>5. /\ tries' = [tries EXCEPT ![r] = tries[r] + 1]
      /\ grounds' = grounds /\ confirmed' = confirmed
  BY DEF Claim
<1>6. Claimed(r)
  BY <1>2, <1>4, <1>5 DEF Types, Claim, Claimable, Claimed
<1>7. \A s \in Rows : s # r => delivery'[s] = delivery[s] /\ Counted(s)
  BY <1>4, <1>5 DEF Types, Counted
<1> QED
  BY <1>3, <1>4, <1>5, <1>6, <1>7 DEF Types, TableStep, RowStep

(* Any update that writes an outcome: by an attempt, or because the row is *)
(* stale.                                                                  *)
LEMMA WriteTable ==
  ASSUME Types, NEW r \in Rows, NEW s \in Outcomes, NEW c \in Resends \union {NoResend},
         Put(r, s, c),
         c = NoResend \/ (s = "sent" /\ c = delivery[r].resend),
         confirmed \subseteq confirmed', confirmed' \subseteq Rows,
         s = "sent" => r \in confirmed',
         UNCHANGED tries,
         grounds' = IF s = "failed" THEN [grounds EXCEPT ![r] = @ + 1] ELSE grounds
  PROVE  TableStep
<1>1. PICK w : w = [status |-> s, resend |-> c]
  OBVIOUS
<1>2. w \in RowType
  BY <1>1 DEF RowType, Statuses
<1>3. delivery' = [delivery EXCEPT ![r] = w]
  BY <1>1 DEF Put
<1>4. delivery'[r] = w /\ w.status = s /\ w.resend = c
  BY <1>1, <1>3 DEF Types
<1>5. grounds' \in [Rows -> Nat] /\ grounds'[r] = IF s = "failed" THEN grounds[r] + 1 ELSE grounds[r]
  BY DEF Types
<1>6. Written(r)
  BY <1>4, <1>5 DEF Written
<1>7. \A q \in Rows : q # r => delivery'[q] = delivery[q] /\ Counted(q)
  BY <1>3 DEF Types, Counted
<1>8. delivery' \in [Rows -> RowType]
  BY <1>2, <1>3 DEF Types
<1> QED
  BY <1>5, <1>6, <1>7, <1>8 DEF Types, TableStep, RowStep

LEMMA RecordTable ==
  ASSUME Types, NEW r \in Rows, NEW s \in Outcomes, Record(r, s) PROVE TableStep
<1>1. delivery[r] \in RowType
  BY DEF Types
<1>2. Kept(r, s) \in Resends \union {NoResend}
  BY <1>1 DEF Kept, RowType
<1>3. /\ Kept(r, s) = NoResend \/ (s = "sent" /\ Kept(r, s) = delivery[r].resend)
      /\ confirmed \subseteq confirmed' /\ confirmed' \subseteq Rows
      /\ s = "sent" => r \in confirmed'
  BY DEF Kept, Record, Types
<1> QED
  BY <1>2, <1>3, WriteTable DEF Record

LEMMA ResolveTable ==
  ASSUME Types, NEW o \in Operators, Resolve(o), Reserved(o), operator[o].resend # NoResend,
         operator[o].saw = "sent" => operator[o].resend \in confirmed
  PROVE  TableStep
<1>1. PICK r : r = operator[o].row
  OBVIOUS
<1>2. r \in Rows
  BY <1>1 DEF Types, OperatorType
<1>3. delivery[r].status = "sending" /\ delivery[r].resend # NoResend
  BY <1>1 DEF Reserved
<1>4. PICK w : w = [status |-> Completion(operator[o].saw), resend |-> NoResend]
  OBVIOUS
<1>5. /\ w \in RowType /\ w.status \in Outcomes /\ w.resend = NoResend
      /\ w.status = "sent" => operator[o].saw = "sent"
  BY <1>4 DEF Completion, RowType, Statuses, Outcomes
<1>6. delivery' = [delivery EXCEPT ![r] = w]
  BY <1>1, <1>4 DEF Resolve, Put
<1>7. delivery' \in [Rows -> RowType] /\ delivery'[r] = w
  BY <1>2, <1>5, <1>6 DEF Types
<1>8. /\ UNCHANGED <<tries, grounds>>
      /\ confirmed \subseteq confirmed' /\ confirmed' \subseteq Rows
      /\ operator[o].saw = "sent" => r \in confirmed'
  BY <1>1, <1>2 DEF Resolve, Types
<1>9. Resolved(r)
  BY <1>3, <1>5, <1>7, <1>8 DEF Resolved, Counted
<1>10. \A q \in Rows : q # r => delivery'[q] = delivery[q] /\ Counted(q)
  BY <1>6, <1>8 DEF Types, Counted
<1> QED
  BY <1>7, <1>8, <1>9, <1>10 DEF Types, TableStep, RowStep

LEMMA StaleTable ==
  ASSUME Types, NEW r \in Rows, Put(r, "unknown", NoResend), UNCHANGED history
  PROVE  TableStep
<1>1. "unknown" \in Outcomes /\ NoResend \in Resends \union {NoResend}
  BY DEF Outcomes
<1>2. confirmed \subseteq confirmed' /\ confirmed' \subseteq Rows /\ UNCHANGED <<tries, grounds>>
  BY DEF history, Types
<1> QED
  BY <1>1, <1>2, WriteTable

LEMMA BeginTable ==
  ASSUME Types, RowsSound, NEW d \in Dispatches, Begin(d) PROVE TableStep
<1>1. Own \in Rows /\ delivery[Own] \in RowType
  BY DEF Types, Rows
<1>2. PICK w : w = [status |-> IF delivery[Own].status = "absent" THEN "pending"
                               ELSE delivery[Own].status,
                    resend |-> delivery[Own].resend]
  OBVIOUS
<1>3. w \in RowType
  BY <1>1, <1>2 DEF RowType, Statuses
<1>4. delivery' = [delivery EXCEPT ![Own] = w]
  BY <1>2 DEF Begin, Put
<1>5. UNCHANGED history
  BY DEF Begin
<1>6. RowStep(Own)
  <2>1. CASE delivery[Own].status = "absent"
    <3>1. delivery[Own].resend = NoResend
      BY <1>1, <2>1 DEF RowsSound, Reservation
    <3>2. Inserted(Own)
      BY <1>1, <1>2, <1>4, <1>5, <2>1, <3>1 DEF Types, Inserted, Counted, history
    <3> QED
      BY <3>2 DEF RowStep
  <2>2. CASE delivery[Own].status # "absent"
    <3>1. w = delivery[Own]
      BY <1>1, <1>2, <2>2 DEF RowType
    <3> QED
      BY <1>1, <1>4, <1>5, <3>1 DEF Types, RowStep, Counted, history
  <2> QED
    BY <2>1, <2>2
<1>7. \A r \in Rows : r # Own => delivery'[r] = delivery[r] /\ Counted(r)
  BY <1>4, <1>5 DEF Types, Counted, history
<1>8. delivery' \in [Rows -> RowType]
  BY <1>1, <1>3, <1>4 DEF Types
<1> QED
  BY <1>5, <1>6, <1>7, <1>8 DEF Types, TableStep, RowStep, history

LEMMA ReserveTable ==
  ASSUME Types, OperatorsSound, RowsSound, NEW o \in Operators, Reserve(o) PROVE TableStep
<1>1. PICK r : r = operator[o].row
  OBVIOUS
<1>2. r \in Rows
  BY <1>1 DEF Types, OperatorType
<1>4. CASE UNCHANGED <<delivery, history>>
  BY <1>4, QuietTable
<1>5. ASSUME NEW c \in Resends, delivery[c].status = "absent", delivery[r].status = operator[o].saw,
             delivery' = [delivery EXCEPT ![r] = [status |-> "sending", resend |-> c],
                                          ![c] = [status |-> "pending", resend |-> NoResend]],
             grounds' = [grounds EXCEPT ![r] = @ + 1], UNCHANGED <<tries, confirmed>>
      PROVE  TableStep
  <2>1. delivery[r].status \in {"failed", "unknown"}
    BY <1>1, <1>5 DEF Reserve, At, OperatorsSound, Relies
  <2>2. c \in Rows /\ c # r
    BY <1>5, <2>1 DEF Rows
  <2>3. PICK v, w : v = [status |-> "sending", resend |-> c]
                 /\ w = [status |-> "pending", resend |-> NoResend]
    OBVIOUS
  <2>4. v \in RowType /\ w \in RowType
    BY <2>3 DEF RowType, Statuses
  <2>5. delivery' = [[delivery EXCEPT ![r] = v] EXCEPT ![c] = w]
    BY <1>5, <2>3
  <2>6. delivery' \in [Rows -> RowType] /\ delivery'[r] = v /\ delivery'[c] = w
    BY <1>2, <2>2, <2>4, <2>5 DEF Types
  <2>7. Taken(r)
    BY <1>2, <1>5, <2>1, <2>3, <2>6 DEF Types, Taken
  <2>8. Inserted(c)
    BY <1>5, <2>2, <2>3, <2>6 DEF Types, Inserted, Counted
  <2>9. \A q \in Rows : q # r /\ q # c => delivery'[q] = delivery[q] /\ Counted(q)
    BY <1>5, <2>5 DEF Types, Counted
  <2> QED
    BY <1>2, <1>5, <2>6, <2>7, <2>8, <2>9 DEF Types, TableStep, RowStep
<1> QED
  BY <1>1, <1>4, <1>5 DEF Reserve

(* The table, step by step.                                                *)
LEMMA TableKept == Inv /\ [Next]_vars => TableStep
<1> SUFFICES ASSUME Inv, [Next]_vars PROVE TableStep
  OBVIOUS
<1>t. Types /\ RowsSound /\ OperatorsSound
  BY DEF Inv
<1>o. Own \in Rows
  BY DEF Rows
<1>1. CASE UNCHANGED <<delivery, history>>
  BY <1>t, <1>1, QuietTable
<1>2. ASSUME NEW d \in Dispatches, Listen(d) PROVE TableStep
  <2>1. CASE Begin(d)
    BY <1>t, <2>1, BeginTable
  <2>2. CASE PassOver(d) \/ Crash(d)
    BY <1>1, <2>2 DEF PassOver, Crash
  <2>3. CASE MarkUnknown(d)
    BY <1>t, <1>o, <2>3, StaleTable DEF MarkUnknown
  <2>4. CASE Post(d)
    BY <1>t, <1>o, <2>4, ClaimTable DEF Post
  <2>5. ASSUME NEW s \in Outcomes, Answered(d, s) PROVE TableStep
    BY <1>t, <1>o, <2>5, RecordTable DEF Answered
  <2> QED
    BY <1>2, <2>1, <2>2, <2>3, <2>4, <2>5 DEF Listen
<1>3. ASSUME NEW o \in Operators, Operate(o) PROVE TableStep
  <2>0. operator[o].row \in Rows /\ Relies(operator[o])
    BY <1>t DEF Types, OperatorType, OperatorsSound
  <2>1. ASSUME NEW r \in Rows, Ask(o, r) PROVE TableStep
    BY <1>1, <2>1 DEF Ask
  <2>2. CASE MarkStale(o)
    BY <1>1, <1>t, <2>0, <2>2, StaleTable DEF MarkStale
  <2>3. CASE Reserve(o)
    BY <1>t, <2>3, ReserveTable
  <2>r. operator[o].step \notin {"idle", "stale", "reserve"} => operator[o].resend \in Rows
    BY <1>t, <2>0 DEF Relies, Types, OperatorType, Rows
  <2>4. CASE Look(o)
    BY <1>1, <1>t, <2>r, <2>4, StaleTable DEF Look, At
  <2>5. CASE PostResend(o)
    BY <1>1, <1>t, <2>r, <2>5, ClaimTable DEF PostResend, At
  <2>6. ASSUME NEW s \in Outcomes, AnsweredResend(o, s) PROVE TableStep
    BY <1>t, <2>r, <2>6, RecordTable DEF AnsweredResend, At
  <2>7. CASE RequeueEvent(o) \/ Finalize(o)
    <3>1. /\ operator[o].resend # NoResend
          /\ operator[o].saw = "sent" => operator[o].resend \in confirmed
      BY <2>0, <2>7 DEF Relies, RequeueEvent, Finalize, At
    <3>2. (Reserved(o) /\ Resolve(o)) \/ UNCHANGED <<delivery, history>>
      BY <2>7 DEF RequeueEvent, Finalize
    <3> QED
      BY <1>1, <1>t, <3>1, <3>2, ResolveTable
  <2>8. CASE CrashRequest(o)
    BY <1>1, <2>8 DEF CrashRequest
  <2> QED
    BY <1>3, <2>1, <2>2, <2>3, <2>4, <2>5, <2>6, <2>7, <2>8 DEF Operate
<1>4. CASE RunEnds \/ Settle \/ Park \/ Requeue
  BY <1>1, <1>4 DEF RunEnds, Settle, Park, Requeue, outboxClients
<1>5. CASE UNCHANGED vars
  BY <1>1, <1>5 DEF vars
<1> QED
  BY <1>2, <1>3, <1>4, <1>5 DEF Next

(***************************************************************************)
(* What follows from the table's step.                                     *)
(***************************************************************************)
LEMMA StaysInserted == ASSUME Types, TableStep, NEW r \in Rows, delivery[r].status # "absent"
                   PROVE  delivery'[r].status # "absent"
<1>1. RowStep(r)
  BY DEF TableStep
<1> QED
  BY <1>1 DEF RowStep, Claimed, Inserted, Taken, Written, Resolved, Outcomes

LEMMA BudgetKept == ASSUME Types, RowsSound, TableStep, NEW r \in Rows PROVE Budget(r)'
<1>1. /\ RowStep(r) /\ Budget(r) /\ Reservation(r)
      /\ tries[r] \in Nat /\ grounds[r] \in Nat
  BY DEF TableStep, RowsSound, Types
<1>2. CASE delivery'[r] = delivery[r] /\ Counted(r)
  BY <1>1, <1>2 DEF Budget, Postable, Counted
<1>3. CASE Claimed(r)
  <2>1. delivery[r].resend = NoResend
    BY <1>1, <1>3 DEF Claimed, Reservation
  <2>2. tries[r] <= grounds[r]
    BY <1>1, <1>3 DEF Claimed, Budget, Postable
  <2> QED
    BY <1>1, <1>3, <2>1, <2>2 DEF Budget, Postable, Claimed
<1>4. CASE Inserted(r)
  BY <1>1, <1>4 DEF Budget, Postable, Inserted, Counted
<1>5. CASE Taken(r)
  BY <1>1, <1>5 DEF Budget, Taken
<1>6. CASE Written(r)
  <2>1. delivery'[r].status = "failed" \/ ~Postable(r)'
    BY <1>6 DEF Written, Outcomes, Postable
  <2> QED
    BY <1>1, <1>6, <2>1 DEF Budget, Written
<1>7. CASE Resolved(r)
  BY <1>1, <1>7 DEF Budget, Postable, Resolved, Counted
<1> QED
  BY <1>1, <1>2, <1>3, <1>4, <1>5, <1>6, <1>7 DEF RowStep

LEMMA ReservationKept == ASSUME Types, RowsSound, TableStep, NEW r \in Rows PROVE Reservation(r)'
<1>1. RowStep(r) /\ Reservation(r) /\ delivery[r] \in RowType
  BY DEF TableStep, RowsSound, Types
<1>2. delivery[r].resend # NoResend => delivery[r].resend \in Rows
  BY <1>1 DEF RowType, Rows
<1>3. delivery[r].resend # NoResend => delivery'[delivery[r].resend].status # "absent"
  BY <1>1, <1>2, StaysInserted DEF Reservation
<1>4. CASE delivery'[r].resend = NoResend
  BY <1>4 DEF Reservation
<1>5. CASE delivery'[r] = delivery[r]
  BY <1>1, <1>3, <1>5 DEF Reservation
<1>6. CASE Claimed(r)
  BY <1>1, <1>3, <1>6 DEF Reservation, Claimed
<1>7. CASE Taken(r)
  BY <1>7 DEF Reservation, Taken
<1>8. CASE delivery'[r].status = "sent" /\ delivery'[r].resend = delivery[r].resend
  BY <1>1, <1>3, <1>8 DEF Reservation
<1> QED
  BY <1>1, <1>4, <1>5, <1>6, <1>7, <1>8 DEF RowStep, Inserted, Written, Resolved

LEMMA SentKept ==
  ASSUME Types, RowsSound, TableStep, NEW r \in Rows, delivery'[r].status = "sent"
  PROVE  r \in confirmed'
<1>1. RowStep(r) /\ confirmed \subseteq confirmed' /\ (delivery[r].status = "sent" => r \in confirmed)
  BY DEF TableStep, RowsSound
<1> QED
  BY <1>1 DEF RowStep, Claimed, Inserted, Taken, Written, Resolved

LEMMA RowsKept == ASSUME Types, RowsSound, TableStep PROVE RowsSound'
<1>1. ASSUME NEW r \in Rows PROVE Budget(r)' /\ Reservation(r)'
  BY <1>1, BudgetKept, ReservationKept
<1>2. ASSUME NEW r \in Rows, delivery'[r].status = "sent" PROVE r \in confirmed'
  BY <1>2, SentKept
<1> QED
  BY <1>1, <1>2 DEF RowsSound

(***************************************************************************)
(* Dispatches and operators.                                               *)
(***************************************************************************)
LEMMA DispatchesKept ==
  ASSUME Types, [Next]_vars
  PROVE  dispatch' \in [Dispatches -> DispatchType]
<1>1. ASSUME NEW d \in Dispatches, NEW k \in DispatchType, Step(d, k)
      PROVE  dispatch' \in [Dispatches -> DispatchType]
  BY <1>1 DEF Types, Step
<1>2. CASE UNCHANGED dispatch
  BY <1>2 DEF Types
<1>3. NoDispatch \in DispatchType
  BY DEF NoDispatch, DispatchType, Statuses
<1>4. ASSUME NEW d \in Dispatches, Listen(d)
      PROVE  dispatch' \in [Dispatches -> DispatchType]
  <2>1. CASE Begin(d)
    <3>1. PICK k : k = [step |-> "found",
                        saw |-> IF delivery[Own].status = "absent" THEN "pending"
                                ELSE delivery[Own].status,
                        reserved |-> delivery[Own].resend # NoResend]
      OBVIOUS
    <3>2. delivery[Own] \in RowType
      BY DEF Types, Rows
    <3>3. k \in DispatchType
      BY <3>1, <3>2 DEF DispatchType, RowType, Statuses
    <3>4. Step(d, k)
      BY <2>1, <3>1 DEF Begin
    <3> QED
      BY <1>1, <3>3, <3>4
  <2>2. CASE Post(d)
    <3>1. PICK k : k = [dispatch[d] EXCEPT !.step = "sending"]
      OBVIOUS
    <3>2. k \in DispatchType
      BY <3>1 DEF Types, DispatchType
    <3>3. Step(d, k)
      BY <2>2, <3>1 DEF Post
    <3> QED
      BY <1>1, <3>2, <3>3
  <2>3. CASE Step(d, NoDispatch)
    BY <1>1, <1>3, <2>3
  <2> QED
    BY <1>4, <2>1, <2>2, <2>3 DEF Listen, PassOver, MarkUnknown, Crash, Answered
<1>5. ASSUME NEW o \in Operators, Operate(o) PROVE UNCHANGED dispatch
  BY <1>5 DEF Operate, Ask, MarkStale, Reserve, Look, PostResend, AnsweredResend,
              RequeueEvent, Finalize, CrashRequest
<1>6. CASE RunEnds \/ Settle \/ Park \/ Requeue
  BY <1>2, <1>6 DEF RunEnds, Settle, Park, Requeue, outboxClients
<1>7. CASE UNCHANGED vars
  BY <1>2, <1>7 DEF vars
<1> QED
  BY <1>2, <1>4, <1>5, <1>6, <1>7 DEF Next

(* What an operator relies on stays true while others write the table.     *)
LEMMA ReliesKept ==
  ASSUME Types, TableStep, NEW k \in OperatorType, Relies(k)
  PROVE  Relies(k)'
<1>1. confirmed \subseteq confirmed'
  BY DEF TableStep
<1>2. ASSUME k.step \notin {"idle", "stale", "reserve"}
      PROVE  k.resend # NoResend /\ delivery'[k.resend].status # "absent"
  <2>1. k.resend \in Rows /\ k.resend # NoResend /\ delivery[k.resend].status # "absent"
    BY <1>2 DEF Relies, OperatorType, Rows
  <2> QED
    BY <2>1, StaysInserted
<1> QED
  BY <1>1, <1>2 DEF Relies

LEMMA OperatorsKept ==
  ASSUME Inv, [Next]_vars, TableStep
  PROVE  operator' \in [Operators -> OperatorType] /\ OperatorsSound'
<1>t. Types /\ RowsSound /\ OperatorsSound
  BY DEF Inv
<1>c. /\ confirmed \subseteq confirmed'
      /\ \A r \in Rows : delivery[r].status # "absent" => delivery'[r].status # "absent"
  BY <1>t, StaysInserted DEF TableStep
<1>k. ASSUME NEW o \in Operators PROVE operator[o] \in OperatorType /\ Relies(operator[o])
  BY <1>t DEF Types, OperatorsSound
<1>1. ASSUME NEW o \in Operators, operator'[o] = operator[o]
      PROVE  Relies(operator[o])'
  <2>1. PICK k : k = operator[o]
    OBVIOUS
  <2>2. Relies(k)'
    BY <1>t, <1>k, <2>1, ReliesKept
  <2> QED
    BY <1>1, <2>1, <2>2 DEF Relies
<1>2. ASSUME NEW o \in Operators, NEW k \in OperatorType, Go(o, k), Relies(k)'
      PROVE  operator' \in [Operators -> OperatorType] /\ OperatorsSound'
  <2>1. operator' = [operator EXCEPT ![o] = k]
    BY <1>2 DEF Go
  <2>2. operator' \in [Operators -> OperatorType] /\ operator'[o] = k
    BY <1>t, <2>1 DEF Types
  <2>3. ASSUME NEW q \in Operators PROVE Relies(operator[q])'
    <3>1. CASE q = o
      BY <1>2, <2>2, <3>1 DEF Relies
    <3>2. CASE q # o
      <4>1. operator'[q] = operator[q]
        BY <1>t, <2>1, <3>2 DEF Types
      <4> QED
        BY <1>1, <4>1
    <3> QED
      BY <3>1, <3>2
  <2> QED
    BY <2>2, <2>3 DEF OperatorsSound
<1>3. CASE UNCHANGED operator
  <2>1. ASSUME NEW q \in Operators PROVE Relies(operator[q])'
    BY <1>1, <1>3
  <2> QED
    BY <1>3, <1>t, <2>1 DEF Types, OperatorsSound
<1>i. ASSUME NEW o \in Operators, Go(o, NoRequest)
      PROVE  operator' \in [Operators -> OperatorType] /\ OperatorsSound'
  <2>1. NoRequest \in OperatorType /\ NoRequest.step = "idle"
    BY DEF NoRequest, OperatorType, Rows, Statuses
  <2>2. PICK k : k = NoRequest
    OBVIOUS
  <2>3. Relies(k)'
    BY <2>1, <2>2 DEF Relies
  <2> QED
    BY <1>2, <1>i, <2>1, <2>2, <2>3
(* The operator goes on with the same row.                                 *)
<1>g. ASSUME NEW o \in Operators, NEW k \in OperatorType, Go(o, k),
             k.resend = operator[o].resend,
             k.step = "reserve" => k.saw \in {"failed", "unknown"},
             k.step # "reserve" => operator[o].step \notin {"idle", "stale", "reserve"},
             k.step \in {"requeue", "finalize"} =>
               k.saw \in Outcomes /\ (k.saw = "sent" => k.resend \in confirmed)
      PROVE  operator' \in [Operators -> OperatorType] /\ OperatorsSound'
  <2>1. PICK j : j = operator[o]
    OBVIOUS
  <2>2. j \in OperatorType /\ Relies(j)
    BY <1>k, <2>1
  <2>5. ASSUME k.step # "reserve"
        PROVE  k.resend # NoResend /\ delivery'[k.resend].status # "absent"
    <3>1. k.resend \in Rows /\ k.resend # NoResend /\ delivery[k.resend].status # "absent"
      BY <1>g, <2>1, <2>2, <2>5 DEF Relies, OperatorType, Rows
    <3> QED
      BY <1>c, <3>1
  <2>6. Relies(k)'
    BY <1>c, <1>g, <2>5 DEF Relies
  <2> QED
    BY <1>2, <1>g, <2>6
<1>4. ASSUME NEW o \in Operators, Operate(o)
      PROVE  operator' \in [Operators -> OperatorType] /\ OperatorsSound'
  <2>0. operator[o] \in OperatorType /\ Relies(operator[o])
    BY <1>k
  <2>v. "unknown" \in Statuses
    BY DEF Statuses, Outcomes
  <2>1. ASSUME NEW r \in Rows, Ask(o, r)
        PROVE  operator' \in [Operators -> OperatorType] /\ OperatorsSound'
    <3>1. delivery[r] \in RowType /\ Reservation(r)
      BY <1>t DEF Types, RowsSound
    <3>2. UNCHANGED delivery
      BY <2>1 DEF Ask
    <3>3. ASSUME NEW k, NEW step \in {"stale", "reserve", "look"}, NEW c \in {NoResend, delivery[r].resend},
                 k = [step |-> step, row |-> r, resend |-> c, saw |-> delivery[r].status],
                 Go(o, k), Relies(k)'
          PROVE  operator' \in [Operators -> OperatorType] /\ OperatorsSound'
      <4>1. k \in OperatorType
        BY <3>1, <3>3 DEF RowType, OperatorType
      <4> QED
        BY <1>2, <3>3, <4>1
    <3>4. CASE /\ delivery[r].status = "sending" /\ delivery[r].resend # NoResend
               /\ Go(o, [step |-> "look", row |-> r, resend |-> delivery[r].resend, saw |-> delivery[r].status])
      <4>1. PICK k : k = [step |-> "look", row |-> r, resend |-> delivery[r].resend,
                          saw |-> delivery[r].status]
        OBVIOUS
      <4>2. Relies(k)'
        BY <3>1, <3>2, <3>4, <4>1 DEF Relies, Reservation
      <4> QED
        BY <3>3, <3>4, <4>1, <4>2
    <3>5. CASE Go(o, [step |-> "stale", row |-> r, resend |-> NoResend, saw |-> delivery[r].status])
      <4>1. PICK k : k = [step |-> "stale", row |-> r, resend |-> NoResend, saw |-> delivery[r].status]
        OBVIOUS
      <4>2. Relies(k)'
        BY <4>1 DEF Relies
      <4> QED
        BY <3>3, <3>5, <4>1, <4>2
    <3>6. CASE /\ delivery[r].status \in {"failed", "unknown"}
               /\ Go(o, [step |-> "reserve", row |-> r, resend |-> NoResend, saw |-> delivery[r].status])
      <4>1. PICK k : k = [step |-> "reserve", row |-> r, resend |-> NoResend, saw |-> delivery[r].status]
        OBVIOUS
      <4>2. Relies(k)'
        BY <3>6, <4>1 DEF Relies
      <4> QED
        BY <3>3, <3>6, <4>1, <4>2
    <3> QED
      BY <2>1, <3>1, <3>4, <3>5, <3>6 DEF Ask
  <2>2. CASE MarkStale(o)
    <3>a. PICK d : d = [operator[o] EXCEPT !.step = "reserve"]
      OBVIOUS
    <3>b. d \in OperatorType /\ d.step = "reserve" /\ d.resend = operator[o].resend
      BY <2>0, <3>a DEF OperatorType
    <3>c. PICK k : k = [d EXCEPT !.saw = "unknown"]
      OBVIOUS
    <3>d. k \in OperatorType /\ k.step = "reserve" /\ k.saw = "unknown" /\ k.resend = operator[o].resend
      BY <2>v, <3>b, <3>c DEF OperatorType
    <3>e. k = [operator[o] EXCEPT !.step = "reserve", !.saw = "unknown"]
      BY <3>a, <3>c
    <3>f. Go(o, k) \/ Go(o, NoRequest)
      BY <2>2, <3>e DEF MarkStale
    <3> QED
      BY <1>g, <1>i, <3>d, <3>f
  <2>3. CASE Reserve(o)
    <3>1. CASE Go(o, NoRequest)
      BY <1>i, <3>1
    <3>2. ASSUME NEW c \in Resends, delivery[c].status = "absent",
                 delivery[operator[o].row].status = operator[o].saw,
                 delivery' = [delivery EXCEPT ![operator[o].row] = [status |-> "sending", resend |-> c],
                                              ![c] = [status |-> "pending", resend |-> NoResend]],
                 Go(o, [operator[o] EXCEPT !.step = "look", !.resend = c])
          PROVE  operator' \in [Operators -> OperatorType] /\ OperatorsSound'
      <4>1. PICK k : k = [[operator[o] EXCEPT !.step = "look"] EXCEPT !.resend = c]
        OBVIOUS
      <4>2. k \in OperatorType /\ k.step = "look" /\ k.resend = c
        BY <2>0, <3>2, <4>1 DEF OperatorType
      <4>3. c \in Rows /\ c # NoResend
        BY <3>2, ResendsAssumption DEF Rows, NoResend
      <4>4. PICK v, w : v = [status |-> "sending", resend |-> c]
                     /\ w = [status |-> "pending", resend |-> NoResend]
        OBVIOUS
      <4>5. delivery' = [[delivery EXCEPT ![operator[o].row] = v] EXCEPT ![c] = w]
        BY <3>2, <4>4
      <4>6. delivery'[c].status # "absent"
        BY <1>t, <4>3, <4>4, <4>5 DEF Types
      <4>7. Relies(k)'
        BY <4>2, <4>3, <4>6 DEF Relies
      <4>8. Go(o, k)
        BY <3>2, <4>1
      <4> QED
        BY <1>2, <4>2, <4>7, <4>8
    <3> QED
      BY <2>3, <3>1, <3>2 DEF Reserve
  <2>4. CASE Look(o)
    <3>1. /\ operator[o].step = "look" /\ operator[o].resend \in Rows
          /\ delivery[operator[o].resend].status # "absent"
      BY <2>0, <2>4 DEF Look, At, Relies, OperatorType, Rows
    <3>2. PICK s : s = delivery[operator[o].resend].status
      OBVIOUS
    <3>3. s \in Statuses /\ s # "absent" /\ (s = "sent" => operator[o].resend \in confirmed)
      BY <1>t, <3>1, <3>2 DEF Types, RowType, RowsSound
    <3>4. CASE Go(o, NoRequest)
      BY <1>i, <3>4
    <3>5. CASE Go(o, [operator[o] EXCEPT !.step = "finalize", !.saw = "unknown"])
      <4>a. PICK d : d = [operator[o] EXCEPT !.step = "finalize"]
        OBVIOUS
      <4>b. d \in OperatorType /\ d.step = "finalize" /\ d.resend = operator[o].resend
        BY <2>0, <4>a DEF OperatorType
      <4>c. PICK k : k = [d EXCEPT !.saw = "unknown"]
        OBVIOUS
      <4>d. k \in OperatorType /\ k.step = "finalize" /\ k.saw = "unknown" /\ k.resend = operator[o].resend
        BY <2>v, <4>b, <4>c DEF OperatorType
      <4>e. k = [operator[o] EXCEPT !.step = "finalize", !.saw = "unknown"]
        BY <4>a, <4>c
      <4>f. Go(o, k)
        BY <3>5, <4>e
      <4> QED
        BY <1>g, <3>1, <4>d, <4>f DEF Outcomes
    <3>6. CASE /\ s # "sending"
               /\ Go(o, [operator[o] EXCEPT !.step = NextStep(operator[o].row, s), !.saw = s])
      <4>1. PICK n : n = NextStep(operator[o].row, s)
        OBVIOUS
      <4>2. /\ n \in {"claim", "requeue", "finalize"}
            /\ n \in {"requeue", "finalize"} => s \in Outcomes
        BY <3>3, <3>6, <4>1 DEF NextStep, Statuses, Outcomes
      <4>a. PICK d : d = [operator[o] EXCEPT !.step = n]
        OBVIOUS
      <4>b. d \in OperatorType /\ d.step = n /\ d.resend = operator[o].resend
        BY <2>0, <4>2, <4>a DEF OperatorType
      <4>c. PICK k : k = [d EXCEPT !.saw = s]
        OBVIOUS
      <4>d. k \in OperatorType /\ k.step = n /\ k.saw = s /\ k.resend = operator[o].resend
        BY <3>3, <4>b, <4>c DEF OperatorType
      <4>e. k = [operator[o] EXCEPT !.step = n, !.saw = s]
        BY <4>a, <4>c
      <4>f. Go(o, k)
        BY <3>6, <4>1, <4>e
      <4> QED
        BY <1>g, <3>1, <3>3, <4>2, <4>d, <4>f
    <3> QED
      BY <2>4, <3>2, <3>4, <3>5, <3>6 DEF Look
  <2>s. ASSUME NEW step \in {"look", "sending", "finalize"},
               Go(o, [operator[o] EXCEPT !.step = step]),
               operator[o].step \notin {"idle", "stale", "reserve"},
               step = "finalize" => operator[o].step = "requeue"
        PROVE  operator' \in [Operators -> OperatorType] /\ OperatorsSound'
    <3>1. PICK k : k = [operator[o] EXCEPT !.step = step]
      OBVIOUS
    <3>2. k \in OperatorType /\ k.step = step /\ k.saw = operator[o].saw /\ k.resend = operator[o].resend
      BY <2>0, <3>1 DEF OperatorType
    <3>3. step = "finalize" =>
            operator[o].saw \in Outcomes /\ (operator[o].saw = "sent" => operator[o].resend \in confirmed)
      BY <2>0, <2>s DEF Relies
    <3> QED
      BY <1>g, <2>s, <3>1, <3>2, <3>3
  <2>5. CASE PostResend(o)
    BY <1>i, <2>5, <2>s DEF PostResend, At
  <2>6. ASSUME NEW s \in Outcomes, AnsweredResend(o, s)
        PROVE  operator' \in [Operators -> OperatorType] /\ OperatorsSound'
    BY <2>6, <2>s DEF AnsweredResend, At
  <2>7. CASE RequeueEvent(o)
    BY <1>i, <2>7, <2>s DEF RequeueEvent, At
  <2>8. CASE Finalize(o) \/ CrashRequest(o)
    BY <1>i, <2>8 DEF Finalize, CrashRequest
  <2> QED
    BY <1>4, <2>1, <2>2, <2>3, <2>4, <2>5, <2>6, <2>7, <2>8 DEF Operate
<1>5. ASSUME NEW d \in Dispatches, Listen(d) PROVE UNCHANGED operator
  BY <1>5 DEF Listen, Begin, PassOver, MarkUnknown, Post, Crash, Answered
<1>6. CASE RunEnds \/ Settle \/ Park \/ Requeue
  BY <1>3, <1>6 DEF RunEnds, Settle, Park, Requeue, outboxClients
<1>7. CASE UNCHANGED vars
  BY <1>3, <1>7 DEF vars
<1> QED
  BY <1>3, <1>4, <1>5, <1>6, <1>7 DEF Next

(* Only faults are counted, so their count stays a number.                 *)
LEMMA FaultsKept == Inv /\ [Next]_vars => faults' \in Nat
<1> SUFFICES ASSUME Inv, [Next]_vars PROVE faults' \in Nat
  OBVIOUS
<1>1. faults \in Nat
  BY DEF Inv, Types
<1>2. Fault \/ NoFault => faults' \in Nat
  BY <1>1 DEF Fault, NoFault
<1>3. ASSUME NEW d \in Dispatches, Listen(d) PROVE Fault \/ NoFault
  BY <1>3 DEF Listen, Begin, PassOver, MarkUnknown, Post, Answered, Crash, NoFault
<1>4. ASSUME NEW o \in Operators, Operate(o) PROVE Fault \/ NoFault
  BY <1>4 DEF Operate, Ask, MarkStale, Reserve, Look, Stale, PostResend, AnsweredResend,
              RequeueEvent, Finalize, CrashRequest, NoFault
<1>5. CASE RunEnds \/ Settle \/ Park \/ Requeue
  BY <1>1, <1>5 DEF RunEnds, Settle, Park, Requeue, outboxClients
<1>6. CASE UNCHANGED vars
  BY <1>1, <1>6 DEF vars
<1> QED
  BY <1>2, <1>3, <1>4, <1>5, <1>6 DEF Next

(***************************************************************************)
(* The theorems.                                                           *)
(***************************************************************************)
LEMMA Initially == Init => Inv
<1> SUFFICES ASSUME Init PROVE Inv
  OBVIOUS
<1> USE DEF Init
<1>1. Types
  BY DEF Types, RowType, DispatchType, OperatorType, NoDispatch, NoRequest, Statuses, Rows
<1>2. RowsSound
  BY DEF RowsSound, Budget, Postable, Reservation
<1>3. OperatorsSound
  BY DEF OperatorsSound, Relies, NoRequest
<1> QED
  BY <1>1, <1>2, <1>3 DEF Inv

LEMMA Inductive == Inv /\ [Next]_vars => Inv'
<1> SUFFICES ASSUME Inv, [Next]_vars PROVE Inv'
  OBVIOUS
<1>1. TableStep
  BY TableKept
<1>2. RowsSound'
  BY <1>1, RowsKept DEF Inv
<1>3. /\ dispatch' \in [Dispatches -> DispatchType]
      /\ operator' \in [Operators -> OperatorType] /\ OperatorsSound'
  BY <1>1, DispatchesKept, OperatorsKept DEF Inv
<1>4. faults' \in Nat
  BY FaultsKept
<1>5. Types'
  BY <1>1, <1>3, <1>4 DEF Types, TableStep
<1> QED
  BY <1>2, <1>3, <1>4, <1>5 DEF Inv

LEMMA Invariant == Spec => []Inv
<1> QED
  BY Initially, Inductive, PTL DEF Spec

(* The table and the work on it keep their types, a reservation always     *)
(* names a delivery that exists, and an operator at work has a resend.     *)
THEOREM TypeCorrect == Spec => []TypeOK
<1>1. Inv => TypeOK
  BY DEF Inv, Types, RowsSound, Reservation, OperatorsSound, Relies, TypeOK
<1> QED
  BY <1>1, Invariant, PTL

(* Every post after the first has a ground of its own, a definite failure  *)
(* recorded of the row or an operator's reservation, whatever overlaps,    *)
(* crashes or is recorded late.                                            *)
THEOREM RepeatNeedsGroundCorrect == Spec => []RepeatNeedsGround
<1>1. Inv => RepeatNeedsGround
  BY DEF Inv, RowsSound, Budget, RepeatNeedsGround
<1> QED
  BY <1>1, Invariant, PTL

(* A row that says sent had a post, its own or a resend's, that the        *)
(* channel accepted.                                                       *)
THEOREM SentMeansConfirmedCorrect == Spec => []SentMeansConfirmed
<1>1. Inv => SentMeansConfirmed
  BY DEF Inv, RowsSound, SentMeansConfirmed
<1> QED
  BY <1>1, Invariant, PTL
===============================================================================
