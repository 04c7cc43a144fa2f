-------------------------- MODULE RunLifecycleProofs --------------------------
(***************************************************************************)
(* Proofs about the run lifecycle, for any number of runs, callers,        *)
(* executions and faults.  The inductive invariant adds to the checked     *)
(* properties the types of the state and Sound: whatever names an          *)
(* execution names one that was started, and whatever carries a status     *)
(* has an execution that came to it.  Both are kept because executions     *)
(* only grow, which Growth states.                                         *)
(***************************************************************************)
EXTENDS RunLifecycleProps, FiniteSetTheorems, WellFoundedInduction, TLAPS

Types == StoreTypeOK /\ RequestTypeOK /\ ScanTypeOK

Inv ==
  /\ Types
  /\ Sound
  /\ HandlesAgree
  /\ CountedOnce
  /\ Truthful
  /\ EventAgrees

(* Executions are only added, and what one came to it came to.             *)
Grows ==
  \A r \in Runs :
    /\ Latest(r) <= Latest(r)'
    /\ \A s \in Statuses \ {Open} : Evidence(r, s) => Evidence(r, s)'

(***************************************************************************)
(* The initial states.                                                     *)
(***************************************************************************)

(* Nothing exists before the first request.                                *)
LEMMA Initially == Init => Inv
<1> SUFFICES ASSUME Init PROVE Inv
  OBVIOUS
<1>1. Types
  BY RunsAssumption DEF Init, Types, StoreTypeOK, RequestTypeOK, ScanTypeOK, RowType, ExecType,
     CallType, Steps, Statuses, Terminal, Verdicts, Open, NoExec, Idle, NoScan
<1>2. Sound
  BY DEF Init, Sound, CallSound, Idle, NoScan, NoExec, Latest
<1>3. HandlesAgree /\ CountedOnce /\ Truthful /\ EventAgrees
  BY DEF Init, HandlesAgree, CountedOnce, Truthful, EventAgrees
<1> QED
  BY <1>1, <1>2, <1>3 DEF Inv

(***************************************************************************)
(* Executions grow.                                                        *)
(***************************************************************************)

(* An action of an execution replaces it by one that came to as much.      *)
LEMMA Replaced ==
  ASSUME Types, NEW q \in Runs, NEW i \in DOMAIN execs[q], NEW x \in ExecType,
         execs' = [execs EXCEPT ![q][i] = x],
         execs[q][i].verdict \in {Open, x.verdict},
         execs[q][i].closed \in {Open, x.closed}
  PROVE  Grows /\ execs' \in [Runs -> Seq(ExecType)]
<1>1. execs \in [Runs -> Seq(ExecType)]
  BY DEF Types, StoreTypeOK
<1>2. execs' \in [Runs -> Seq(ExecType)]
  BY <1>1
<1>3. ASSUME NEW r \in Runs
      PROVE  /\ Len(execs'[r]) = Len(execs[r])
             /\ \A j \in DOMAIN execs[r] :
                  execs'[r][j] = IF r = q /\ j = i THEN x ELSE execs[r][j]
  BY <1>1, <1>3
<1>4. ASSUME NEW r \in Runs, NEW s \in Statuses \ {Open}, Evidence(r, s)
      PROVE  Evidence(r, s)'
  <2>1. PICK j \in DOMAIN execs[r] : s \in {execs[r][j].verdict, execs[r][j].closed}
    BY <1>4 DEF Evidence
  <2>2. s \in {execs'[r][j].verdict, execs'[r][j].closed}
    BY <1>3, <1>4, <2>1
  <2>3. j \in DOMAIN execs'[r]
    BY <1>1, <1>2, <1>3, <2>1
  <2> QED
    BY <2>2, <2>3 DEF Evidence
<1>5. Grows
  BY <1>1, <1>2, <1>3, <1>4 DEF Grows, Latest
<1> QED
  BY <1>2, <1>5

(* Every step lets the executions grow and keeps their type.               *)
LEMMA Growth == Inv /\ [Next]_vars => Grows /\ execs' \in [Runs -> Seq(ExecType)]
<1> SUFFICES ASSUME Inv, [Next]_vars
             PROVE  Grows /\ execs' \in [Runs -> Seq(ExecType)]
  OBVIOUS
<1>t. Types /\ execs \in [Runs -> Seq(ExecType)]
  BY DEF Inv, Types, StoreTypeOK
<1>u. CASE UNCHANGED execs
  BY <1>t, <1>u DEF Grows, Latest, Evidence
<1>s. ASSUME NEW c \in Callers, Start(c) PROVE Grows /\ execs' \in [Runs -> Seq(ExecType)]
  <2>1. CASE UNCHANGED execs
    BY <1>u, <2>1
  <2>2. CASE ~ UNCHANGED execs
    <3> DEFINE q == call[c].run
    <3>1. execs' = [execs EXCEPT ![q] = Append(execs[q], NewExec)]
      BY <1>s, <2>2 DEF Start
    <3>2. NewExec \in ExecType
      BY DEF NewExec, ExecType, Statuses
    <3>3. q \in Runs
      BY <1>s DEF Inv, Sound, CallSound, Start, At
    <3> HIDE DEF q
    <3>4. execs' \in [Runs -> Seq(ExecType)]
      BY <1>t, <3>1, <3>2, <3>3
    <3>5. ASSUME NEW r \in Runs
          PROVE  /\ Len(execs[r]) <= Len(execs'[r])
                 /\ \A j \in DOMAIN execs[r] : j \in DOMAIN execs'[r] /\ execs'[r][j] = execs[r][j]
      <4>1. CASE r = q
        <5>1. execs'[r] = Append(execs[r], NewExec)
          BY <1>t, <3>1, <4>1
        <5> QED
          BY <1>t, <3>2, <5>1
      <4>2. CASE r # q
        <5>1. execs'[r] = execs[r]
          BY <1>t, <3>1, <4>2
        <5> QED
          BY <1>t, <5>1
      <4> QED
        BY <4>1, <4>2
    <3> QED
      BY <3>4, <3>5 DEF Grows, Latest, Evidence
  <2> QED
    BY <2>1, <2>2
<1>e. ASSUME NEW q \in Runs, NEW i \in DOMAIN execs[q],
             Execution(q, i) \/ LifecycleFails(q, i) \/ Terminate(q, i)
      PROVE  Grows /\ execs' \in [Runs -> Seq(ExecType)]
  <2>1. execs[q][i] \in ExecType
    BY <1>t
  <2>2. /\ execs[q][i].state = "running" => execs[q][i].verdict = Open
        /\ execs[q][i].state # "closed" => execs[q][i].closed = Open
    BY <2>1 DEF ExecType
  <2>3. CASE BodyEnds(q, i)
    <3>1. PICK v \in Verdicts :
            execs' = [execs EXCEPT ![q][i] = [state |-> "finalizing", verdict |-> v, closed |-> Open]]
      BY <2>3 DEF BodyEnds, SetExec
    <3>2. execs[q][i].verdict = Open /\ execs[q][i].closed = Open
      BY <2>2, <2>3 DEF BodyEnds
    <3>3. [state |-> "finalizing", verdict |-> v, closed |-> Open] \in ExecType
      BY DEF ExecType, Statuses
    <3> QED
      BY <1>t, <3>1, <3>2, <3>3, Replaced
  <2>4. CASE FinalizeRun(q, i)
    <3> DEFINE x == [execs[q][i] EXCEPT !.state = "closing"]
    <3>1. execs' = [execs EXCEPT ![q][i] = x]
      BY <2>4 DEF FinalizeRun, SetExec
    <3>2. x \in ExecType /\ x.verdict = execs[q][i].verdict /\ x.closed = execs[q][i].closed
      BY <2>1, <2>2, <2>4 DEF ExecType, FinalizeRun
    <3> HIDE DEF x
    <3> QED
      BY <1>t, <3>1, <3>2, Replaced
  <2>5. CASE Close(q, i)
    <3> DEFINE x == [execs[q][i] EXCEPT !.state = "closed", !.closed = execs[q][i].verdict]
    <3>1. execs' = [execs EXCEPT ![q][i] = x]
      BY <2>5 DEF Close, SetExec
    <3>2. x \in ExecType /\ x.verdict = execs[q][i].verdict /\ execs[q][i].closed = Open
      BY <2>1, <2>2, <2>5 DEF ExecType, Close, Statuses, Terminal
    <3> HIDE DEF x
    <3> QED
      BY <1>t, <3>1, <3>2, Replaced
  <2>6. CASE LifecycleFails(q, i)
    <3> DEFINE x == [execs[q][i] EXCEPT !.state = "closed", !.closed = "FAILED"]
    <3>1. execs' = [execs EXCEPT ![q][i] = x]
      BY <2>6 DEF LifecycleFails, SetExec
    <3>2. x \in ExecType /\ x.verdict = execs[q][i].verdict /\ execs[q][i].closed = Open
      BY <2>1, <2>2, <2>6 DEF ExecType, LifecycleFails, Statuses, Terminal, Verdicts
    <3> HIDE DEF x
    <3> QED
      BY <1>t, <3>1, <3>2, Replaced
  <2>7. CASE Terminate(q, i)
    <3> DEFINE x == [execs[q][i] EXCEPT !.state = "closed", !.closed = "TERMINATED"]
    <3>1. execs' = [execs EXCEPT ![q][i] = x]
      BY <2>7 DEF Terminate, SetExec
    <3>2. x \in ExecType /\ x.verdict = execs[q][i].verdict /\ execs[q][i].closed = Open
      BY <2>1, <2>2, <2>7 DEF ExecType, Terminate, IsOpen, Statuses, Terminal
    <3> HIDE DEF x
    <3> QED
      BY <1>t, <3>1, <3>2, Replaced
  <2> QED
    BY <1>e, <2>3, <2>4, <2>5, <2>6, <2>7 DEF Execution
<1>c. CASE Caller
  BY <1>c, <1>s, <1>u DEF Caller, Prepare, Find, Describe, Persist, Report
<1>x. CASE Executions
  BY <1>x, <1>e DEF Executions
<1>r. CASE Reconciler \/ (\E p \in reports : WriteReport(p)) \/ (\E r \in Runs : Query(r)) \/ Restart
  BY <1>r, <1>u DEF Reconciler, List, Reconcile, PassEnds, WriteReport, Query, Restart, scanVars
<1> QED
  BY <1>c, <1>x, <1>r, <1>u DEF Next, vars

(***************************************************************************)
(* The types.                                                              *)
(***************************************************************************)

(* finalizeTerminalRun keeps the types and the agreement of row and event; *)
(* it changes a row only if its status is open.                            *)
LEMMA Finalizes ==
  ASSUME row \in [Runs -> RowType], event \in [Runs -> Statuses], EventAgrees,
         NEW q \in Runs, NEW s \in Statuses, Finalize(q, s)
  PROVE  /\ row' \in [Runs -> RowType]
         /\ event' \in [Runs -> Statuses]
         /\ EventAgrees'
         /\ \A r \in Runs : row'[r].exec = row[r].exec /\ row'[r].exists = row[r].exists
         /\ \A r \in Runs : row'[r].status # row[r].status => r = q /\ row'[r].status = s
         /\ \A r \in Runs : row[r].status # Open => row'[r].status = row[r].status
<1>1. Settled(q, s) \in Statuses
  BY DEF Settled, RowType
<1>2. /\ row'[q] = [row[q] EXCEPT !.status = Settled(q, s)]
      /\ \A r \in Runs : r # q => row'[r] = row[r]
      /\ DOMAIN row' = Runs
  BY DEF Finalize
<1>3. row' \in [Runs -> RowType]
  BY <1>1 DEF Finalize, RowType
<1>4. row'[q].status = Settled(q, s) /\ row'[q].exec = row[q].exec /\ row'[q].exists = row[q].exists
  BY <1>2 DEF RowType
<1>5. event' \in [Runs -> Statuses]
  BY <1>1 DEF Finalize
<1>6. event'[q] = Settled(q, s) /\ \A r \in Runs : r # q => event'[r] = event[r]
  BY DEF Finalize, EventAgrees, Settled
<1> QED
  BY <1>2, <1>3, <1>4, <1>5, <1>6 DEF EventAgrees, Settled

(* A status that is described is one that Temporal reports.                *)
LEMMA DescribedStatus ==
  ASSUME Types, NEW r \in Runs, NEW x \in 0 .. Latest(r)
  PROVE  /\ Described(r, x) \in Statuses
         /\ Described(r, x) # Open => Evidence(r, Described(r, x))
<1>1. execs[r] \in Seq(ExecType)
  BY DEF Types, StoreTypeOK
<1>2. CASE execs[r] = <<>>
  BY <1>2 DEF Described, Statuses
<1>3. CASE execs[r] # <<>>
  <2> DEFINE i == IF x = NoExec THEN Latest(r) ELSE x
  <2>1. i \in DOMAIN execs[r]
    BY <1>1, <1>3 DEF Latest, NoExec
  <2>2. execs[r][i] \in ExecType
    BY <1>1, <2>1
  <2>3. Described(r, x) = execs[r][i].closed
    BY <1>3 DEF Described
  <2> HIDE DEF i
  <2> QED
    BY <2>1, <2>2, <2>3 DEF Evidence, ExecType
<1> QED
  BY <1>2, <1>3

(* Every step keeps the types, and with them the agreement of row and      *)
(* event, since one transaction writes both.                               *)
LEMMA TypesKept == Inv /\ [Next]_vars => Types' /\ EventAgrees'
<1> SUFFICES ASSUME Inv, [Next]_vars
             PROVE  Types' /\ EventAgrees'
  OBVIOUS
<1>t. Types /\ EventAgrees /\ execs' \in [Runs -> Seq(ExecType)]
  BY Growth DEF Inv
<1> USE DEF Types, StoreTypeOK, RequestTypeOK, ScanTypeOK
<1>i. Idle \in CallType
  BY DEF Idle, CallType, Steps, NoExec, Statuses
<1>c. ASSUME NEW c \in Callers, NEW k \in CallType, call' = [call EXCEPT ![c] = k]
      PROVE  call' \in [Callers -> CallType]
  BY <1>t, <1>c
<1>1. ASSUME NEW c \in Callers, NEW r \in Runs, Prepare(c, r)
      PROVE  Types' /\ EventAgrees'
  <2> DEFINE d == [Idle EXCEPT !.step = "find"]
  <2>a. d \in CallType
    BY <1>i DEF CallType, Steps
  <2>b. [d EXCEPT !.run = r] \in CallType
    <3> HIDE DEF d
    <3> QED BY <2>a DEF CallType
  <2>1. [Idle EXCEPT !.step = "find", !.run = r] \in CallType
    BY <2>b
  <2>2. call' \in [Callers -> CallType]
    BY <1>1, <1>c, <2>1 DEF Prepare
  <2>3. row' \in [Runs -> RowType] /\ \A q \in Runs : row'[q].status = row[q].status
    BY <1>1, <1>t DEF Prepare, RowType
  <2> QED
    BY <1>1, <1>t, <2>2, <2>3 DEF Prepare, callVars, EventAgrees
<1>2. ASSUME NEW c \in Callers, Find(c)
      PROVE  Types' /\ EventAgrees'
  <2>1. call[c] \in CallType /\ call[c].run \in Runs
    BY <1>2, <1>t DEF Inv, Sound, CallSound, Find, At
  <2>2. CASE row[call[c].run].exec # NoExec
    <3>1. call' \in [Callers -> CallType]
      BY <1>2, <1>t, <1>c, <1>i, <2>2 DEF Find, Answer, Leave
    <3>2. row[call[c].run].exec \in Nat
      BY <1>t, <2>1 DEF RowType
    <3>3. handles' \subseteq Runs \X Nat
      BY <1>2, <1>t, <2>1, <2>2, <3>2 DEF Find, Answer
    <3> QED
      BY <1>2, <1>t, <3>1, <3>3 DEF Find, callVars, EventAgrees
  <2>3. CASE row[call[c].run].exec = NoExec
    <3>1. PICK s \in {"start", "describe"} : call' = [call EXCEPT ![c].step = s]
      BY <1>2, <2>3 DEF Find, Goto
    <3>2. call' \in [Callers -> CallType]
      BY <1>t, <2>1, <3>1 DEF CallType, Steps
    <3> QED
      BY <1>2, <1>t, <2>3, <3>2 DEF Find, callVars, EventAgrees
  <2> QED
    BY <2>2, <2>3
<1>3. ASSUME NEW c \in Callers, Start(c)
      PROVE  Types' /\ EventAgrees'
  <2>1. call[c] \in CallType /\ call[c].run \in Runs
    BY <1>3, <1>t DEF Inv, Sound, CallSound, Start, At
  <2>2. Latest(call[c].run) + 1 \in Nat
    BY <1>t, <2>1 DEF Latest
  <2>3. \/ call' = [call EXCEPT ![c].step = "refind"]
        \/ call' = [call EXCEPT ![c].step = "persist", ![c].exec = Latest(call[c].run) + 1]
        \/ call' = [call EXCEPT ![c] = Idle]
    BY <1>3 DEF Start, Goto, Leave
  <2>4. call' \in [Callers -> CallType]
    <3>1. [call[c] EXCEPT !.step = "refind"] \in CallType
      BY <2>1 DEF CallType, Steps
    <3>2. [call[c] EXCEPT !.step = "persist", !.exec = Latest(call[c].run) + 1] \in CallType
      BY <2>1, <2>2 DEF CallType, Steps
    <3>3. CASE call' = [call EXCEPT ![c].step = "refind"]
      BY <1>t, <3>1, <3>3
    <3>4. CASE call' = [call EXCEPT ![c].step = "persist", ![c].exec = Latest(call[c].run) + 1]
      BY <1>t, <3>2, <3>4
    <3>5. CASE call' = [call EXCEPT ![c] = Idle]
      BY <1>t, <1>i, <3>5
    <3> QED
      BY <2>3, <3>3, <3>4, <3>5
  <2> QED
    BY <1>3, <1>t, <2>4 DEF Start, callVars, EventAgrees
<1>4. ASSUME NEW c \in Callers, Describe(c)
      PROVE  Types' /\ EventAgrees'
  <2> DEFINE r == call[c].run
  <2>1. call[c] \in CallType /\ r \in Runs /\ Latest(r) > 0
    BY <1>4, <1>t DEF Inv, Sound, CallSound, Describe, At
  <2>2. Latest(r) \in Nat /\ execs[r][Latest(r)].closed \in Statuses
    <3>1. execs[r] \in Seq(ExecType)
      BY <1>t, <2>1
    <3>2. Latest(r) \in DOMAIN execs[r]
      BY <2>1, <3>1 DEF Latest
    <3>3. execs[r][Latest(r)] \in ExecType
      BY <3>1, <3>2
    <3> QED
      BY <3>1, <3>3 DEF Latest, ExecType
  <2>3. call' \in [Callers -> CallType]
    BY <1>4, <1>t, <2>1, <2>2 DEF Describe, CallType, Steps
  <2> QED
    BY <1>4, <1>t, <2>3 DEF Describe, callVars, EventAgrees
<1>5. ASSUME NEW c \in Callers, Persist(c)
      PROVE  Types' /\ EventAgrees'
  <2> DEFINE r == call[c].run
  <2>1. call[c] \in CallType /\ r \in Runs /\ call[c].exec \in Nat
    BY <1>5, <1>t DEF Inv, Sound, CallSound, Persist, At, CallType
  <2>2. \/ call' = [call EXCEPT ![c].step = "report"]
        \/ call' = [call EXCEPT ![c] = Idle]
    BY <1>5 DEF Persist, Goto, Leave, Answer
  <2>3. call' \in [Callers -> CallType]
    BY <1>t, <1>i, <1>c, <2>1, <2>2 DEF CallType, Steps
  <2>4. row' = row \/ row' = [row EXCEPT ![r].exec = call[c].exec]
    BY <1>5 DEF Persist
  <2>5. row' \in [Runs -> RowType] /\ \A q \in Runs : row'[q].status = row[q].status
    <3>1. row[r] \in RowType
      BY <1>t, <2>1
    <3>2. /\ [row[r] EXCEPT !.exec = call[c].exec] \in RowType
          /\ [row[r] EXCEPT !.exec = call[c].exec].status = row[r].status
      BY <2>1, <3>1 DEF RowType
    <3> HIDE DEF r
    <3> QED
      BY <1>t, <2>1, <2>4, <3>2
  <2>6. runCount' \in [Runs -> Nat]
    BY <1>5, <1>t DEF Persist
  <2>7. handles' \subseteq Runs \X Nat
    BY <1>5, <1>t, <2>1 DEF Persist, Answer
  <2> QED
    BY <1>5, <1>t, <2>3, <2>5, <2>6, <2>7 DEF Persist, callVars, EventAgrees
<1>6. ASSUME NEW c \in Callers, Report(c)
      PROVE  Types' /\ EventAgrees'
  <2>1. call[c] \in CallType /\ call[c].run \in Runs
    BY <1>6, <1>t DEF Inv, Sound, CallSound, Report, At
  <2>2. call[c].status \in Statuses /\ call[c].exec \in Nat
    BY <2>1 DEF CallType
  <2>3. row' \in [Runs -> RowType] /\ event' \in [Runs -> Statuses] /\ EventAgrees'
    BY <1>6, <1>t, <2>1, <2>2, Finalizes DEF Report, EventAgrees
  <2>4. call' \in [Callers -> CallType] /\ handles' \subseteq Runs \X Nat
    BY <1>6, <1>t, <1>i, <1>c, <2>1, <2>2 DEF Report, Answer, Leave
  <2> QED
    BY <1>6, <1>t, <2>3, <2>4 DEF Report
<1>7. ASSUME NEW r \in Runs, NEW i \in DOMAIN execs[r],
             BodyEnds(r, i) \/ Close(r, i) \/ LifecycleFails(r, i) \/ Terminate(r, i)
      PROVE  Types' /\ EventAgrees'
  BY <1>7, <1>t DEF BodyEnds, Close, LifecycleFails, Terminate, execVars, EventAgrees
<1>8. ASSUME NEW r \in Runs, NEW i \in DOMAIN execs[r], FinalizeRun(r, i)
      PROVE  Types' /\ EventAgrees'
  <2>1. execs[r][i] \in ExecType
    BY <1>t
  <2>2. execs[r][i].verdict \in Statuses
    BY <2>1 DEF ExecType, Statuses, Terminal
  <2>3. row' \in [Runs -> RowType] /\ event' \in [Runs -> Statuses] /\ EventAgrees'
    BY <1>8, <1>t, <2>2, Finalizes DEF FinalizeRun, EventAgrees
  <2> QED
    BY <1>8, <1>t, <2>3 DEF FinalizeRun, execVars
<1>9. CASE List
  <2>1. \A q \in Runs : row[q].exec \in Nat
    BY <1>t DEF RowType
  <2>2. scan'.todo \subseteq [run : Runs, exec : Nat] /\ DOMAIN scan' = {"active", "todo", "next"}
    <3>1. PICK found \in SUBSET Runs :
            scan' = [active |-> TRUE,
                     todo   |-> {[run |-> r, exec |-> row[r].exec] : r \in found},
                     next   |-> NextCursor(found)]
      <4> DEFINE behind == Page(Unfinalized(cursor))
                 found  == IF behind = {} THEN Page(Unfinalized(0)) ELSE behind
      <4>1. found \subseteq Runs
        BY DEF Page, Unfinalized
      <4>2. scan' = [active |-> TRUE,
                     todo   |-> {[run |-> r, exec |-> row[r].exec] : r \in found},
                     next   |-> NextCursor(found)]
        BY <1>9 DEF List
      <4> HIDE DEF found
      <4> QED
        BY <4>1, <4>2
    <3> QED
      BY <2>1, <3>1
  <2> QED
    BY <1>9, <1>t, <2>2 DEF List, scanVars, EventAgrees
<1>10. ASSUME NEW k \in scan.todo, Reconcile(k)
       PROVE  Types' /\ EventAgrees'
  <2>1. k.run \in Runs /\ k.exec \in 0 .. Latest(k.run)
    BY <1>t DEF Inv, Sound, Latest
  <2>2. Described(k.run, k.exec) \in Statuses
    BY <1>t, <2>1, DescribedStatus
  <2>3. scan'.todo \subseteq scan.todo /\ DOMAIN scan' = DOMAIN scan
    BY <1>10, <1>t DEF Reconcile
  <2>4. reports' \subseteq [run : Runs, status : Statuses, by : {"request", "reconciler"}]
    BY <1>10, <1>t, <2>1, <2>2 DEF Reconcile
  <2> QED
    BY <1>10, <1>t, <2>3, <2>4 DEF Reconcile, scanVars, EventAgrees
<1>11. CASE PassEnds
  BY <1>11, <1>t DEF PassEnds, NoScan, scanVars, EventAgrees
<1>12. ASSUME NEW p \in reports, WriteReport(p)
       PROVE  Types' /\ EventAgrees'
  <2>1. p.run \in Runs /\ p.status \in Statuses
    BY <1>t
  <2>2. row' \in [Runs -> RowType] /\ event' \in [Runs -> Statuses] /\ EventAgrees'
    BY <1>12, <1>t, <2>1, Finalizes DEF WriteReport, EventAgrees
  <2>3. scan'.todo \subseteq scan.todo /\ DOMAIN scan' = DOMAIN scan
    BY <1>12, <1>t DEF WriteReport
  <2> QED
    BY <1>12, <1>t, <2>2, <2>3 DEF WriteReport
<1>13. ASSUME NEW r \in Runs, Query(r)
       PROVE  Types' /\ EventAgrees'
  <2>1. PICK x \in {NoExec, row[r].exec} :
          reports' = reports \union {[run |-> r, status |-> Described(r, x), by |-> "request"]}
    BY <1>13 DEF Query
  <2>2. x \in 0 .. Latest(r)
    BY <1>t DEF Inv, Sound, NoExec, Latest, RowType
  <2>3. Described(r, x) \in Statuses
    BY <1>t, <2>2, DescribedStatus
  <2> QED
    BY <1>13, <1>t, <2>1, <2>3 DEF Query, scanVars, EventAgrees
<1>14. CASE Restart
  BY <1>14, <1>t, <1>i DEF Restart, NoScan, EventAgrees
<1>15. CASE UNCHANGED vars
  BY <1>15, <1>t DEF vars, EventAgrees
<1> QED
  BY <1>1, <1>2, <1>3, <1>4, <1>5, <1>6, <1>7, <1>8, <1>9, <1>10, <1>11, <1>12, <1>13, <1>14, <1>15
     DEF Next, Caller, Executions, Execution, Reconciler

(***************************************************************************)
(* The cursor of the reconciler, and the faults.                           *)
(***************************************************************************)

(* A set of natural numbers that is not empty has a least one.             *)
LEMMA Least ==
  ASSUME NEW T \in SUBSET Nat, T # {}
  PROVE  \E x \in T : \A y \in T : x <= y
<1>1. PICK x \in T : \A y \in T : <<y, x>> \notin OpToRel(<, Nat)
  BY WFMin, NatLessThanWellFounded, Zenon
<1>2. \A y \in T : ~(y < x)
  BY <1>1 DEF OpToRel
<1> QED BY <1>2

(* A finite set of natural numbers that is not empty has a greatest one:   *)
(* a subset without one, of the least size, would have a smaller one       *)
(* without it.                                                             *)
LEMMA MaxExists ==
  ASSUME NEW P \in SUBSET Nat, IsFiniteSet(P), P # {}
  PROVE  Max(P) \in P /\ \A y \in P : y <= Max(P)
<1> DEFINE NoMax(Q) == Q # {} /\ \A x \in Q : \E y \in Q : ~(x >= y)
           T == {Cardinality(Q) : Q \in {R \in SUBSET P : NoMax(R)}}
<1>1. ~ NoMax(P)
  <2> SUFFICES ASSUME NoMax(P) PROVE FALSE
    OBVIOUS
  <2>1. T \subseteq Nat
    BY FS_Subset, FS_CardinalityType
  <2>2. T # {}
    OBVIOUS
  <2>3. PICK n \in T : \A m \in T : n <= m
    BY <2>1, <2>2, Least
  <2>4. PICK Q \in SUBSET P : NoMax(Q) /\ n = Cardinality(Q)
    BY <2>3
  <2>5. PICK x \in Q : TRUE
    BY <2>4
  <2>6. IsFiniteSet(Q \ {x}) /\ Cardinality(Q \ {x}) = n - 1 /\ n \in Nat
    BY <2>4, FS_Subset, FS_RemoveElement, FS_CardinalityType
  <2>7. ~ NoMax(Q \ {x})
    <3> SUFFICES ASSUME NoMax(Q \ {x}) PROVE FALSE
      OBVIOUS
    <3>1. Cardinality(Q \ {x}) \in T
      BY <2>4
    <3> HIDE DEF NoMax, T
    <3> QED BY <2>3, <2>6, <3>1
  <2>8. PICK y \in Q : ~(x >= y)
    BY <2>4
  <2>9. y \in Q \ {x}
    BY <2>4, <2>8
  <2>10. PICK m \in Q \ {x} : \A z \in Q \ {x} : m >= z
    BY <2>7, <2>9
  <2>11. \A z \in Q : m >= z
    BY <2>4, <2>8, <2>9, <2>10
  <2> QED BY <2>4, <2>10, <2>11
<1>2. \E x \in P : \A y \in P : x >= y
  BY <1>1
<1> HIDE DEF NoMax, T
<1> QED BY <1>2 DEF Max

(* A pass goes on behind a run, or from the start.                         *)
LEMMA NextCursorType ==
  ASSUME NEW P \in SUBSET Runs
  PROVE  NextCursor(P) \in Runs \union {0}
<1>1. CASE Cardinality(P) = PageSize
  <2>1. IsFiniteSet(P) /\ P \subseteq Nat
    BY RunsAssumption, FS_Subset
  <2>2. P # {}
    BY <1>1, PageSizeAssumption, FS_EmptySet
  <2>3. Max(P) \in P
    BY <2>1, <2>2, MaxExists
  <2> QED BY <1>1, <2>3 DEF NextCursor
<1>2. CASE Cardinality(P) # PageSize
  BY <1>2 DEF NextCursor
<1> QED BY <1>1, <1>2

(* The part of the type invariant that the other properties do not need.   *)
CountersTyped ==
  /\ {scan.next, cursor} \subseteq Runs \union {0}
  /\ faults \in 0 .. MaxFaults

(* A step that is no fault, or one more within the bound.                  *)
FaultsCounted == UNCHANGED faults \/ Fault

LEMMA FaultsKept ==
  ASSUME FaultsCounted, faults \in 0 .. MaxFaults
  PROVE  faults' \in 0 .. MaxFaults
BY MaxFaultsAssumption DEF FaultsCounted, Fault

(* What the reconciler keeps is a run it listed.                           *)
LEMMA CountersKept == Inv /\ CountersTyped /\ [Next]_vars => CountersTyped'
<1> SUFFICES ASSUME Inv, CountersTyped, [Next]_vars
             PROVE  CountersTyped'
  OBVIOUS
<1>d. DOMAIN scan = {"active", "todo", "next"}
  BY DEF Inv, Types, ScanTypeOK
<1>1. CASE List
  <2>1. PICK found \in SUBSET Runs : scan'.next = NextCursor(found)
    <3> DEFINE behind == Page(Unfinalized(cursor))
               found  == IF behind = {} THEN Page(Unfinalized(0)) ELSE behind
    <3>1. found \subseteq Runs
      BY DEF Page, Unfinalized
    <3>2. scan'.next = NextCursor(found)
      BY <1>1 DEF List
    <3> HIDE DEF found
    <3> QED BY <3>1, <3>2
  <2> QED BY <1>1, <2>1, NextCursorType DEF List, CountersTyped
<1>2. ASSUME NEW k \in scan.todo, Reconcile(k) PROVE CountersTyped'
  <2>1. scan'.next = scan.next /\ UNCHANGED cursor /\ FaultsCounted
    BY <1>2, <1>d DEF Reconcile, NoFault, FaultsCounted
  <2> QED BY <2>1, FaultsKept DEF CountersTyped
<1>3. CASE PassEnds
  BY <1>3 DEF PassEnds, NoScan, CountersTyped
<1>4. ASSUME NEW p \in reports, WriteReport(p) PROVE CountersTyped'
  <2>1. scan'.next = scan.next /\ UNCHANGED cursor /\ FaultsCounted
    BY <1>4, <1>d DEF WriteReport, NoFault, FaultsCounted
  <2> QED BY <2>1, FaultsKept DEF CountersTyped
<1>5. CASE Restart
  <2>1. FaultsCounted /\ scan'.next = 0 /\ cursor' = 0
    BY <1>5 DEF Restart, NoScan, FaultsCounted
  <2> QED BY <2>1, FaultsKept DEF CountersTyped
<1>6. CASE Caller \/ Executions \/ (\E r \in Runs : Query(r)) \/ UNCHANGED vars
  <2>1. FaultsCounted /\ UNCHANGED <<scan, cursor>>
    <3>1. CASE Caller
      BY <3>1 DEF Caller, Prepare, Find, Start, Describe, Persist, Report, callVars, NoFault, FaultsCounted
    <3>2. CASE Executions
      BY <3>2 DEF Executions, Execution, BodyEnds, FinalizeRun, Close, LifecycleFails, Terminate,
         execVars, NoFault, FaultsCounted
    <3>3. CASE (\E r \in Runs : Query(r)) \/ UNCHANGED vars
      BY <3>3 DEF Query, scanVars, vars, FaultsCounted
    <3> QED BY <1>6, <3>1, <3>2, <3>3
  <2> QED BY <2>1, FaultsKept DEF CountersTyped
<1> QED BY <1>1, <1>2, <1>3, <1>4, <1>5, <1>6 DEF Next, Reconciler

(***************************************************************************)
(* The rows.                                                               *)
(***************************************************************************)

(* What a step may do to a row: name an execution that was started, once,  *)
(* counting it, and close it, once, with a status that an execution of the *)
(* run came to.                                                            *)
RowKept(r) ==
  /\ row[r].exec # NoExec => row'[r].exec = row[r].exec
  /\ row'[r].exec # row[r].exec => row'[r].exec <= Latest(r)
  /\ runCount'[r] = IF row'[r].exec = NoExec THEN 0 ELSE 1
  /\ row[r].status # Open => row'[r].status = row[r].status
  /\ row'[r].status # row[r].status => Evidence(r, row'[r].status)

LEMMA RowsKept == Inv /\ [Next]_vars => \A r \in Runs : RowKept(r)
<1> SUFFICES ASSUME Inv, [Next]_vars
             PROVE  \A r \in Runs : RowKept(r)
  OBVIOUS
<1>t. /\ Types /\ EventAgrees /\ CountedOnce
      /\ row \in [Runs -> RowType] /\ event \in [Runs -> Statuses]
      /\ runCount \in [Runs -> Nat] /\ call \in [Callers -> CallType]
  BY DEF Inv, Types, StoreTypeOK, RequestTypeOK
<1>u. CASE UNCHANGED <<row, runCount>>
  BY <1>t, <1>u DEF RowKept, CountedOnce
<1>f. ASSUME NEW q \in Runs, NEW s \in Statuses, Finalize(q, s), UNCHANGED runCount,
             s # Open => Evidence(q, s)
      PROVE  \A r \in Runs : RowKept(r)
  <2>1. /\ \A r \in Runs : row'[r].exec = row[r].exec
        /\ \A r \in Runs : row'[r].status # row[r].status => r = q /\ row'[r].status = s
        /\ \A r \in Runs : row[r].status # Open => row'[r].status = row[r].status
    BY <1>f, <1>t, Finalizes
  <2> QED
    BY <1>f, <1>t, <2>1 DEF RowKept, CountedOnce
<1>1. ASSUME NEW c \in Callers, NEW q \in Runs, Prepare(c, q)
      PROVE  \A r \in Runs : RowKept(r)
  <2>1. \A r \in Runs : row'[r].exec = row[r].exec /\ row'[r].status = row[r].status
    BY <1>1, <1>t DEF Prepare, RowType
  <2> QED
    BY <1>1, <1>t, <2>1 DEF RowKept, CountedOnce, Prepare
<1>2. ASSUME NEW c \in Callers, Persist(c)
      PROVE  \A r \in Runs : RowKept(r)
  <2> DEFINE q == call[c].run
             x == call[c].exec
  <2>1. q \in Runs /\ x # NoExec /\ x <= Latest(q) /\ x \in Nat
    BY <1>2, <1>t DEF Inv, Sound, CallSound, Persist, At, CallType
  <2>2. CASE UNCHANGED <<row, runCount>>
    BY <1>u, <2>2
  <2>3. CASE ~ UNCHANGED <<row, runCount>>
    <3>1. /\ row' = [row EXCEPT ![q].exec = x]
          /\ runCount' = [runCount EXCEPT ![q] = runCount[q] + 1]
          /\ row[q].exec = NoExec
      BY <1>2, <2>3 DEF Persist, FirstStart
    <3>2. \A r \in Runs : row[r] \in RowType
      BY <1>t
    <3> HIDE DEF q, x
    <3>3. row'[q].exec = x /\ row'[q].status = row[q].status /\ runCount'[q] = 1
      BY <1>t, <2>1, <3>1, <3>2 DEF RowType, CountedOnce
    <3>4. \A r \in Runs : r # q => row'[r] = row[r] /\ runCount'[r] = runCount[r]
      BY <1>t, <2>1, <3>1
    <3> QED
      BY <1>t, <2>1, <3>1, <3>3, <3>4 DEF RowKept, CountedOnce
  <2> QED
    BY <2>2, <2>3
<1>3. ASSUME NEW c \in Callers, Report(c)
      PROVE  \A r \in Runs : RowKept(r)
  <2>1. /\ call[c].run \in Runs /\ call[c].status \in Statuses
        /\ call[c].status # Open => Evidence(call[c].run, call[c].status)
    BY <1>3, <1>t DEF Inv, Sound, CallSound, Report, At, CallType
  <2> QED
    BY <1>3, <1>f, <1>u, <2>1 DEF Report
<1>4. ASSUME NEW q \in Runs, NEW i \in DOMAIN execs[q], FinalizeRun(q, i)
      PROVE  \A r \in Runs : RowKept(r)
  <2>1. execs[q][i] \in ExecType
    BY <1>t DEF Types, StoreTypeOK
  <2>2. execs[q][i].verdict \in Statuses /\ Evidence(q, execs[q][i].verdict)
    BY <2>1 DEF ExecType, Statuses, Terminal, Evidence
  <2> QED
    BY <1>4, <1>f, <1>u, <2>2 DEF FinalizeRun, execVars
<1>5. ASSUME NEW p \in reports, WriteReport(p)
      PROVE  \A r \in Runs : RowKept(r)
  <2>1. /\ p.run \in Runs /\ p.status \in Statuses
        /\ p.status # Open => Evidence(p.run, p.status)
    BY <1>t DEF Inv, Sound, Types, RequestTypeOK
  <2> QED
    BY <1>5, <1>f, <1>u, <2>1 DEF WriteReport
<1>6. ASSUME NEW c \in Callers, Find(c) \/ Start(c) \/ Describe(c)
      PROVE  \A r \in Runs : RowKept(r)
  BY <1>6, <1>u DEF Find, Start, Describe
<1>7. ASSUME NEW q \in Runs, NEW i \in DOMAIN execs[q],
             BodyEnds(q, i) \/ Close(q, i) \/ LifecycleFails(q, i) \/ Terminate(q, i)
      PROVE  \A r \in Runs : RowKept(r)
  BY <1>7, <1>u DEF BodyEnds, Close, LifecycleFails, Terminate, execVars
<1>8. CASE Reconciler \/ (\E q \in Runs : Query(q)) \/ Restart
  BY <1>8, <1>u DEF Reconciler, List, Reconcile, PassEnds, Query, Restart, scanVars
<1>9. CASE UNCHANGED vars
  BY <1>9, <1>u DEF vars
<1> QED
  BY <1>1, <1>2, <1>3, <1>4, <1>5, <1>6, <1>7, <1>8, <1>9 DEF Next, Caller, Executions, Execution

(***************************************************************************)
(* Calls, candidates and reports.                                          *)
(***************************************************************************)

(* A handle that is given out names the execution in the row.              *)
LEMMA HandlesKept == Inv /\ [Next]_vars => HandlesAgree'
<1> SUFFICES ASSUME Inv, [Next]_vars
             PROVE  HandlesAgree'
  OBVIOUS
<1>t. /\ HandlesAgree
      /\ row \in [Runs -> RowType] /\ handles \subseteq Runs \X Nat
      /\ call \in [Callers -> CallType]
      /\ \A r \in Runs : RowKept(r)
  BY RowsKept DEF Inv, Types, StoreTypeOK, RequestTypeOK
<1>u. CASE handles' = handles
  BY <1>t, <1>u DEF HandlesAgree, RowKept
<1>a. ASSUME NEW r \in Runs, NEW x \in Nat \ {NoExec}, row'[r].exec = x,
             handles' = handles \union {<<r, x>>}
      PROVE  HandlesAgree'
  BY <1>t, <1>a DEF HandlesAgree, RowKept
<1>1. ASSUME NEW c \in Callers, Find(c)
      PROVE  HandlesAgree'
  <2>1. call[c].run \in Runs
    BY <1>1, <1>t DEF Inv, Sound, CallSound, Find, At
  <2>2. row[call[c].run].exec \in Nat
    BY <1>t, <2>1 DEF RowType
  <2> QED
    BY <1>1, <1>a, <1>u, <2>1, <2>2 DEF Find, Answer
<1>2. ASSUME NEW c \in Callers, Persist(c)
      PROVE  HandlesAgree'
  <2> DEFINE r == call[c].run
             x == call[c].exec
  <2>1. r \in Runs /\ x \in Nat \ {NoExec}
    BY <1>2, <1>t DEF Inv, Sound, CallSound, Persist, At, CallType
  <2>2. CASE handles' = handles
    BY <1>u, <2>2
  <2>3. CASE handles' # handles
    <3>1. /\ handles' = handles \union {<<r, x>>}
          /\ row' = (IF FirstStart(r, x) THEN [row EXCEPT ![r].exec = x] ELSE row)
          /\ Agrees(r, x)
      BY <1>2, <2>3 DEF Persist, Answer
    <3>2. row[r] \in RowType
      BY <1>t, <2>1
    <3> HIDE DEF r, x
    <3>3. row'[r].exec = x
      BY <1>t, <2>1, <3>1, <3>2 DEF FirstStart, Agrees, RowType
    <3> QED
      BY <1>a, <2>1, <3>1, <3>3
  <2> QED
    BY <2>2, <2>3
<1>3. ASSUME NEW c \in Callers, Report(c)
      PROVE  HandlesAgree'
  <2> DEFINE r == call[c].run
             x == call[c].exec
  <2>1. r \in Runs /\ x \in Nat \ {NoExec} /\ row[r].exec = x
    BY <1>3, <1>t DEF Inv, Sound, CallSound, Report, At, CallType
  <2>2. row'[r].exec = x
    BY <1>t, <2>1 DEF RowKept
  <2>3. handles' = handles \union {<<r, x>>}
    BY <1>3 DEF Report, Answer
  <2> QED
    BY <1>a, <2>1, <2>2, <2>3
<1> QED
  BY <1>1, <1>2, <1>3, <1>u
     DEF Next, vars, Caller, Prepare, Start, Describe, Executions, Execution, BodyEnds, FinalizeRun,
         Close, LifecycleFails, Terminate, execVars, Reconciler, List, Reconcile, PassEnds, scanVars,
         WriteReport, Query, Restart

(* A call that a step does not advance stays sound: what it knows of its   *)
(* run is not taken back.                                                  *)
LEMMA CallKept ==
  ASSUME Inv, [Next]_vars, NEW c \in Callers, call'[c] = call[c]
  PROVE  CallSound(c)'
<1>1. Grows /\ \A r \in Runs : RowKept(r)
  BY Growth, RowsKept
<1>2. call[c] \in CallType /\ CallSound(c)
  BY DEF Inv, Sound, Types, RequestTypeOK
<1>3. execs \in [Runs -> Seq(ExecType)] /\ execs' \in [Runs -> Seq(ExecType)]
  BY Growth DEF Inv, Types, StoreTypeOK
<1> SUFFICES ASSUME call[c].step # "idle"
             PROVE  CallSound(c)'
  BY DEF CallSound
<1>4. call[c].run \in Runs
  BY <1>2 DEF CallSound
<1>5. Latest(call[c].run) \in Nat /\ Latest(call[c].run)' \in Nat
      /\ Latest(call[c].run) <= Latest(call[c].run)'
  BY <1>1, <1>3, <1>4 DEF Grows, Latest
<1>6. call[c].status # Open => Evidence(call[c].run, call[c].status)'
  BY <1>1, <1>2, <1>4 DEF Grows, CallSound, CallType
<1>7. call[c].step = "report" => row'[call[c].run].exec = call[c].exec
  BY <1>1, <1>2, <1>4 DEF RowKept, CallSound
<1> QED
  BY <1>2, <1>4, <1>5, <1>6, <1>7, SMTT(60) DEF CallSound, CallType, Latest, Evidence

(* A step of one caller leaves the others sound, and itself if what it     *)
(* goes on with is.                                                        *)
LEMMA CallsKept == Inv /\ [Next]_vars => \A c \in Callers : CallSound(c)'
<1> SUFFICES ASSUME Inv, [Next]_vars, NEW b \in Callers
             PROVE  CallSound(b)'
  OBVIOUS
<1>t. /\ call \in [Callers -> CallType] /\ CallSound(b)
      /\ execs \in [Runs -> Seq(ExecType)]
      /\ row \in [Runs -> RowType]
      /\ Grows /\ \A r \in Runs : RowKept(r) /\ Latest(r) \in Nat
  BY Growth, RowsKept DEF Inv, Types, StoreTypeOK, RequestTypeOK, Sound, Latest
<1>g. \A r \in Runs : Latest(r)' \in Nat /\ Latest(r) <= Latest(r)'
  BY Growth DEF Grows, Latest
<1>s. \A r \in Runs : r = call[b].run /\ call[b].step # "idle" =>
        \A s : s = call[b].status /\ s # Open => Evidence(r, s)'
  BY <1>t DEF Grows, CallSound, CallType
<1>u. CASE call'[b] = call[b]
  BY <1>u, CallKept
<1>i. CASE call'[b] = Idle
  BY <1>i DEF CallSound, Idle
<1>1. ASSUME NEW r \in Runs, Prepare(b, r)
      PROVE  CallSound(b)'
  <2>1. call'[b] = [Idle EXCEPT !.step = "find", !.run = r]
    BY <1>1, <1>t DEF Prepare
  <2> QED
    BY <1>1, <1>g, <2>1 DEF CallSound, Idle, NoExec, Latest
<1>2. ASSUME Find(b)
      PROVE  CallSound(b)'
  <2>1. call[b].run \in Runs
    BY <1>2, <1>t DEF CallSound, Find, At
  <2>2. CASE row[call[b].run].exec # NoExec
    BY <1>2, <1>t, <1>i, <2>2 DEF Find, Answer, Leave
  <2>3. CASE row[call[b].run].exec = NoExec
    <3>1. \/ call[b].step = "find" /\ call'[b] = [call[b] EXCEPT !.step = "start"]
          \/ call[b].step = "refind" /\ call'[b] = [call[b] EXCEPT !.step = "describe"]
      BY <1>2, <1>t, <2>3 DEF Find, Goto, At
    <3>2. PICK r \in Runs : r = call[b].run
      BY <2>1
    <3>3. PICK s : s = call[b].status
      OBVIOUS
    <3>4. s # Open => Evidence(r, s)'
      BY <1>s, <3>1, <3>2, <3>3
    <3>5. /\ call'[b].run = r /\ call'[b].status = s /\ call'[b].exec = call[b].exec
          /\ call'[b].step \in {"start", "describe"}
      BY <1>t, <3>1, <3>2, <3>3 DEF CallType
    <3>6. /\ call[b].exec <= Latest(r)' /\ call[b].exec \in Nat
          /\ call'[b].step = "describe" => Latest(r)' > 0
      <4>1. call[b].exec <= Latest(r) /\ (call[b].step = "refind" => Latest(r) > 0)
        BY <1>t, <3>1, <3>2 DEF CallSound
      <4>2. call'[b].step = "describe" => call[b].step = "refind"
        BY <1>t, <3>1 DEF CallType
      <4> QED
        BY <1>t, <1>g, <4>1, <4>2 DEF CallType
    <3> QED
      BY <3>4, <3>5, <3>6 DEF CallSound, Latest, Evidence
  <2> QED
    BY <2>2, <2>3
<1>3. ASSUME Start(b)
      PROVE  CallSound(b)'
  <2>r. PICK r \in Runs : r = call[b].run
    BY <1>3, <1>t DEF CallSound, Start, At
  <2>s. PICK s : s = call[b].status
    OBVIOUS
  <2>1. call[b] \in CallType /\ call[b].run = r /\ call[b].status = s /\ call[b].step = "start"
    BY <1>3, <1>t, <2>r, <2>s DEF Start, At
  <2>2. s # Open => Evidence(r, s)'
    BY <1>s, <2>1
  <2>3. CASE execs[r] # <<>> /\ IsOpen(execs[r][Latest(r)])
    <3>1. call'[b] = [call[b] EXCEPT !.step = "refind"]
      BY <1>3, <1>t, <2>1, <2>3 DEF Start, Goto
    <3>2. Latest(r) > 0
      BY <1>t, <2>1, <2>3 DEF Latest
    <3> QED
      BY <1>t, <1>g, <2>1, <2>2, <3>1, <3>2 DEF CallSound, CallType, Latest, Evidence
  <2>4. CASE ~ (execs[r] # <<>> /\ IsOpen(execs[r][Latest(r)]))
    <3>1. execs' = [execs EXCEPT ![r] = Append(execs[r], NewExec)]
      BY <1>3, <2>1, <2>4 DEF Start
    <3>2. NewExec \in ExecType
      BY DEF NewExec, ExecType, Statuses
    <3>3. Latest(r)' = Latest(r) + 1
      <4>1. execs'[r] = Append(execs[r], NewExec) /\ execs[r] \in Seq(ExecType)
        BY <1>t, <3>1
      <4> HIDE DEF NewExec
      <4> QED
        BY <3>2, <4>1 DEF Latest
    <3>4. CASE call' = [call EXCEPT ![b].step = "persist", ![b].exec = Latest(r) + 1]
      <4>1. call'[b] = [call[b] EXCEPT !.step = "persist", !.exec = Latest(r) + 1]
        BY <1>t, <3>4
      <4> QED
        BY <1>t, <2>1, <2>2, <3>3, <4>1 DEF CallSound, CallType, Latest, Evidence, NoExec
    <3> QED
      BY <1>3, <1>t, <1>i, <2>1, <2>4, <3>4 DEF Start, Leave
  <2> QED
    BY <2>3, <2>4
<1>4. ASSUME Describe(b)
      PROVE  CallSound(b)'
  <2>r. PICK r \in Runs : r = call[b].run
    BY <1>4, <1>t DEF CallSound, Describe, At
  <2>s. PICK s : s = execs[r][Latest(r)].closed
    OBVIOUS
  <2>1. call[b] \in CallType /\ call[b].run = r /\ Latest(r) > 0 /\ UNCHANGED execs
    BY <1>4, <1>t, <2>r DEF CallSound, Describe, At
  <2>2. call'[b] = [call[b] EXCEPT !.step = "recover", !.exec = Latest(r), !.status = s]
    BY <1>4, <1>t, <2>1, <2>s DEF Describe
  <2>3. Latest(r) \in DOMAIN execs[r]
    BY <1>t, <2>1 DEF Latest
  <2>4. Evidence(r, s)'
    BY <2>1, <2>3, <2>s DEF Evidence
  <2> QED
    BY <1>t, <2>1, <2>2, <2>4 DEF CallSound, CallType, Latest, Evidence, NoExec
<1>5. ASSUME Persist(b)
      PROVE  CallSound(b)'
  <2>r. PICK r \in Runs : r = call[b].run
    BY <1>5, <1>t DEF CallSound, Persist, At
  <2>x. PICK x : x = call[b].exec
    OBVIOUS
  <2>s. PICK s : s = call[b].status
    OBVIOUS
  <2>1. /\ call[b] \in CallType /\ call[b].run = r /\ call[b].exec = x /\ call[b].status = s
        /\ x # NoExec /\ x <= Latest(r) /\ x \in Nat
        /\ call[b].step \in {"persist", "recover"}
    BY <1>5, <1>t, <2>r, <2>x, <2>s DEF CallSound, CallType, Persist, At
  <2>2. CASE call' = [call EXCEPT ![b].step = "report"] /\ Agrees(r, x)
             /\ row' = (IF FirstStart(r, x) THEN [row EXCEPT ![r].exec = x] ELSE row)
    <3>1. call'[b] = [call[b] EXCEPT !.step = "report"]
      BY <1>t, <2>2
    <3>2. row'[r].exec = x
      <4>1. row[r] \in RowType
        BY <1>t, <2>1
      <4> QED
        BY <1>t, <2>1, <2>2, <4>1 DEF Agrees, FirstStart, RowType
    <3>3. s # Open => Evidence(r, s)'
      BY <1>s, <2>1
    <3> QED
      BY <1>t, <1>g, <2>1, <3>1, <3>2, <3>3 DEF CallSound, CallType, Latest, Evidence
  <2> QED
    BY <1>5, <1>t, <1>i, <2>1, <2>2 DEF Persist, Goto, Leave, Answer
<1>6. ASSUME Report(b)
      PROVE  CallSound(b)'
  BY <1>6, <1>t, <1>i DEF Report, Answer, Leave
<1>7. CASE Restart
  BY <1>7, <1>i DEF Restart
<1>8. ASSUME NEW c \in Callers, c # b,
             (\E r \in Runs : Prepare(c, r)) \/ Find(c) \/ Start(c) \/ Describe(c) \/ Persist(c) \/ Report(c)
      PROVE  CallSound(b)'
  <2>1. call'[b] = call[b]
    BY <1>8, <1>t DEF Prepare, Find, Start, Describe, Persist, Report, Goto, Leave, Answer
  <2> QED
    BY <1>u, <2>1
<1>9. CASE Executions \/ Reconciler \/ (\E p \in reports : WriteReport(p)) \/ (\E r \in Runs : Query(r))
  <2>1. call' = call
    BY <1>9 DEF Executions, Execution, BodyEnds, FinalizeRun, Close, LifecycleFails, Terminate, execVars,
       Reconciler, List, Reconcile, PassEnds, scanVars, WriteReport, Query
  <2> QED
    BY <1>u, <2>1
<1>10. CASE UNCHANGED vars
  BY <1>10, <1>u DEF vars
<1> QED
  BY <1>1, <1>2, <1>3, <1>4, <1>5, <1>6, <1>7, <1>8, <1>9, <1>10 DEF Next, Caller

(* What was read, listed or described stays so.                            *)
LEMMA SoundKept == Inv /\ [Next]_vars => Sound'
<1> SUFFICES ASSUME Inv, [Next]_vars
             PROVE  Sound'
  OBVIOUS
<1>t. /\ Types /\ Types' /\ Sound /\ Grows
      /\ \A r \in Runs : RowKept(r) /\ Latest(r) \in Nat /\ Latest(r)' \in Nat /\ Latest(r) <= Latest(r)'
  BY Growth, RowsKept, TypesKept DEF Inv, Types, StoreTypeOK, Latest, Grows
<1>1. \A r \in Runs : row'[r].exec <= Latest(r)'
  <2> TAKE r \in Runs
  <2>1. row[r].exec \in Nat /\ row'[r].exec \in Nat /\ row[r].exec <= Latest(r)
    BY <1>t DEF Types, StoreTypeOK, RowType, Sound
  <2> QED
    BY <1>t, <2>1 DEF RowKept
<1>2. \A k \in scan'.todo : k.exec <= Latest(k.run)'
  <2>1. ASSUME NEW k \in scan.todo
        PROVE  k.exec <= Latest(k.run)'
    BY <1>t, <2>1 DEF Types, ScanTypeOK, Sound
  <2>2. CASE scan'.todo \subseteq scan.todo
    BY <2>1, <2>2
  <2>3. CASE List
    <3>1. \A k \in scan'.todo : k.run \in Runs /\ k.exec = row[k.run].exec
      <4> DEFINE behind == Page(Unfinalized(cursor))
                 found  == IF behind = {} THEN Page(Unfinalized(0)) ELSE behind
      <4>1. found \subseteq Runs
        BY DEF Page, Unfinalized
      <4>2. scan'.todo = {[run |-> r, exec |-> row[r].exec] : r \in found}
        BY <2>3 DEF List
      <4> HIDE DEF found
      <4> QED
        BY <4>1, <4>2
    <3>2. UNCHANGED row
      BY <2>3 DEF List, scanVars
    <3> QED
      BY <1>1, <3>1, <3>2
  <2>4. CASE \E k \in scan.todo : Reconcile(k)
    BY <1>t, <2>2, <2>4 DEF Reconcile, Types, ScanTypeOK
  <2>5. CASE \E p \in reports : WriteReport(p)
    BY <1>t, <2>2, <2>5 DEF WriteReport, Types, ScanTypeOK
  <2>6. CASE PassEnds \/ Restart
    BY <2>2, <2>6 DEF PassEnds, Restart, NoScan
  <2>7. CASE Caller \/ Executions \/ (\E r \in Runs : Query(r)) \/ UNCHANGED vars
    <3>1. UNCHANGED scan
      BY <2>7 DEF vars, Caller, Prepare, Find, Start, Describe, Persist, Report, callVars, Executions,
         Execution, BodyEnds, FinalizeRun, Close, LifecycleFails, Terminate, execVars, Query
    <3> QED
      BY <2>2, <3>1
  <2> QED
    BY <2>3, <2>4, <2>5, <2>6, <2>7 DEF Next, Reconciler
<1>3. \A p \in reports' : p.status # Open => Evidence(p.run, p.status)'
  <2>1. ASSUME NEW p \in reports, p.status # Open
        PROVE  Evidence(p.run, p.status)'
    BY <1>t, <2>1 DEF Types, RequestTypeOK, Sound, Grows
  <2>2. CASE reports' \subseteq reports
    BY <2>1, <2>2
  <2>a. ASSUME NEW r \in Runs, NEW x \in 0 .. Latest(r), NEW y \in {"request", "reconciler"},
               reports' = reports \union {[run |-> r, status |-> Described(r, x), by |-> y]}
        PROVE  \A p \in reports' : p.status # Open => Evidence(p.run, p.status)'
    <3>1. Described(r, x) \in Statuses /\ (Described(r, x) # Open => Evidence(r, Described(r, x)))
      BY <1>t, DescribedStatus
    <3> QED
      BY <1>t, <2>1, <2>a, <3>1 DEF Grows
  <2>3. ASSUME NEW k \in scan.todo, Reconcile(k)
        PROVE  \A p \in reports' : p.status # Open => Evidence(p.run, p.status)'
    <3>1. k.run \in Runs /\ k.exec \in 0 .. Latest(k.run)
      BY <1>t DEF Types, ScanTypeOK, Sound
    <3> QED
      BY <2>2, <2>3, <2>a, <3>1 DEF Reconcile
  <2>4. ASSUME NEW r \in Runs, Query(r)
        PROVE  \A p \in reports' : p.status # Open => Evidence(p.run, p.status)'
    <3>1. row[r].exec \in 0 .. Latest(r) /\ NoExec \in 0 .. Latest(r)
      BY <1>t DEF Types, StoreTypeOK, RowType, Sound, NoExec
    <3> QED
      BY <2>4, <2>a, <3>1 DEF Query
  <2>5. CASE List \/ PassEnds \/ Restart \/ Caller \/ Executions
             \/ (\E p \in reports : WriteReport(p)) \/ UNCHANGED vars
    <3>1. reports' \subseteq reports
      BY <2>5 DEF List, PassEnds, Restart, vars, Caller, Prepare, Find, Start, Describe, Persist, Report,
         callVars, Executions, Execution, BodyEnds, FinalizeRun, Close, LifecycleFails, Terminate, execVars,
         WriteReport
    <3> QED
      BY <2>2, <3>1
  <2> QED
    BY <2>3, <2>4, <2>5 DEF Next, Reconciler
<1> QED
  BY <1>1, <1>2, <1>3, CallsKept DEF Sound

(***************************************************************************)
(* The theorems.                                                           *)
(***************************************************************************)

LEMMA Inductive == Inv /\ [Next]_vars => Inv'
<1> SUFFICES ASSUME Inv, [Next]_vars
             PROVE  Inv'
  OBVIOUS
<1>1. Types' /\ EventAgrees' /\ Sound' /\ HandlesAgree' /\ Grows
  BY TypesKept, SoundKept, HandlesKept, Growth
<1>2. \A r \in Runs : RowKept(r)
  BY RowsKept
<1>3. CountedOnce'
  BY <1>2 DEF RowKept, CountedOnce
<1>4. Truthful'
  <2> SUFFICES ASSUME NEW r \in Runs, NEW s, s = row'[r].status, s # Open
               PROVE  Evidence(r, s)'
    BY DEF Truthful, Evidence
  <2>1. s = row'[r].status
    OBVIOUS
  <2>2. s \in Statuses \ {Open}
    BY <1>1, <2>1 DEF Types, StoreTypeOK, RowType
  <2>3. Evidence(r, s)
    BY <1>2, <2>1 DEF RowKept, Inv, Truthful
  <2>4. Evidence(r, s)'
    BY <1>1, <2>2, <2>3 DEF Grows
  <2> QED
    BY <2>4
<1> QED
  BY <1>1, <1>3, <1>4 DEF Inv

LEMMA Invariant == Spec => []Inv
<1> QED
  BY Initially, Inductive, PTL DEF Spec

(* Rows, executions, requests and reports keep their types, and the        *)
(* cursor of the reconciler is always a run it has listed, or none.        *)
THEOREM TypeCorrect == Spec => []TypeOK
<1>1. Init => CountersTyped
  BY MaxFaultsAssumption DEF Init, NoScan, CountersTyped
<1>2. Inv /\ CountersTyped => TypeOK
  BY DEF Inv, Types, CountersTyped, TypeOK
<1> QED
  BY <1>1, <1>2, Invariant, CountersKept, PTL DEF Spec

(* Callers with the same idempotency key are given the same execution, the *)
(* one in the row, although Temporal may have started more than one.       *)
THEOREM HandlesAgreeCorrect == Spec => []HandlesAgree
<1>1. Inv => HandlesAgree
  BY DEF Inv
<1> QED
  BY <1>1, Invariant, PTL

(* However often a start is retried or recovered, the run is counted once. *)
THEOREM CountedOnceCorrect == Spec => []CountedOnce
<1>1. Inv => CountedOnce
  BY DEF Inv
<1> QED
  BY <1>1, Invariant, PTL

(* No terminal status is made up.                                          *)
THEOREM TruthfulCorrect == Spec => []Truthful
<1>1. Inv => Truthful
  BY DEF Inv
<1> QED
  BY <1>1, Invariant, PTL

(* The first terminal status of a run stays, and its event says the same.  *)
THEOREM TerminalIsFinalCorrect == Spec => TerminalIsFinal
<1>1. Inv /\ [Next]_vars =>
        [\A r \in Runs :
           row[r].status # Open =>
             row'[r].status = row[r].status /\ event'[r] = row[r].status]_vars
  <2> SUFFICES ASSUME Inv, [Next]_vars, NEW r \in Runs, row[r].status # Open
               PROVE  row'[r].status = row[r].status /\ event'[r] = row[r].status
    OBVIOUS
  <2>1. row'[r].status = row[r].status
    BY RowsKept DEF RowKept
  <2>2. EventAgrees'
    BY TypesKept
  <2> QED
    BY <2>1, <2>2 DEF EventAgrees
<1> QED
  BY <1>1, Invariant, PTL DEF Spec, TerminalIsFinal
==============================================================================
