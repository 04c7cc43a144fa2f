-------------------------- MODULE RunLifecycleProps --------------------------
(***************************************************************************)
(* What a run promises to those who start it, wait for it and count it.    *)
(***************************************************************************)
EXTENDS RunLifecycle

Steps    == {"idle", "find", "start", "refind", "describe", "persist", "recover", "report"}
Statuses == Terminal \union {Open}

RowType  == [exists : BOOLEAN, exec : Nat, status : Statuses]
ExecType ==
  {x \in [state   : {"running", "finalizing", "closing", "closed"},
          verdict : Verdicts \union {Open},
          closed  : Statuses] :
     /\ x.state = "running" => x.verdict = Open
     /\ x.state # "closed" => x.closed = Open}
CallType == [step : Steps, run : Runs \union {0}, exec : Nat, status : Statuses]

StoreTypeOK ==
  /\ row \in [Runs -> RowType]
  /\ runCount \in [Runs -> Nat]
  /\ event \in [Runs -> Statuses]
  /\ execs \in [Runs -> Seq(ExecType)]

RequestTypeOK ==
  /\ call \in [Callers -> CallType]
  /\ handles \subseteq Runs \X Nat
  /\ reports \subseteq [run : Runs, status : Statuses, by : {"request", "reconciler"}]

ScanTypeOK ==
  /\ DOMAIN scan = {"active", "todo", "next"}
  /\ scan.todo \subseteq [run : Runs, exec : Nat]

(* The rows, calls, executions and reports have their types, and the       *)
(* reconciler's cursor is a run.                                           *)
TypeOK ==
  /\ StoreTypeOK
  /\ RequestTypeOK
  /\ ScanTypeOK
  /\ {scan.next, cursor} \subseteq Runs \union {0}
  /\ faults \in 0 .. MaxFaults

(* An execution of run r came to status s.                                 *)
Evidence(r, s) == \E i \in DOMAIN execs[r] : s \in {execs[r][i].verdict, execs[r][i].closed}

(* Every caller that was given a handle on a run was given the same        *)
(* execution, the one in the row: markStarted refuses a second one.        *)
HandlesAgree ==
  \A h \in handles : h[2] # NoExec /\ row[h[1]].exec = h[2]

(* A run is added to the run count of its workflow once, with the first    *)
(* execution that is persisted, however many callers and recoveries        *)
(* persist it.                                                             *)
CountedOnce ==
  \A r \in Runs : runCount[r] = IF row[r].exec = NoExec THEN 0 ELSE 1

(* A terminal status is one that an execution of the run came to, as the   *)
(* verdict of its body or as the way Temporal closed it: no report is made *)
(* up, by a query, the reconciler, or for a run that was never started.    *)
Truthful ==
  \A r \in Runs :
    row[r].status # Open => Evidence(r, row[r].status)

(* Every execution that a row, a call or a candidate names is one that     *)
(* Temporal started, and every status on its way to a row is one that an   *)
(* execution came to.                                                      *)
CallSound(c) ==
  LET k == call[c]
  IN  k.step # "idle" =>
        /\ k.run \in Runs
        /\ k.exec <= Latest(k.run)
        /\ k.step \in {"refind", "describe"} => Latest(k.run) > 0
        /\ k.step \in {"persist", "recover", "report"} => k.exec # NoExec
        /\ k.step = "report" => row[k.run].exec = k.exec
        /\ k.status # Open => Evidence(k.run, k.status)

Sound ==
  /\ \A r \in Runs : row[r].exec <= Latest(r)
  /\ \A c \in Callers : CallSound(c)
  /\ \A k \in scan.todo : k.exec <= Latest(k.run)
  /\ \A p \in reports : p.status # Open => Evidence(p.run, p.status)

(* The one terminal event of a run says what its row says.                 *)
EventAgrees == \A r \in Runs : event[r] = row[r].status

(* Once a run is terminal its status never changes and its one event says  *)
(* the same, whichever of the worker, the reconciler and the queries come  *)
(* late with another status (finalizeTerminalRun).                         *)
TerminalIsFinal ==
  [][\A r \in Runs :
       row[r].status # Open =>
         row'[r].status = row[r].status /\ event'[r] = row[r].status]_vars

(* A run that was started in Temporal ends: its status becomes terminal    *)
(* even when the worker's report, a crash or a pass of the reconciler is   *)
(* lost, and behind any run that is never started.                         *)
EventuallyFinalized ==
  \A r \in Runs : execs[r] # <<>> ~> row[r].status # Open

(* A retry under the same idempotency key cannot create another run: the   *)
(* id of a run has at most one execution                                   *)
(* (docs/superpowers/specs/2026-08-02-operator-durable-turns-design.md).   *)
AtMostOneExecution ==
  \A r \in Runs : Latest(r) <= 1
==============================================================================
