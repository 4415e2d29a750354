------------------------ MODULE WorkflowEngineProofs ------------------------
(* Theorems about WorkflowEngine, for any jobs, requests and bounds.       *)
EXTENDS WorkflowEngine, FiniteSetTheorems, TLAPS

(* An activation the environment continues is one of a known row.          *)
LEMMA ActivationJob ==
  ASSUME NEW act \in Activation
  PROVE  act[1] \in Job /\ act[2] \in Nat \ {0} /\ act = <<act[1], act[2]>>
BY DEF Activation

(* Changing the status of a row, or its finished_at, keeps the table typed. *)
LEMMA RowUpdate ==
  ASSUME row \in [Job -> RowType], NEW w \in Job, NEW s \in Status
  PROVE  /\ [row EXCEPT ![w].status = s] \in [Job -> RowType]
         /\ [row EXCEPT ![w].status = s, ![w].finished = TRUE] \in [Job -> RowType]
BY DEF RowType

LEMMA InitTyped == Init => TypeOK
<1> SUFFICES ASSUME Init PROVE TypeOK
  OBVIOUS
<1>1. (CHOOSE r \in Request : TRUE) \in Request
  BY RequestAssumption
<1>2. row \in [Job -> RowType]
  BY <1>1 DEF Init, RowType, Status
<1> QED
  BY <1>2 DEF Init, TypeOK

LEMMA TypedStep == TypeOK /\ [Next]_vars => TypeOK'
<1> SUFFICES ASSUME TypeOK, [Next]_vars PROVE TypeOK'
  OBVIOUS
<1> USE DEF TypeOK
<1>1. CASE Poll
  BY <1>1 DEF Poll, DueBatch, table, process
<1>2. ASSUME NEW w \in Job, Execute(w) PROVE TypeOK'
  <2>1. CASE Skip(w)
    BY <2>1 DEF Skip, Turn, process
  <2>2. CASE FailUnrun(w)
    <3>1. row' \in [Job -> RowType]
      BY <2>2, RowUpdate DEF FailUnrun, FinishRow, Status, Terminal
    <3> QED
      BY <2>2, <3>1 DEF FailUnrun, Turn, process
  <2>3. ASSUME NEW gap \in BOOLEAN, Claim(w, gap) PROVE TypeOK'
    <3>1. <<w, row[w].attempts + 1>> \in Activation
      BY DEF RowType, Activation
    <3>2. row' \in [Job -> RowType]
      BY <2>3 DEF Claim, RowType, Status, Holding
    <3> QED
      BY <2>3, <3>1, <3>2 DEF Claim, Turn
  <2> QED
    BY <1>2, <2>1, <2>2, <2>3 DEF Execute
<1>3. ASSUME NEW w \in Job, Operate(w) PROVE TypeOK'
  <2>1. ASSUME NEW r \in Request, NEW runNow \in BOOLEAN, Create(w, r, runNow)
        PROVE  TypeOK'
    <3>1. Cardinality({v \in Job : Exists(v)}) \in Nat
      BY JobAssumption, FS_Subset, FS_CardinalityType
    <3>2. r.later \in BOOLEAN
      BY RequestAssumption DEF RequestType
    <3>3. row' \in [Job -> RowType]
      BY <2>1, <3>1, <3>2 DEF Create, RowType, Status, Runnable
    <3> QED
      BY <2>1, <3>3, Zenon DEF Create, process
  <2>2. CASE Approve(w)
    <3>1. row' \in [Job -> RowType]
      BY <2>2 DEF Approve, RowType, Status, Runnable
    <3>2. granted' \in [Job -> Nat]
      BY <2>2 DEF Approve
    <3> QED
      BY <2>2, <3>1, <3>2, Zenon DEF Approve, process
  <2>3. CASE Cancel(w)
    <3>1. row' \in [Job -> RowType]
      BY <2>3, RowUpdate DEF Cancel, FinishRow, Status, Terminal
    <3> QED
      BY <2>3, <3>1 DEF Cancel, process
  <2> QED
    BY <1>3, <2>1, <2>2, <2>3 DEF Operate
<1>4. ASSUME NEW w \in Job, BecomeDue(w) \/ PassDeadline(w) PROVE TypeOK'
  <2>1. row' \in [Job -> RowType]
    <3>1. CASE BecomeDue(w)
      BY <3>1 DEF BecomeDue, RowType
    <3>2. CASE PassDeadline(w)
      BY <3>2 DEF PassDeadline, RowType
    <3> QED
      BY <1>4, <3>1, <3>2
  <2> QED
    BY <1>4, <2>1 DEF BecomeDue, PassDeadline, process
<1>5. ASSUME NEW act \in live \union compensating, Continue(act) PROVE TypeOK'
  <2> DEFINE w == act[1]
  <2>0. act \in Activation /\ w \in Job
    BY ActivationJob
  <2>1. CASE PauseAndLinger(act)
    BY <2>0, <2>1, RowUpdate DEF PauseAndLinger, SetStatus, Status, Holding, process
  <2>2. CASE PauseAndReturn(act)
    BY <2>0, <2>2, RowUpdate DEF PauseAndReturn, SetStatus, LeaveRace, Status, Holding
  <2>3. CASE Complete(act)
    <3>1. row' \in [Job -> RowType]
      <4>1. CASE FinishRow(w, "completed")
        BY <2>0, <4>1, RowUpdate DEF FinishRow, Status, Terminal
      <4> QED
        BY <2>3, <4>1 DEF Complete
    <3> QED
      BY <2>0, <2>3, <3>1 DEF Complete, LeaveRace
  <2>4. ASSUME FailAttempt(act), live' \subseteq live PROVE TypeOK'
    <3>1. row' \in [Job -> RowType]
      <4>1. CASE FinishRow(w, "failed")
        BY <2>0, <4>1, RowUpdate DEF FinishRow, Status, Terminal
      <4>2. CASE row' = [row EXCEPT ![w].status = "retrying", ![w].wait = TRUE]
        BY <2>0, <4>2 DEF RowType, Status, Runnable
      <4> QED
        BY <2>4, <4>1, <4>2 DEF FailAttempt
    <3> QED
      BY <2>0, <2>4, <3>1 DEF FailAttempt, LeaveRace
  <2>5. CASE Reject(act) \/ Timeout(act)
    BY <2>4, <2>5 DEF Reject, Timeout
  <2>6. CASE LateSettle(act)
    BY <2>6 DEF LateSettle, table
  <2>7. ASSUME NEW outcome \in {"rolled-back", "failed"}, Compensate(act, outcome)
        PROVE  TypeOK'
    BY <2>0, <2>7, RowUpdate DEF Compensate, FinishRow, Status, Terminal
  <2> QED
    BY <1>5, <2>1, <2>2, <2>3, <2>5, <2>6, <2>7 DEF Continue
<1>6. ASSUME NEW types \in SUBSET Type, Restart(types) PROVE TypeOK'
  <2>1. row' \in [Job -> RowType]
    BY <1>6 DEF Restart, RestartWith, RowType, Status, Runnable
  <2>2. recovered' \in [Job -> Nat]
    <3>1. \A w \in Job : recovered[w] \in Nat
      OBVIOUS
    <3>2. recovered' = [w \in Job |-> IF row[w].status = "running"
                                     THEN recovered[w] + 1 ELSE recovered[w]]
      BY <1>6 DEF Restart, RestartWith
    <3> QED
      BY <3>1, <3>2
  <2>3. batch' \subseteq Job
    BY <1>6, Zenon DEF Restart, RestartWith, DueBatch
  <2>4. restarts' \in Nat
    <3>1. restarts' = restarts + 1
      BY <1>6, Zenon DEF Restart, RestartWith
    <3> QED
      BY <3>1
  <2> QED
    BY <1>6, <2>1, <2>2, <2>3, <2>4, Zenon DEF Restart, RestartWith
<1>7. CASE UNCHANGED vars
  BY <1>7 DEF vars
<1> QED
  BY <1>1, <1>2, <1>3, <1>4, <1>5, <1>6, <1>7 DEF Next

(* Every reachable state is well typed.                                    *)
THEOREM TypeCorrect == Spec => []TypeOK
<1>1. Init => TypeOK
  BY InitTyped
<1>2. TypeOK /\ [Next]_vars => TypeOK'
  BY TypedStep
<1> QED
  BY <1>1, <1>2, PTL DEF Spec
-----------------------------------------------------------------------------
LEMMA NoOrphanStep == TypeOK /\ NoOrphanRun /\ [Next]_vars => NoOrphanRun'
<1> SUFFICES ASSUME TypeOK, NoOrphanRun, [Next]_vars,
                    NEW v \in Job, row'[v].status = "running"
             PROVE  <<v, row'[v].attempts>> \in InFlight'
  BY DEF NoOrphanRun
<1>0. row \in [Job -> RowType]
  BY DEF TypeOK
(* A step that leaves the row and the executions of v alone keeps v safe.  *)
<1>a. ASSUME row'[v] = row[v], InFlight \subseteq InFlight'
      PROVE  <<v, row'[v].attempts>> \in InFlight'
  BY <1>a DEF NoOrphanRun
<1>1. CASE Poll
  BY <1>1, <1>a DEF Poll, table, process, InFlight
<1>2. ASSUME NEW w \in Job, Execute(w) PROVE <<v, row'[v].attempts>> \in InFlight'
  <2>1. CASE Skip(w)
    BY <2>1, <1>a DEF Skip, process, InFlight
  <2>2. CASE FailUnrun(w)
    <3>1. v # w
      BY <2>2, <1>0 DEF FailUnrun, FinishRow, RowType
    <3> QED
      BY <2>2, <3>1, <1>0, <1>a DEF FailUnrun, FinishRow, process, InFlight
  <2>3. ASSUME NEW gap \in BOOLEAN, Claim(w, gap)
        PROVE  <<v, row'[v].attempts>> \in InFlight'
    <3>1. CASE v = w
      <4>1. row'[v].attempts = row[w].attempts + 1
        BY <2>3, <3>1, <1>0 DEF Claim, RowType
      <4> QED
        BY <2>3, <3>1, <4>1 DEF Claim, InFlight
    <3>2. CASE v # w
      BY <2>3, <3>2, <1>0, <1>a DEF Claim, InFlight
    <3> QED
      BY <3>1, <3>2
  <2> QED
    BY <1>2, <2>1, <2>2, <2>3 DEF Execute
<1>3. ASSUME NEW w \in Job, Operate(w) PROVE <<v, row'[v].attempts>> \in InFlight'
  <2>1. row'[w].status # "running" \/ row' = row
    <3>1. ASSUME NEW r \in Request, NEW runNow \in BOOLEAN, Create(w, r, runNow)
          PROVE  row'[w].status # "running"
      BY <3>1, <1>0 DEF Create
    <3>2. ASSUME Approve(w) PROVE row'[w].status # "running" \/ row' = row
      BY <3>2, <1>0 DEF Approve, RowType
    <3>3. ASSUME Cancel(w) PROVE row'[w].status # "running"
      BY <3>3, <1>0 DEF Cancel, FinishRow, RowType
    <3> QED
      BY <1>3, <3>1, <3>2, <3>3 DEF Operate
  <2>2. w # v => row'[v] = row[v]
    BY <1>3, <1>0 DEF Operate, Create, Approve, Cancel, FinishRow
  <2>3. InFlight' = InFlight
    BY <1>3 DEF Operate, Create, Approve, Cancel, process, InFlight
  <2> QED
    BY <2>1, <2>2, <2>3, <1>a
<1>4. ASSUME NEW w \in Job, BecomeDue(w) \/ PassDeadline(w)
      PROVE  <<v, row'[v].attempts>> \in InFlight'
  <2>1. row'[v].status = row[v].status /\ row'[v].attempts = row[v].attempts
    BY <1>4, <1>0 DEF BecomeDue, PassDeadline, RowType
  <2>2. InFlight' = InFlight
    BY <1>4 DEF BecomeDue, PassDeadline, process, InFlight
  <2> QED
    BY <2>1, <2>2 DEF NoOrphanRun
<1>5. ASSUME NEW act \in live \union compensating, Continue(act)
      PROVE  <<v, row'[v].attempts>> \in InFlight'
  <2> DEFINE w == act[1]
  <2>0. w \in Job /\ act = <<w, act[2]>>
    BY ActivationJob DEF TypeOK
  (* act leaves the executions only by a step that takes w out of running. *)
  <2>1. InFlight \ {act} \subseteq InFlight'
    BY <1>5, Zenon DEF Continue, PauseAndLinger, PauseAndReturn, Complete, Reject,
           Timeout, FailAttempt, LateSettle, Compensate, LeaveRace, process, InFlight
  <2>2. w # v => row'[v] = row[v]
    BY <1>5, <1>0, <2>0 DEF Continue, PauseAndLinger, PauseAndReturn, Complete, Reject,
           Timeout, FailAttempt, LateSettle, Compensate, SetStatus, FinishRow, table
  <2>3. w # v => act # <<v, row[v].attempts>>
    BY <2>0
  <2>4. CASE w = v
    <3>1. row'[w].status # "running" \/ (row'[w] = row[w] /\ InFlight \subseteq InFlight')
      <4>1. CASE PauseAndLinger(act) \/ PauseAndReturn(act)
        BY <4>1, <1>0, <2>0 DEF PauseAndLinger, PauseAndReturn, SetStatus, RowType
      <4>2. CASE Complete(act)
        BY <4>2, <1>0, <2>0 DEF Complete, FinishRow, RowType
      <4>3. CASE FailAttempt(act)
        BY <4>3, <1>0, <2>0 DEF FailAttempt, LeaveRace, FinishRow, RowType, InFlight
      <4>4. CASE LateSettle(act)
        BY <4>4 DEF LateSettle, table, InFlight
      <4>5. ASSUME NEW outcome \in {"rolled-back", "failed"}, Compensate(act, outcome)
            PROVE  row'[w].status # "running"
        BY <4>5, <1>0, <2>0 DEF Compensate, FinishRow, RowType
      <4> QED
        BY <1>5, <4>1, <4>2, <4>3, <4>4, <4>5 DEF Continue, Reject, Timeout
    <3> QED
      BY <2>4, <3>1, <1>a
  <2> QED
    BY <2>1, <2>2, <2>3, <2>4 DEF NoOrphanRun
<1>6. ASSUME NEW types \in SUBSET Type, Restart(types)
      PROVE  <<v, row'[v].attempts>> \in InFlight'
  BY <1>6, <1>0 DEF Restart, RestartWith, RowType
<1>7. CASE UNCHANGED vars
  BY <1>7, <1>a DEF vars, InFlight
<1> QED
  BY <1>1, <1>2, <1>3, <1>4, <1>5, <1>6, <1>7 DEF Next

(* No row is ever stranded in running: whatever interleaving of pauses,    *)
(* timeouts, cancellations and crashes, for any handlers, a running row is *)
(* being executed, by the attempt it counts.                               *)
THEOREM NoRunIsOrphaned == Spec => []NoOrphanRun
<1>1. Init => NoOrphanRun
  BY DEF Init, NoOrphanRun
<1>2. TypeOK /\ NoOrphanRun /\ [Next]_vars => NoOrphanRun'
  BY NoOrphanStep
<1> QED
  BY <1>1, <1>2, TypeCorrect, PTL DEF Spec
-----------------------------------------------------------------------------
(* The attempt budget is inductive once it says that a row still in the    *)
(* queue has an attempt left.                                              *)
Budget(w) == row[w].req.max + granted[w] + recovered[w]

BudgetInv ==
  /\ AttemptBudget
  /\ \A w \in Job : row[w].status \in Runnable => row[w].attempts < Budget(w)

LEMMA BudgetStep == TypeOK /\ BudgetInv /\ [Next]_vars => BudgetInv'
<1> DEFINE Safe(w) == /\ row[w].attempts <= Budget(w)
                      /\ row[w].status \in Runnable => row[w].attempts < Budget(w)
<1> SUFFICES ASSUME TypeOK, BudgetInv, [Next]_vars, NEW v \in Job
             PROVE  Safe(v)'
  BY DEF BudgetInv, AttemptBudget, Budget
<1>0. /\ row \in [Job -> RowType] /\ granted \in [Job -> Nat] /\ recovered \in [Job -> Nat]
      /\ row[v].attempts \in Nat /\ row[v].req.max \in Nat
      /\ granted[v] \in Nat /\ recovered[v] \in Nat
  <2>1. row[v].req \in Request /\ row[v].attempts \in Nat
    BY DEF TypeOK, RowType
  <2>2. row[v].req.max \in Nat
    BY <2>1, RequestAssumption DEF RequestType
  <2> QED
    BY <2>1, <2>2 DEF TypeOK
<1>s. Safe(v)
  BY DEF BudgetInv, AttemptBudget, Budget
(* A step that keeps attempts, request and history of v, and queues it     *)
(* only with an attempt left, keeps its budget.                            *)
<1>a. ASSUME row'[v].attempts = row[v].attempts, row'[v].req = row[v].req,
             granted'[v] = granted[v], recovered'[v] = recovered[v],
             row'[v].status \in Runnable =>
               row[v].status \in Runnable \/ row[v].attempts < row[v].req.max
      PROVE  Safe(v)'
  BY <1>a, <1>0, <1>s DEF Budget
<1>1. CASE Poll
  BY <1>1, <1>a DEF Poll, table
<1>2. ASSUME NEW w \in Job, Execute(w) PROVE Safe(v)'
  <2>1. CASE Skip(w)
    BY <2>1, <1>a DEF Skip, Turn
  <2>2. CASE FailUnrun(w)
    BY <2>2, <1>0, <1>a DEF FailUnrun, Turn, FinishRow, RowType, Runnable
  <2>3. ASSUME NEW gap \in BOOLEAN, Claim(w, gap) PROVE Safe(v)'
    <3>1. CASE v = w
      <4>1. /\ row'[v].attempts = row[v].attempts + 1
            /\ row'[v].status = "running" /\ row'[v].req = row[v].req
            /\ granted' = granted /\ recovered' = recovered
        BY <2>3, <3>1, <1>0 DEF Claim, Turn, RowType
      <4>2. row[v].status \in Runnable
        BY <2>3, <3>1 DEF Claim, Claimable, IsDue
      <4> QED
        BY <4>1, <4>2, <1>0, <1>s DEF Budget, Runnable
    <3>2. CASE v # w
      BY <2>3, <3>2, <1>0, <1>a DEF Claim, Turn
    <3> QED
      BY <3>1, <3>2
  <2> QED
    BY <1>2, <2>1, <2>2, <2>3 DEF Execute
<1>3. ASSUME NEW w \in Job, Operate(w) PROVE Safe(v)'
  <2>1. ASSUME NEW r \in Request, NEW runNow \in BOOLEAN, Create(w, r, runNow)
        PROVE  Safe(v)'
    <3>1. CASE v = w
      <4>1. /\ row'[v].attempts = 0 /\ row'[v].req = r
            /\ granted' = granted /\ recovered' = recovered
        BY <2>1, <3>1, <1>0 DEF Create
      <4>2. r.max \in Nat \ {0}
        BY RequestAssumption DEF RequestType
      <4> QED
        BY <4>1, <4>2, <1>0 DEF Budget
    <3>2. CASE v # w
      BY <2>1, <3>2, <1>0, <1>a DEF Create
    <3> QED
      BY <3>1, <3>2
  <2>2. CASE Approve(w)
    <3>1. CASE row[w].status = "waiting-approval" /\ v = w
      <4>1. /\ row'[v].attempts = row[v].attempts /\ row'[v].req = row[v].req
            /\ granted'[v] = granted[v] + 1 /\ recovered' = recovered
        BY <2>2, <3>1, <1>0 DEF Approve, RowType, Claimable, IsDue, Runnable
      <4> QED
        BY <4>1, <1>0, <1>s DEF Budget
    <3>2. CASE row[w].status # "waiting-approval" \/ v # w
      BY <2>2, <3>2, <1>0, <1>a DEF Approve
    <3> QED
      BY <3>1, <3>2
  <2>3. CASE Cancel(w)
    BY <2>3, <1>0, <1>a DEF Cancel, FinishRow, RowType, Runnable
  <2> QED
    BY <1>3, <2>1, <2>2, <2>3 DEF Operate
<1>4. ASSUME NEW w \in Job, BecomeDue(w) \/ PassDeadline(w) PROVE Safe(v)'
  BY <1>4, <1>0, <1>a DEF BecomeDue, PassDeadline, RowType
<1>5. ASSUME NEW act \in live \union compensating, Continue(act) PROVE Safe(v)'
  <2> DEFINE w == act[1]
  <2>0. w \in Job
    BY ActivationJob DEF TypeOK
  <2>1. granted' = granted /\ recovered' = recovered
    BY <1>5 DEF Continue, PauseAndLinger, PauseAndReturn, Complete, Reject, Timeout,
                FailAttempt, LateSettle, Compensate, table
  <2>2. CASE PauseAndLinger(act) \/ PauseAndReturn(act)
    BY <2>0, <2>1, <2>2, <1>0, <1>a
       DEF PauseAndLinger, PauseAndReturn, SetStatus, RowType, Runnable
  <2>3. CASE Complete(act)
    BY <2>0, <2>1, <2>3, <1>0, <1>a DEF Complete, FinishRow, RowType, Runnable
  <2>4. CASE FailAttempt(act)
    BY <2>0, <2>1, <2>4, <1>0, <1>a DEF FailAttempt, FinishRow, RowType, Runnable
  <2>5. CASE LateSettle(act)
    BY <2>5, <1>a DEF LateSettle, table
  <2>6. ASSUME NEW outcome \in {"rolled-back", "failed"}, Compensate(act, outcome)
        PROVE  Safe(v)'
    BY <2>0, <2>1, <2>6, <1>0, <1>a DEF Compensate, FinishRow, RowType, Runnable
  <2> QED
    BY <1>5, <2>2, <2>3, <2>4, <2>5, <2>6 DEF Continue, Reject, Timeout
<1>6. ASSUME NEW types \in SUBSET Type, Restart(types) PROVE Safe(v)'
  <2>1. CASE row[v].status = "running"
    <3>1. /\ row'[v].attempts = row[v].attempts /\ row'[v].req = row[v].req
          /\ recovered'[v] = recovered[v] + 1 /\ granted' = granted
      BY <1>6, <2>1, <1>0 DEF Restart, RestartWith, RowType
    <3> QED
      BY <3>1, <1>0, <1>s DEF Budget
  <2>2. CASE row[v].status # "running"
    BY <1>6, <2>2, <1>0, <1>a DEF Restart, RestartWith
  <2> QED
    BY <2>1, <2>2
<1>7. CASE UNCHANGED vars
  BY <1>7, <1>a DEF vars
<1> QED
  BY <1>1, <1>2, <1>3, <1>4, <1>5, <1>6, <1>7 DEF Next

(* Retries respect max_attempts for ever: only the approvals and restart   *)
(* recoveries of a row, one attempt each, can take it past that limit.     *)
THEOREM AttemptsAreBudgeted == Spec => []AttemptBudget
<1>1. Init => BudgetInv
  <2> SUFFICES ASSUME Init, NEW w \in Job
               PROVE  row[w].attempts <= Budget(w) /\ row[w].status \notin Runnable
    BY DEF BudgetInv, AttemptBudget, Budget
  <2>1. (CHOOSE r \in Request : TRUE) \in Request
    BY RequestAssumption
  <2>2. row[w].req.max \in Nat
    BY <2>1, RequestAssumption DEF Init, RequestType
  <2> QED
    BY <2>2 DEF Init, Budget, Runnable
<1>2. TypeOK /\ BudgetInv /\ [Next]_vars => BudgetInv'
  BY BudgetStep
<1>3. BudgetInv => AttemptBudget
  BY DEF BudgetInv
<1> QED
  BY <1>1, <1>2, <1>3, TypeCorrect, PTL DEF Spec
-----------------------------------------------------------------------------
(* What a row tells about the executions of it that are in flight: there   *)
(* is none unless the row is running or was cancelled meanwhile, it is the *)
(* attempt the row counts, and no handler that may pause has lost its race *)
(* (only an armed overall timeout makes a handler lose it).                *)
FlightInv ==
  /\ \A act \in InFlight : /\ row[act[1]].status \in {"running", "cancelled"}
                           /\ row[act[1]].attempts = act[2]
  /\ racing \intersect compensating = {}
  /\ armed \subseteq racing
  /\ \A act \in live : /\ Exists(act[1])
                       /\ row[act[1]].req.type \in Pausing => act \in racing
  /\ \A act \in armed : row[act[1]].req.timed
  /\ \A w \in Job : row[w].deadline # "none" => row[w].req.timed

LEMMA FlightStep ==
  ASSUME WellBehaved, TypeOK, FlightInv, [Next]_vars
  PROVE  FlightInv'
<1>0. /\ row \in [Job -> RowType]
      /\ \A act \in InFlight \union live \union armed : act[1] \in Job /\ act = <<act[1], act[2]>>
  BY ActivationJob DEF TypeOK, InFlight
<1>t. \A w \in Job : row[w].req \in Request
  BY DEF TypeOK, RowType
<1>1. CASE Poll
  BY <1>1 DEF Poll, table, process, FlightInv, InFlight, Exists
<1>2. ASSUME NEW w \in Job, Execute(w) PROVE FlightInv'
  <2>1. CASE Skip(w)
    BY <2>1 DEF Skip, process, FlightInv, InFlight, Exists
  <2>2. ASSUME Claimable(w) PROVE \A act \in InFlight : act[1] # w
    BY <2>2 DEF Claimable, IsDue, Runnable, FlightInv
  <2>3. CASE FailUnrun(w)
    <3>1. /\ \A v \in Job : /\ row'[v].req = row[v].req /\ row'[v].deadline = row[v].deadline
                            /\ v # w => row'[v] = row[v]
          /\ row'[w].status = "failed"
      BY <2>3, <1>0 DEF FailUnrun, FinishRow, RowType
    <3>2. /\ live' = live /\ racing' = racing /\ armed' = armed
          /\ compensating' = compensating /\ InFlight' = InFlight
      BY <2>3 DEF FailUnrun, process, InFlight
    <3>3. Claimable(w)
      BY <2>3 DEF FailUnrun
    <3> QED
      BY <3>1, <3>2, <3>3, <2>2, <1>0 DEF FlightInv, Exists
  <2>4. ASSUME NEW gap \in BOOLEAN, Claim(w, gap) PROVE FlightInv'
    <3> DEFINE new == <<w, row[w].attempts + 1>>
    <3>1. /\ \A v \in Job : row'[v].req = row[v].req /\ (v # w => row'[v] = row[v])
          /\ row'[w].status = "running" /\ row'[w].attempts = row[w].attempts + 1
          /\ row'[w].deadline # "none" => row[w].deadline # "none"
      BY <2>4, <1>0 DEF Claim, RowType
    <3>2. /\ live' = live \union {new} /\ racing' = racing \union {new}
          /\ armed' \subseteq armed \union {new}
          /\ new \in armed' => new \in armed \/ row[w].deadline = "ahead"
          /\ compensating' = compensating
      BY <2>4 DEF Claim
    <3>3. Claimable(w)
      BY <2>4 DEF Claim
    <3>4. new \notin InFlight /\ new \notin armed
      BY <3>3, <2>2 DEF FlightInv, InFlight
    <3>5. \A act \in InFlight' : /\ row'[act[1]].status \in {"running", "cancelled"}
                                 /\ row'[act[1]].attempts = act[2]
      BY <3>1, <3>2, <3>3, <2>2, <1>0 DEF FlightInv, InFlight
    <3>6. \A act \in live' : /\ row'[act[1]].status # "absent"
                             /\ row'[act[1]].req.type \in Pausing => act \in racing'
      BY <3>1, <3>2, <1>0 DEF FlightInv, Exists
    <3>7. \A act \in armed' : row'[act[1]].req.timed
      BY <3>1, <3>2, <3>4, <1>0 DEF FlightInv
    <3> QED
      BY <3>1, <3>2, <3>4, <3>5, <3>6, <3>7 DEF FlightInv, InFlight, Exists
  <2> QED
    BY <1>2, <2>1, <2>3, <2>4 DEF Execute
<1>3. ASSUME NEW w \in Job, Operate(w) PROVE FlightInv'
  <2>0. live' = live /\ racing' = racing /\ armed' = armed /\ compensating' = compensating
        /\ InFlight' = InFlight
    BY <1>3 DEF Operate, Create, Approve, Cancel, process, InFlight
  <2>1. ASSUME NEW r \in Request, NEW runNow \in BOOLEAN, Create(w, r, runNow)
        PROVE  FlightInv'
    <3>1. /\ \A v \in Job : v # w => row'[v] = row[v]
          /\ row'[w].status # "absent"
          /\ row'[w].deadline # "none" => row'[w].req.timed
      BY <2>1, <1>0 DEF Create
    <3>2. \A act \in InFlight \union live \union armed : act[1] # w
      BY <2>1 DEF Create, Exists, FlightInv, InFlight
    <3> QED
      BY <2>0, <3>1, <3>2, <1>0 DEF FlightInv, Exists
  <2>2. CASE Approve(w)
    <3>1. row' = row \/ (row[w].status = "waiting-approval" /\ row'[w].status = "pending")
      BY <2>2, <1>0 DEF Approve, RowType
    <3>2. \A v \in Job : /\ row'[v].req = row[v].req /\ row'[v].deadline = row[v].deadline
                         /\ v # w => row'[v] = row[v]
      BY <2>2, <1>0 DEF Approve, RowType
    <3> QED
      BY <2>0, <3>1, <3>2, <1>0 DEF FlightInv, Exists
  <2>3. CASE Cancel(w)
    <3>1. /\ row'[w].status = "cancelled" /\ row'[w].attempts = row[w].attempts
          /\ \A v \in Job : /\ row'[v].req = row[v].req /\ row'[v].deadline = row[v].deadline
                            /\ v # w => row'[v] = row[v]
      BY <2>3, <1>0 DEF Cancel, FinishRow, RowType
    <3> QED
      BY <2>0, <3>1, <1>0 DEF FlightInv, Exists
  <2> QED
    BY <1>3, <2>1, <2>2, <2>3 DEF Operate
<1>4. ASSUME NEW w \in Job, BecomeDue(w) \/ PassDeadline(w) PROVE FlightInv'
  <2>1. \A v \in Job : /\ row'[v].status = row[v].status /\ row'[v].attempts = row[v].attempts
                       /\ row'[v].req = row[v].req
                       /\ row'[v].deadline # "none" => row[v].deadline # "none"
    BY <1>4, <1>0 DEF BecomeDue, PassDeadline, RowType
  <2>2. live' = live /\ racing' = racing /\ armed' = armed /\ compensating' = compensating
        /\ InFlight' = InFlight
    BY <1>4 DEF BecomeDue, PassDeadline, process, InFlight
  <2> QED
    BY <2>1, <2>2, <1>0 DEF FlightInv, Exists
<1>5. ASSUME NEW act \in live \union compensating, Continue(act) PROVE FlightInv'
  <2> DEFINE w == act[1]
  <2>0. w \in Job
    BY <1>0 DEF InFlight
  (* The rows but for the status of w; no step leaves w without a row.     *)
  <2>1. /\ \A v \in Job : /\ row'[v].req = row[v].req /\ row'[v].deadline = row[v].deadline
                          /\ row'[v].attempts = row[v].attempts
                          /\ v # w => row'[v] = row[v]
        /\ row'[w].status # "absent"
    <3>1. row[w].status # "absent"
      BY DEF FlightInv, Exists, InFlight
    <3>2. CASE row' = row
      BY <3>1, <3>2
    <3>3. CASE row' # row
      BY <1>5, <3>3, <2>0, <1>0
         DEF Continue, PauseAndLinger, PauseAndReturn, Complete, Reject, Timeout, FailAttempt,
             LateSettle, Compensate, SetStatus, FinishRow, table, RowType
    <3> QED
      BY <3>2, <3>3
  (* After a step that ends the execution act, w has none left.            *)
  <2>2. ASSUME act \in InFlight PROVE \A x \in InFlight \ {act} : x[1] # w
    BY <2>2, <1>0 DEF FlightInv
  <2>3. ASSUME act \in InFlight, act \notin InFlight', InFlight' \subseteq InFlight,
               racing' \subseteq racing, compensating' \subseteq compensating,
               armed' = armed \ {act}, live' \subseteq live, act \in live' => act \in armed,
               racing \ {act} \subseteq racing'
        PROVE  FlightInv'
    <3>1. \A x \in InFlight' : /\ row'[x[1]].status \in {"running", "cancelled"}
                               /\ row'[x[1]].attempts = x[2]
      BY <2>1, <2>2, <2>3, <1>0 DEF FlightInv
    <3>2. racing' \intersect compensating' = {} /\ armed' \subseteq racing'
      BY <2>3 DEF FlightInv, InFlight
    <3>3. \A x \in live' : row'[x[1]].status # "absent"
      BY <2>1, <2>3, <1>0 DEF FlightInv, Exists
    <3>4. \A x \in live' : row'[x[1]].req.type \in Pausing => x \in racing'
      BY <2>1, <2>3, <1>0, <1>t DEF FlightInv, WellBehaved
    <3> QED
      BY <3>1, <3>2, <3>3, <3>4, <2>1, <2>3, <1>0 DEF FlightInv, Exists
  <2>4. CASE PauseAndLinger(act)
    BY <2>4 DEF PauseAndLinger, WellBehaved
  <2>5. CASE PauseAndReturn(act)
    <3>1. act \in racing /\ act \notin compensating
      BY <2>5 DEF PauseAndReturn, FlightInv
    <3> QED
      BY <2>5, <2>3, <3>1 DEF PauseAndReturn, LeaveRace, InFlight, FlightInv
  <2>6. CASE Complete(act)
    BY <2>6, <2>3 DEF Complete, LeaveRace, InFlight, FlightInv
  <2>7. ASSUME FailAttempt(act), act \in racing, live' \subseteq live,
               act \in live' => act \in armed, live \ {act} \subseteq live'
        PROVE  FlightInv'
    <3>1. CASE compensating' = compensating
      BY <2>7, <3>1, <2>3 DEF FailAttempt, LeaveRace, InFlight, FlightInv
    <3>2. CASE compensating' = compensating \union {act} /\ row' = row
      <4>1. InFlight' = InFlight /\ racing' = racing \ {act} /\ armed' = armed \ {act}
        BY <2>7, <3>2 DEF FailAttempt, LeaveRace, InFlight
      <4>2. \A x \in live' : row[x[1]].req.type \in Pausing => x \in racing'
        BY <2>7, <4>1, <1>0, <1>t DEF FlightInv, WellBehaved
      <4> QED
        BY <2>7, <3>2, <4>1, <4>2 DEF FlightInv, Exists
    <3> QED
      BY <2>7, <3>1, <3>2 DEF FailAttempt
  <2>8. CASE Reject(act)
    BY <2>8, <2>7 DEF Reject
  <2>9. CASE Timeout(act)
    BY <2>9, <2>7 DEF Timeout, FlightInv
  <2>10. CASE LateSettle(act)
    BY <2>10 DEF LateSettle, table, FlightInv, InFlight, Exists
  <2>11. ASSUME NEW outcome \in {"rolled-back", "failed"}, Compensate(act, outcome)
         PROVE  FlightInv'
    <3>1. act \notin racing /\ act \notin armed
      BY <2>11 DEF Compensate, FlightInv
    <3>2. act \in live' => act \in live
      BY <2>11 DEF Compensate
    <3>3. /\ live' = live /\ racing' = racing /\ armed' = armed
          /\ compensating' = compensating \ {act} /\ act \in compensating
      BY <2>11 DEF Compensate
    <3>4. \A x \in InFlight' : /\ row'[x[1]].status \in {"running", "cancelled"}
                               /\ row'[x[1]].attempts = x[2]
      BY <3>1, <3>3, <2>1, <2>2, <1>0 DEF FlightInv, InFlight
    <3> QED
      BY <3>3, <3>4, <2>1, <1>0 DEF FlightInv, Exists
  <2> QED
    BY <1>5, <2>4, <2>5, <2>6, <2>8, <2>9, <2>10, <2>11 DEF Continue
<1>6. ASSUME NEW types \in SUBSET Type, Restart(types) PROVE FlightInv'
  <2>1. \A v \in Job : row'[v].req = row[v].req /\ row'[v].deadline = row[v].deadline
    BY <1>6, <1>0 DEF Restart, RestartWith, RowType
  <2>2. live' = {} /\ armed' = {} /\ racing' = {} /\ compensating' = {} /\ InFlight' = {}
    BY <1>6 DEF Restart, RestartWith, InFlight
  <2> QED
    BY <2>1, <2>2 DEF FlightInv
<1>7. CASE UNCHANGED vars
  BY <1>7 DEF vars, FlightInv, InFlight, Exists
<1> QED
  BY <1>1, <1>2, <1>3, <1>4, <1>5, <1>6, <1>7 DEF Next

LEMMA FlightCorrect == WellBehaved => (Spec => []FlightInv)
<1> SUFFICES ASSUME WellBehaved PROVE Spec => []FlightInv
  OBVIOUS
<1>1. Init => FlightInv
  BY DEF Init, FlightInv, InFlight
<1>2. TypeOK /\ FlightInv /\ [Next]_vars => FlightInv'
  BY FlightStep
<1> QED
  BY <1>1, <1>2, TypeCorrect, PTL DEF Spec

(* At most one execution of a row at a time, compensation included, if     *)
(* handlers are as the engine expects them.                                *)
THEOREM OneExecutionAtATime == Spec => []SingleFlight
<1>1. TypeOK /\ FlightInv => SingleFlight
  <2> SUFFICES ASSUME TypeOK, FlightInv, NEW x \in InFlight, NEW y \in InFlight, x[1] = y[1]
               PROVE  x = y
    BY DEF SingleFlight
  <2>1. x = <<x[1], x[2]>> /\ y = <<y[1], y[2]>>
    BY ActivationJob DEF TypeOK, InFlight
  <2>2. x[2] = y[2]
    BY DEF FlightInv
  <2> QED
    BY <2>1, <2>2
<1>2. CASE WellBehaved
  <2>1. Spec => []FlightInv
    BY <1>2, FlightCorrect
  <2> QED
    BY <1>1, <2>1, TypeCorrect, PTL
<1>3. CASE ~WellBehaved
  <2>1. SingleFlight
    BY <1>3 DEF SingleFlight
  <2> QED
    BY <2>1, PTL
<1> QED
  BY <1>2, <1>3
-----------------------------------------------------------------------------
(* Exclusion by lock_key, with what keeps it: a cancelled row is finished. *)
LockInv ==
  /\ LockExclusive
  /\ \A w \in Job : row[w].status = "cancelled" => row[w].finished

(* No step but the creation of the row changes its request or clears its   *)
(* finished_at, and a row newly holding its lock was just claimed, or was  *)
(* cancelled before.                                                       *)
LEMMA RowStep ==
  ASSUME WellBehaved, TypeOK, FlightInv, [Next]_vars, NEW w \in Job
  PROVE  \/ row'[w] = row[w]
         \/ row[w].status = "absent" /\ row'[w].status \in Runnable
         \/ /\ row'[w].req = row[w].req
            /\ row[w].finished => row'[w].finished
            /\ row'[w].status = "cancelled" => row'[w].finished \/ row[w].status = "cancelled"
            /\ row'[w].status \in Holding =>
                 \/ row[w].status \in Holding
                 \/ row[w].status = "cancelled"
                 \/ LockAvailable(w) /\ \A v \in Job \ {w} : row'[v] = row[v]
            /\ row'[w].status # row[w].status /\ row[w].status \in Terminal =>
                 row[w].status = "cancelled" /\ \E act \in InFlight : act[1] = w
<1> DEFINE Kept == \/ row'[w] = row[w]
                   \/ row[w].status = "absent" /\ row'[w].status \in Runnable
                   \/ /\ row'[w].req = row[w].req
                      /\ row[w].finished => row'[w].finished
                      /\ row'[w].status = "cancelled" =>
                           row'[w].finished \/ row[w].status = "cancelled"
                      /\ row'[w].status \in Holding =>
                           \/ row[w].status \in Holding
                           \/ row[w].status = "cancelled"
                           \/ LockAvailable(w) /\ \A v \in Job \ {w} : row'[v] = row[v]
                      /\ row'[w].status # row[w].status /\ row[w].status \in Terminal =>
                           row[w].status = "cancelled" /\ \E act \in InFlight : act[1] = w
<1> SUFFICES Kept
  OBVIOUS
<1>0. row \in [Job -> RowType]
  BY DEF TypeOK
<1>1. CASE Poll
  BY <1>1 DEF Poll, table
<1>2. ASSUME NEW v \in Job, Execute(v) PROVE Kept
  <2>1. CASE v # w \/ Skip(v)
    BY <1>2, <2>1, <1>0 DEF Execute, Skip, FailUnrun, Claim, FinishRow
  <2>2. CASE v = w /\ FailUnrun(v)
    BY <2>2, <1>0 DEF FailUnrun, FinishRow, Claimable, IsDue, RowType, Runnable, Holding, Terminal
  <2>3. ASSUME v = w, NEW gap \in BOOLEAN, Claim(v, gap) PROVE Kept
    BY <2>3, <1>0 DEF Claim, Claimable, IsDue, RowType, Runnable, Terminal
  <2> QED
    BY <1>2, <2>1, <2>2, <2>3 DEF Execute
<1>3. ASSUME NEW v \in Job, Operate(v) PROVE Kept
  <2>1. CASE v # w
    BY <1>3, <2>1, <1>0 DEF Operate, Create, Approve, Cancel, FinishRow
  <2>2. ASSUME v = w, NEW r \in Request, NEW runNow \in BOOLEAN, Create(v, r, runNow) PROVE Kept
    BY <2>2, <1>0 DEF Create, Exists, Runnable
  <2>3. CASE v = w /\ Approve(v)
    BY <2>3, <1>0 DEF Approve, RowType, Holding, Terminal
  <2>4. CASE v = w /\ Cancel(v)
    BY <2>4, <1>0 DEF Cancel, FinishRow, RowType, Holding, Terminal
  <2> QED
    BY <1>3, <2>1, <2>2, <2>3, <2>4 DEF Operate
<1>4. ASSUME NEW v \in Job, BecomeDue(v) \/ PassDeadline(v) PROVE Kept
  BY <1>4, <1>0 DEF BecomeDue, PassDeadline, RowType
<1>5. ASSUME NEW act \in live \union compensating, Continue(act) PROVE Kept
  <2>0. act[1] \in Job
    BY ActivationJob DEF TypeOK
  <2>1. CASE act[1] # w \/ row' = row
    BY <1>5, <2>1, <2>0, <1>0 DEF Continue, PauseAndLinger, PauseAndReturn, Complete, Reject,
       Timeout, FailAttempt, LateSettle, Compensate, SetStatus, FinishRow, table
  <2>2. CASE act[1] = w /\ row' # row
    (* Only an execution in flight changes the row.                        *)
    <3>1. act \in InFlight
      BY <1>5, <2>2 DEF Continue, PauseAndLinger, PauseAndReturn, Complete, Reject, Timeout,
         LateSettle, Compensate, table, FlightInv, WellBehaved, InFlight
    <3>2. row[w].status \in {"running", "cancelled"}
      BY <3>1, <2>2 DEF FlightInv
    <3>3. /\ row'[w].req = row[w].req
          /\ row[w].finished => row'[w].finished
          /\ row'[w].status # "cancelled"
      BY <1>5, <2>2, <2>0, <1>0 DEF Continue, PauseAndLinger, PauseAndReturn, Complete, Reject,
         Timeout, FailAttempt, LateSettle, Compensate, SetStatus, FinishRow, table, RowType
    <3> QED
      BY <3>1, <3>2, <3>3, <2>2 DEF Holding, Terminal
  <2> QED
    BY <2>1, <2>2
<1>6. ASSUME NEW types \in SUBSET Type, Restart(types) PROVE Kept
  BY <1>6, <1>0 DEF Restart, RestartWith, RowType, Holding, Terminal
<1>7. CASE UNCHANGED vars
  BY <1>7 DEF vars
<1> QED
  BY <1>1, <1>2, <1>3, <1>4, <1>5, <1>6, <1>7 DEF Next

LEMMA LockStep ==
  ASSUME WellBehaved, TypeOK, FlightInv, LockInv, [Next]_vars
  PROVE  LockInv'
<1>1. ASSUME NEW w \in Job PROVE row'[w].status = "cancelled" => row'[w].finished
  BY <1>1, RowStep DEF LockInv, Runnable
<1>2. ASSUME NEW v \in Job, NEW w \in Job, v # w,
             row'[v].status \in Holding, row'[w].status \in Holding,
             row'[v].req.lock = row'[w].req.lock, row'[v].req.lock # NoLock,
             ~row'[v].finished, ~row'[w].finished
      PROVE  FALSE
  (* Neither row is new or was cancelled: each held the lock, or took it.  *)
  <2>1. ASSUME NEW x \in {v, w}
        PROVE  /\ row'[x].req = row[x].req /\ ~row[x].finished
               /\ \/ row[x].status \in Holding
                  \/ LockAvailable(x) /\ \A y \in Job \ {x} : row'[y] = row[y]
    BY <1>2, <2>1, RowStep DEF LockInv, Holding, Runnable
  <2>2. CASE row[v].status \in Holding /\ row[w].status \in Holding
    BY <1>2, <2>1, <2>2 DEF LockInv, LockExclusive
  <2>3. ASSUME NEW x \in {v, w}, NEW y \in {v, w}, x # y, row[x].status \notin Holding
        PROVE  FALSE
    BY <1>2, <2>1, <2>3 DEF LockAvailable
  <2> QED
    BY <1>2, <2>2, <2>3
<1> QED
  BY <1>1, <1>2 DEF LockInv, LockExclusive

(* A lock_key is held by one row, but for a cancelled row whose handler    *)
(* paused for approval without noticing.                                   *)
THEOREM LocksAreExclusive == Spec => []LockExclusive
<1>1. CASE WellBehaved
  <2>1. Spec => []FlightInv
    BY <1>1, FlightCorrect
  <2>2. Init => LockInv
    BY DEF Init, LockInv, LockExclusive, Holding
  <2>3. TypeOK /\ FlightInv /\ LockInv /\ [Next]_vars => LockInv'
    BY <1>1, LockStep
  <2>4. LockInv => LockExclusive
    BY DEF LockInv
  <2> QED
    BY <2>1, <2>2, <2>3, <2>4, TypeCorrect, PTL DEF Spec
<1>2. CASE ~WellBehaved
  <2>1. LockExclusive
    BY <1>2 DEF LockExclusive
  <2> QED
    BY <2>1, PTL
<1> QED
  BY <1>1, <1>2

(* An outcome, once stored, is final, but for a row cancelled while one of *)
(* its executions was in flight.                                           *)
THEOREM OutcomesAreFinal == Spec => OutcomeFinal
<1> DEFINE Final == WellBehaved =>
                      \A w \in Job :
                        row[w].status \in Terminal /\ row'[w].status # row[w].status
                        => /\ row[w].status = "cancelled"
                           /\ \E act \in InFlight : act[1] = w
<1>1. CASE WellBehaved
  <2>1. Spec => []FlightInv
    BY <1>1, FlightCorrect
  <2>2. TypeOK /\ FlightInv /\ [Next]_vars => [Final]_vars
    BY <1>1, RowStep DEF Terminal
  <2> QED
    BY <2>1, <2>2, TypeCorrect, PTL DEF Spec, OutcomeFinal
<1>2. CASE ~WellBehaved
  <2>1. [Next]_vars => [Final]_vars
    BY <1>2
  <2> QED
    BY <2>1, PTL DEF Spec, OutcomeFinal
<1> QED
  BY <1>1, <1>2
-----------------------------------------------------------------------------
(* The refinement of JobLifecycle: what its variables are here, job by     *)
(* job, and which changes of them a step makes.                            *)
InExecution(w) == \E act \in InFlight : act[1] = w

PhaseOf(w) == IF InExecution(w) THEN "claimed"
              ELSE IF row[w].status \in Runnable THEN "queued"
              ELSE IF row[w].status = "waiting-approval" THEN "paused"
              ELSE IF row[w].status = "absent" THEN "absent"
              ELSE "done"

Still(w) == PhaseOf(w)' = PhaseOf(w) /\ row'[w].attempts = row[w].attempts

Moved(w) ==
  /\ row'[w].attempts = row[w].attempts
  /\ \/ PhaseOf(w) = "absent" /\ PhaseOf(w)' = "queued"
     \/ PhaseOf(w) = "claimed" /\ PhaseOf(w)' \in {"queued", "paused", "done"}
     \/ PhaseOf(w) = "paused" /\ PhaseOf(w)' \in {"queued", "done"}
     \/ PhaseOf(w) = "queued" /\ PhaseOf(w)' = "done"

Started(w) ==
  /\ row'[w].attempts = row[w].attempts + 1
  /\ PhaseOf(w) = "queued" /\ PhaseOf(w)' = "claimed"

OneMoves(w) == (Still(w) \/ Moved(w) \/ Started(w)) /\ \A q \in Job \ {w} : Still(q)

Lost(w) ==
  /\ row'[w].attempts = row[w].attempts
  /\ IF PhaseOf(w) = "claimed" THEN PhaseOf(w)' \in {"queued", "done"}
                               ELSE PhaseOf(w)' = PhaseOf(w)

(* A job whose status, attempts and executions stay is still where it was. *)
LEMMA StillThere ==
  ASSUME NEW w \in Job, row'[w].status = row[w].status, row'[w].attempts = row[w].attempts,
         InExecution(w)' <=> InExecution(w)
  PROVE  Still(w)
  BY DEF Still, PhaseOf

(* A row in execution is running or cancelled.                             *)
LEMMA ExecutionStatus ==
  ASSUME FlightInv, NEW w \in Job, InExecution(w)
  PROVE  row[w].status \in {"running", "cancelled"}
  BY DEF FlightInv, InExecution

(* A step of an execution moves its job only, and by a step of the life    *)
(* cycle.                                                                  *)
LEMMA ContinueMoves ==
  ASSUME WellBehaved, TypeOK, FlightInv, NEW act \in live \union compensating, Continue(act)
  PROVE  OneMoves(act[1])
<1> DEFINE w == act[1]
<1>0. w \in Job /\ row \in [Job -> RowType]
  BY ActivationJob DEF TypeOK
(* What an execution that ends leaves, by the status it ends with.         *)
<1>2. ASSUME NEW status \in Runnable \union {"waiting-approval"} \union Terminal,
             act \in InFlight, InFlight' = InFlight \ {act},
             row'[w].status = status, row'[w].attempts = row[w].attempts,
             \A q \in Job \ {w} : row'[q] = row[q]
      PROVE  OneMoves(w)
  <2>1. InExecution(w) /\ PhaseOf(w) = "claimed"
    BY <1>2 DEF InExecution, PhaseOf
  <2>2. ~InExecution(w)'
    <3>1. ASSUME NEW x \in InFlight \ {act}, x[1] = w PROVE FALSE
      <4>1. x = <<x[1], x[2]>> /\ act = <<act[1], act[2]>>
        BY <1>2, ActivationJob DEF TypeOK, InFlight
      <4>2. x[2] = act[2]
        BY <1>2, <3>1 DEF FlightInv
      <4> QED BY <3>1, <4>1, <4>2
    <3> QED BY <1>2, <3>1 DEF InExecution
  <2>3. PhaseOf(w)' \in {"queued", "paused", "done"}
    BY <1>2, <2>2 DEF PhaseOf, Terminal
  <2>4. ASSUME NEW q \in Job \ {w} PROVE Still(q)
    <3>1. InExecution(q)' <=> InExecution(q)
      BY <1>2, <2>4 DEF InExecution
    <3> QED BY <1>2, <2>4, <3>1, StillThere
  <2> QED BY <1>2, <2>1, <2>3, <2>4 DEF OneMoves, Moved
(* An execution that goes on, or has nothing left to say.                  *)
<1>3. ASSUME row' = row, InFlight' = InFlight
      PROVE  OneMoves(w)
  BY <1>0, <1>3, StillThere DEF OneMoves, InExecution
<1>4. CASE PauseAndLinger(act)
  BY <1>4 DEF PauseAndLinger, WellBehaved
<1>5. CASE PauseAndReturn(act)
  <2>1. act \in racing /\ act \notin compensating
    BY <1>5 DEF PauseAndReturn, FlightInv
  <2>2. InFlight' = InFlight \ {act} /\ act \in InFlight
    BY <1>5, <2>1 DEF PauseAndReturn, LeaveRace, InFlight
  <2>3. /\ row'[w].status = "waiting-approval" /\ row'[w].attempts = row[w].attempts
        /\ \A q \in Job \ {w} : row'[q] = row[q]
    BY <1>0, <1>5 DEF PauseAndReturn, SetStatus, RowType
  <2> QED BY <1>2, <2>2, <2>3
<1>6. CASE Complete(act)
  <2>1. InFlight' = InFlight \ {act} /\ act \in InFlight
    BY <1>6 DEF Complete, LeaveRace, InFlight, FlightInv
  <2>2. row[w].status # "waiting-approval"
    BY <2>1 DEF FlightInv
  <2>3. /\ row'[w].status = "completed" /\ row'[w].attempts = row[w].attempts
        /\ \A q \in Job \ {w} : row'[q] = row[q]
    BY <1>0, <1>6, <2>2 DEF Complete, FinishRow, RowType
  <2> QED BY <1>2, <2>1, <2>3 DEF Terminal
<1>7. ASSUME FailAttempt(act), act \in racing PROVE OneMoves(w)
  <2>1. CASE row' = row /\ compensating' = compensating \union {act}
    BY <1>3, <1>7, <2>1 DEF FailAttempt, LeaveRace, InFlight
  <2>2. CASE compensating' = compensating /\ row' # row
    <3>1. InFlight' = InFlight \ {act} /\ act \in InFlight
      BY <1>7, <2>2 DEF FailAttempt, LeaveRace, InFlight, FlightInv
    <3>2. /\ row'[w].status \in {"retrying", "failed"} /\ row'[w].attempts = row[w].attempts
          /\ \A q \in Job \ {w} : row'[q] = row[q]
      BY <1>0, <1>7, <2>2 DEF FailAttempt, FinishRow, RowType
    <3> QED BY <1>2, <3>1, <3>2 DEF Runnable, Terminal
  <2>3. CASE compensating' = compensating /\ row' = row
    <3>1. row[w].status \in {"running", "cancelled"}
      BY <1>7 DEF FlightInv, InFlight
    <3>2. row'[w].status \in {"retrying", "failed"} \/ compensating' = compensating \union {act}
      BY <1>0, <1>7 DEF FailAttempt, FinishRow, RowType
    <3> QED BY <1>7, <2>3, <3>1, <3>2 DEF FlightInv
  <2> QED BY <1>7, <2>1, <2>2, <2>3 DEF FailAttempt
<1>8. CASE Reject(act) \/ Timeout(act)
  BY <1>7, <1>8 DEF Reject, Timeout, FlightInv
<1>9. CASE LateSettle(act)
  BY <1>3, <1>9 DEF LateSettle, table, InFlight
<1>10. ASSUME NEW outcome \in {"rolled-back", "failed"}, Compensate(act, outcome)
       PROVE  OneMoves(w)
  <2>1. InFlight' = InFlight \ {act} /\ act \in InFlight
    BY <1>10 DEF Compensate, InFlight, FlightInv
  <2>2. /\ row'[w].status = outcome /\ row'[w].attempts = row[w].attempts
        /\ \A q \in Job \ {w} : row'[q] = row[q]
    BY <1>0, <1>10 DEF Compensate, FinishRow, RowType
  <2> QED BY <1>2, <2>1, <2>2 DEF Terminal
<1> QED BY <1>4, <1>5, <1>6, <1>8, <1>9, <1>10 DEF Continue

(* An id without a row has no attempts.                                    *)
FreshInv == \A w \in Job : row[w].status = "absent" => row[w].attempts = 0

(* No step takes a row away.                                               *)
LEMMA FreshStep == TypeOK /\ FreshInv /\ [Next]_vars => FreshInv'
<1> SUFFICES ASSUME TypeOK, FreshInv, [Next]_vars, NEW v \in Job, row'[v].status = "absent"
             PROVE  row[v].status = "absent" /\ row'[v].attempts = row[v].attempts
  BY DEF FreshInv
<1>0. row \in [Job -> RowType]
  BY DEF TypeOK
<1>1. CASE Poll \/ UNCHANGED vars
  BY <1>1 DEF Poll, table, vars
<1>2. CASE \E w \in Job : Execute(w)
  BY <1>0, <1>2 DEF Execute, Skip, FailUnrun, Claim, FinishRow, RowType
<1>3. ASSUME NEW w \in Job, Operate(w)
      PROVE  row[v].status = "absent" /\ row'[v].attempts = row[v].attempts
  <2>1. ASSUME NEW r \in Request, NEW runNow \in BOOLEAN, Create(w, r, runNow)
        PROVE  v # w /\ row'[v] = row[v]
    BY <1>0, <2>1 DEF Create
  <2>2. CASE Approve(w)
    BY <1>0, <2>2 DEF Approve, RowType
  <2>3. CASE Cancel(w)
    BY <1>0, <2>3 DEF Cancel, FinishRow, RowType
  <2> QED BY <1>3, <2>1, <2>2, <2>3 DEF Operate
<1>4. CASE \E w \in Job : BecomeDue(w) \/ PassDeadline(w)
  BY <1>0, <1>4 DEF BecomeDue, PassDeadline, RowType
<1>5. ASSUME NEW act \in live \union compensating, Continue(act)
      PROVE  row[v].status = "absent" /\ row'[v].attempts = row[v].attempts
  <2>0. act[1] \in Job
    BY ActivationJob DEF TypeOK
  <2>1. row' = row \/ (row'[act[1]].status # "absent" /\ \A w \in Job \ {act[1]} : row'[w] = row[w])
    BY <1>0, <1>5, <2>0 DEF Continue, PauseAndLinger, PauseAndReturn, Complete, Reject, Timeout,
       FailAttempt, LateSettle, Compensate, SetStatus, FinishRow, table, RowType
  <2> QED BY <2>0, <2>1
<1>6. ASSUME NEW types \in SUBSET Type, Restart(types)
      PROVE  row[v].status = "absent" /\ row'[v].attempts = row[v].attempts
  <2>1. row'[v] = IF row[v].status = "running"
                    THEN [row[v] EXCEPT !.status = "retrying", !.wait = FALSE] ELSE row[v]
    BY <1>6 DEF Restart, RestartWith
  <2> QED BY <1>0, <2>1 DEF RowType
<1> QED BY <1>1, <1>2, <1>3, <1>4, <1>5, <1>6 DEF Next

(* An id without a row never has attempts.                                 *)
LEMMA FreshCorrect == Spec => []FreshInv
<1>1. Init => FreshInv
  BY DEF Init, FreshInv
<1> QED BY <1>1, FreshStep, TypeCorrect, PTL DEF Spec

(* Every step moves one job at most, or loses every claim.                 *)
LEMMA StepMoves ==
  ASSUME WellBehaved, TypeOK, FlightInv, NoOrphanRun, FreshInv, [Next]_vars
  PROVE  \/ \A q \in Job : Still(q)
         \/ \E w \in Job : OneMoves(w)
         \/ \A q \in Job : Lost(q)
<1> DEFINE Goal == \/ \A q \in Job : Still(q)
                   \/ \E w \in Job : OneMoves(w)
                   \/ \A q \in Job : Lost(q)
<1> SUFFICES Goal
  OBVIOUS
<1>0. row \in [Job -> RowType]
  BY DEF TypeOK
(* A step of w outside an execution leaves the other jobs where they are.  *)
<1>a. ASSUME NEW w \in Job, InFlight' = InFlight, \A q \in Job \ {w} : row'[q] = row[q],
             Still(w) \/ Moved(w)
      PROVE  Goal
  BY <1>a, StillThere DEF OneMoves, InExecution
<1>b. ASSUME InFlight' = InFlight,
             \A q \in Job : row'[q].status = row[q].status /\ row'[q].attempts = row[q].attempts
      PROVE  Goal
  BY <1>b, StillThere DEF InExecution
<1>1. CASE Poll
  BY <1>1, <1>b DEF Poll, table, process, InFlight
<1>2. ASSUME NEW w \in Job, Execute(w) PROVE Goal
  <2>1. CASE Skip(w)
    BY <2>1, <1>b DEF Skip, process, InFlight
  <2>2. ASSUME Claimable(w) PROVE PhaseOf(w) = "queued" /\ ~InExecution(w)
    BY <2>2, ExecutionStatus DEF Claimable, IsDue, PhaseOf, Runnable
  <2>3. CASE FailUnrun(w)
    <3>1. /\ row'[w].status = "failed" /\ row'[w].attempts = row[w].attempts
          /\ \A q \in Job \ {w} : row'[q] = row[q]
      BY <2>3, <1>0 DEF FailUnrun, FinishRow, RowType
    <3>2. InFlight' = InFlight /\ Claimable(w)
      BY <2>3 DEF FailUnrun, process, InFlight
    <3>3. PhaseOf(w)' = "done"
      BY <2>2, <3>1, <3>2 DEF PhaseOf, InExecution, Runnable
    <3> QED BY <1>a, <2>2, <3>1, <3>2, <3>3 DEF Moved
  <2>4. ASSUME NEW gap \in BOOLEAN, Claim(w, gap) PROVE Goal
    <3> DEFINE act == <<w, row[w].attempts + 1>>
    <3>1. /\ row'[w].attempts = row[w].attempts + 1
          /\ \A q \in Job \ {w} : row'[q] = row[q]
      BY <2>4, <1>0 DEF Claim, RowType
    <3>2. Claimable(w) /\ InFlight' = InFlight \union {act} /\ act[1] = w
      BY <2>4 DEF Claim, InFlight
    <3>3. InExecution(w)' /\ PhaseOf(w)' = "claimed"
      BY <3>2 DEF InExecution, PhaseOf
    <3>4. \A q \in Job \ {w} : InExecution(q)' <=> InExecution(q)
      BY <3>2 DEF InExecution
    <3>5. \A q \in Job \ {w} : Still(q)
      BY <3>1, <3>4, StillThere
    <3> QED BY <2>2, <3>1, <3>2, <3>3, <3>5 DEF OneMoves, Started
  <2> QED BY <1>2, <2>1, <2>3, <2>4 DEF Execute
<1>3. ASSUME NEW w \in Job, Operate(w) PROVE Goal
  <2>0. InFlight' = InFlight /\ \A q \in Job \ {w} : row'[q] = row[q]
    BY <1>3, <1>0 DEF Operate, Create, Approve, Cancel, FinishRow, process, InFlight
  <2>1. ASSUME NEW r \in Request, NEW runNow \in BOOLEAN, Create(w, r, runNow) PROVE Goal
    <3>1. row[w].status = "absent" /\ row'[w].status \in Runnable /\ row'[w].attempts = 0
      BY <2>1, <1>0 DEF Create, Exists, Runnable
    <3>2. ~InExecution(w)
      BY <3>1, ExecutionStatus
    <3>3. PhaseOf(w) = "absent" /\ PhaseOf(w)' = "queued"
      BY <2>0, <3>1, <3>2 DEF PhaseOf, InExecution, Runnable
    <3>4. row[w].attempts = 0
      BY <3>1 DEF FreshInv
    <3> QED BY <1>a, <2>0, <3>1, <3>3, <3>4 DEF Moved
  <2>2. CASE Approve(w) /\ row' # row
    <3>1. /\ row[w].status = "waiting-approval" /\ row'[w].status = "pending"
          /\ row'[w].attempts = row[w].attempts
      BY <2>2, <1>0 DEF Approve, RowType
    <3>2. ~InExecution(w)
      BY <3>1, ExecutionStatus
    <3>3. PhaseOf(w) = "paused" /\ PhaseOf(w)' = "queued"
      BY <2>0, <3>1, <3>2 DEF PhaseOf, InExecution, Runnable
    <3> QED BY <1>a, <2>0, <3>1, <3>3 DEF Moved
  <2>3. CASE Approve(w) /\ row' = row
    BY <1>b, <2>0, <2>3
  <2>4. CASE Cancel(w)
    <3>1. /\ row[w].status \notin Terminal \union {"absent"} /\ row'[w].status = "cancelled"
          /\ row'[w].attempts = row[w].attempts
      BY <2>4, <1>0 DEF Cancel, Exists, FinishRow, RowType
    <3>2. CASE InExecution(w)
      <4>1. PhaseOf(w) = "claimed" /\ PhaseOf(w)' = "claimed"
        BY <2>0, <3>2 DEF PhaseOf, InExecution
      <4> QED BY <1>a, <2>0, <3>1, <4>1 DEF Still
    <3>3. CASE ~InExecution(w)
      <4>1. row[w].status # "running"
        BY <3>3 DEF NoOrphanRun, InExecution
      <4>2. row[w].status \in Runnable \union {"waiting-approval"}
        BY <3>1, <4>1, <1>0 DEF RowType, Status, Holding
      <4>3. PhaseOf(w) \in {"queued", "paused"} /\ PhaseOf(w)' = "done"
        BY <2>0, <3>1, <3>3, <4>2 DEF PhaseOf, InExecution, Runnable
      <4> QED BY <1>a, <2>0, <3>1, <4>3 DEF Moved
    <3> QED BY <3>2, <3>3
  <2> QED BY <1>3, <2>1, <2>2, <2>3, <2>4 DEF Operate
<1>4. ASSUME NEW w \in Job, BecomeDue(w) \/ PassDeadline(w) PROVE Goal
  <2>1. \A q \in Job : row'[q].status = row[q].status /\ row'[q].attempts = row[q].attempts
    BY <1>4, <1>0 DEF BecomeDue, PassDeadline, RowType
  <2>2. InFlight' = InFlight
    BY <1>4 DEF BecomeDue, PassDeadline, process, InFlight
  <2> QED BY <1>b, <2>1, <2>2
<1>5. ASSUME NEW act \in live \union compensating, Continue(act) PROVE Goal
  <2>1. act[1] \in Job
    BY ActivationJob DEF TypeOK
  <2> QED BY <1>5, <2>1, ContinueMoves
<1>6. ASSUME NEW types \in SUBSET Type, Restart(types), NEW q \in Job PROVE Lost(q)
  <2>1. /\ ~InExecution(q)' /\ row'[q].attempts = row[q].attempts
        /\ row'[q].status = IF row[q].status = "running" THEN "retrying" ELSE row[q].status
    BY <1>6, <1>0 DEF Restart, RestartWith, InFlight, InExecution, RowType
  <2>2. CASE InExecution(q)
    <3>1. PhaseOf(q) = "claimed" /\ row'[q].status \in {"retrying", "cancelled"}
      BY <2>1, <2>2, ExecutionStatus DEF PhaseOf
    <3>2. PhaseOf(q)' \in {"queued", "done"}
      BY <2>1, <3>1 DEF PhaseOf, Runnable
    <3> QED BY <2>1, <3>1, <3>2 DEF Lost
  <2>3. CASE ~InExecution(q)
    <3>1. row'[q].status = row[q].status
      BY <2>1, <2>3 DEF NoOrphanRun, InExecution
    <3>2. PhaseOf(q)' = PhaseOf(q) /\ PhaseOf(q) # "claimed"
      BY <2>1, <2>3, <3>1 DEF PhaseOf
    <3> QED BY <2>1, <3>2 DEF Lost
  <2> QED BY <2>2, <2>3
<1>7. CASE UNCHANGED vars
  BY <1>7, <1>b DEF vars, InFlight
<1> QED BY <1>1, <1>2, <1>3, <1>4, <1>5, <1>6, <1>7 DEF Next

(* Moves of one job, and the loss of every claim, are steps of the life    *)
(* cycle.                                                                  *)
LEMMA MovesMap ==
  ASSUME \/ \A q \in Job : Still(q)
         \/ \E w \in Job : OneMoves(w)
         \/ \A q \in Job : Lost(q)
  PROVE  [Lifecycle!Next]_(Lifecycle!vars)
<1> DEFINE phase == [w \in Job |-> PhaseOf(w)]
           tries == [w \in Job |-> row[w].attempts]
<1>1. CASE \A q \in Job : Still(q)
  <2>1. phase' = phase /\ tries' = tries
    BY <1>1 DEF Still
  <2> QED BY <2>1 DEF Lifecycle!vars, PhaseOf, InExecution
<1>2. ASSUME NEW w \in Job, OneMoves(w), ~Still(w) PROVE Lifecycle!Next
  <2>1. phase' = [phase EXCEPT ![w] = PhaseOf(w)'] /\ phase[w] = PhaseOf(w)
    BY <1>2 DEF OneMoves, Still
  <2>2. CASE Started(w)
    <3>1. tries' = [tries EXCEPT ![w] = @ + 1]
      BY <1>2, <2>2 DEF OneMoves, Still, Started
    <3>2. Lifecycle!Claim(w)
      BY <2>1, <2>2, <3>1 DEF Started, Lifecycle!Claim, Lifecycle!Move, PhaseOf, InExecution
    <3> QED BY <3>2 DEF Lifecycle!Next
  <2>3. CASE Moved(w)
    <3>1. tries' = tries
      BY <1>2, <2>3 DEF OneMoves, Still, Moved
    <3>2. ASSUME NEW from, NEW to, PhaseOf(w) = from, PhaseOf(w)' = to
          PROVE  Lifecycle!Move(w, from, to) /\ UNCHANGED tries
      BY <2>1, <3>1, <3>2 DEF Lifecycle!Move, PhaseOf, InExecution
    <3>3. \/ Lifecycle!Submit(w) \/ Lifecycle!Requeue(w) \/ Lifecycle!Pause(w)
          \/ Lifecycle!Finish(w) \/ Lifecycle!Resume(w) \/ Lifecycle!Withdraw(w)
      BY <2>3, <3>2 DEF Moved, Lifecycle!Submit, Lifecycle!Requeue, Lifecycle!Pause,
         Lifecycle!Finish, Lifecycle!Resume, Lifecycle!Withdraw
    <3> QED BY <3>3 DEF Lifecycle!Next
  <2> QED BY <1>2, <2>2, <2>3 DEF OneMoves
<1>3. CASE \A q \in Job : Lost(q)
  <2>1. tries' = tries
    BY <1>3 DEF Lost
  <2>2. \A q \in Job : IF phase[q] = "claimed" THEN phase'[q] \in {"queued", "done"}
                                              ELSE phase'[q] = phase[q]
    BY <1>3 DEF Lost
  <2>3. phase' \in [Job -> Lifecycle!Phase]
    BY DEF PhaseOf, Lifecycle!Phase
  <2>4. Lifecycle!Crash
    BY <2>1, <2>2, <2>3 DEF Lifecycle!Crash, PhaseOf, InExecution
  <2> QED BY <2>4 DEF Lifecycle!Next
<1>4. ASSUME NEW w \in Job, OneMoves(w), Still(w) PROVE \A q \in Job : Still(q)
  BY <1>4 DEF OneMoves
<1> QED BY <1>1, <1>2, <1>3, <1>4

(* The engine implements the life cycle: whatever polls, routes, timeouts, *)
(* pauses and restarts do, a job is claimed by one execution at a time and *)
(* done for good, if types are as the engine expects them.                 *)
THEOREM EngineImplements == WellBehaved => (Spec => ImplementsLifecycle)
<1> SUFFICES ASSUME WellBehaved PROVE Spec => ImplementsLifecycle
  OBVIOUS
<1>1. Init => Lifecycle!Init
  BY DEF Init, Lifecycle!Init, InFlight, Runnable
<1>2. TypeOK /\ FlightInv /\ NoOrphanRun /\ FreshInv /\ [Next]_vars
        => [Lifecycle!Next]_(Lifecycle!vars)
  BY StepMoves, MovesMap
<1>3. Spec => []FlightInv
  BY FlightCorrect
<1> QED
  BY <1>1, <1>2, <1>3, TypeCorrect, NoRunIsOrphaned, FreshCorrect, PTL
  DEF Spec, ImplementsLifecycle, Lifecycle!Spec
=============================================================================
