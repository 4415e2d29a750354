--------------------------- MODULE WorkflowEngine ---------------------------
(***************************************************************************)
(* The durable workflow queue of server/services/workflow-engine.js:       *)
(* rows of the workflows table, the executions of one Node process that    *)
(* act on them, the one-second poll, and restarts.                         *)
(*                                                                         *)
(* JavaScript runs to completion between awaits, so one action is one      *)
(* synchronous stretch: a route handler up to its first await, the         *)
(* callback of a timer, or the continuation after an await.  processDue()  *)
(* and the routes call execute() for several rows inside one stretch; the  *)
(* rows still to be executed in that stretch are "batch", and while it is  *)
(* not empty nothing but those calls (or a crash) can happen.              *)
(*                                                                         *)
(* An activation <<w, a>> is the a-th execute() of row w that claimed it.  *)
(* Its handler promise may outlive the execution that awaits it: after a   *)
(* WORKFLOW_TIMEOUT the race is settled and the handler still runs.        *)
(***************************************************************************)
EXTENDS Naturals, FiniteSets

CONSTANTS
  Job,           \* workflow ids
  Type,          \* workflow types some build of the program registers
  Request,       \* the arguments create() is called with
  NoLock, NoKey, \* the empty lock_key and idempotency_key
  Pausing,       \* types whose handler may call context.waitForApproval()
  Lingering,     \* pausing types whose handler works on after that call
  Compensated,   \* types with a registered compensation
  BatchLimit,    \* the LIMIT of processDue()'s query (20 in the code)
  AttemptCap,    \* attempts that can happen under the bounds below
  ApprovalBound, \* bound: approvals granted per row
  RestartBound   \* bound: restarts of the process

VARIABLES
  row,          \* the workflows table
  registered,   \* the types with a handler in this process
  batch,        \* rows this synchronous stretch has still to execute()
  fromTimer,    \* the batch was selected by the timer, which awaits it
  live,         \* activations whose handler promise is unsettled
  racing,       \* activations whose execute() awaits the handler
  armed,        \* those of them raced against an overall timeout
  compensating, \* activations whose execute() awaits the compensation
  awaited,      \* activations the timer callback waits for
  granted,      \* history: approvals received per row
  recovered,    \* history: times a restart put the row back to retrying
  restarts      \* history: restarts so far

table   == <<row, granted, recovered>>
process == <<live, racing, armed, compensating, awaited>>
vars    == <<row, registered, batch, fromTimer, live, racing, armed,
             compensating, awaited, granted, recovered, restarts>>

-----------------------------------------------------------------------------
(* Statuses of a row; "absent" stands for an id no row has yet.            *)

Terminal == {"completed", "failed", "rolled-back", "cancelled"}
Runnable == {"pending", "retrying", "scheduled"}
Holding  == {"running", "waiting-approval"}
Status   == Terminal \union Runnable \union Holding \union {"absent"}

RequestType == [type : Type, lock : {r.lock : r \in Request},
                key : {r.key : r \in Request}, max : Nat \ {0},
                timed : BOOLEAN, later : BOOLEAN]

(* wait: scheduled_for is in the future.  deadline: timeout_at.            *)
(* finished: finished_at is set.  rank: the order of created_at.           *)
RowType == [status : Status, attempts : Nat, req : Request,
            wait : BOOLEAN, deadline : {"none", "ahead", "passed"},
            finished : BOOLEAN, rank : Nat]

ASSUME JobAssumption == IsFiniteSet(Job)
ASSUME RequestAssumption ==
  /\ Request # {}
  /\ Request \subseteq RequestType
ASSUME TypeAssumption ==
  /\ Pausing \subseteq Type
  /\ Lingering \subseteq Pausing
  /\ Compensated \subseteq Type
ASSUME BoundAssumption ==
  /\ BatchLimit \in Nat \ {0}
  /\ AttemptCap \in Nat /\ ApprovalBound \in Nat /\ RestartBound \in Nat

Activation == Job \X (Nat \ {0})
InFlight   == racing \union compensating
Exists(w)  == row[w].status # "absent"

(* update(): "??" keeps the old column for a null argument, so finishedAt: *)
(* null never clears finished_at.                                          *)
SetStatus(w, s)  == row' = [row EXCEPT ![w].status = s]
FinishRow(w, s)  == row' = [row EXCEPT ![w].status = s, ![w].finished = TRUE]

(* Mutant: a row waiting for approval does not hold its lock.             *)
LockFreeWhilePaused(w) ==
  \/ row[w].req.lock = NoLock
  \/ \A v \in Job \ {w} : ~(row[v].req.lock = row[w].req.lock
                            /\ row[v].status = "running")

(* Mutant: a failed row keeps its lock.                                    *)
LockKeptByFailed(w) ==
  \/ row[w].req.lock = NoLock
  \/ \A v \in Job \ {w} : ~(row[v].req.lock = row[w].req.lock
                            /\ row[v].status \in Holding \union {"failed"})

LockAvailable(w) ==
  \/ row[w].req.lock = NoLock
  \/ \A v \in Job \ {w} : ~(row[v].req.lock = row[w].req.lock
                            /\ row[v].status \in Holding)

IsDue(r) == r.status \in Runnable /\ ~r.wait

(* The rows processDue() selects: the BatchLimit oldest that are due.      *)
DueBatch(rows) ==
  {w \in Job :
     /\ IsDue(rows[w])
     /\ Cardinality({v \in Job : IsDue(rows[v]) /\ rows[v].rank < rows[w].rank})
          < BatchLimit}

-----------------------------------------------------------------------------
Init ==
  /\ row = [w \in Job |-> [status |-> "absent", attempts |-> 0,
                           req |-> CHOOSE r \in Request : TRUE,
                           wait |-> FALSE, deadline |-> "none",
                           finished |-> FALSE, rank |-> 0]]
  /\ registered = Type
  /\ batch = {} /\ fromTimer = FALSE
  /\ live = {} /\ racing = {} /\ armed = {} /\ compensating = {} /\ awaited = {}
  /\ granted = [w \in Job |-> 0]
  /\ recovered = [w \in Job |-> 0]
  /\ restarts = 0

(* The synchronous stretch of the previous action is over.                 *)
Idle == batch = {}

(***************************************************************************)
(* create(), called by POST /api/workflows, which executes the new row in  *)
(* the same stretch unless runNow is false.  A repeated (type, key) finds  *)
(* the existing row and changes nothing.  Ids are random and tell nothing: *)
(* one that no row has stands for all of them.                             *)
(***************************************************************************)
Create(w, r, runNow) ==
  /\ Idle
  /\ ~Exists(w) /\ w = CHOOSE v \in Job : ~Exists(v)
  /\ r.type \in registered
  /\ \/ r.key = NoKey
     \/ \A v \in Job : Exists(v) => <<row[v].req.type, row[v].req.key>> # <<r.type, r.key>>
  /\ row' = [row EXCEPT ![w] =
       [status   |-> IF r.later THEN "scheduled" ELSE "pending",
        attempts |-> 0,
        req      |-> r,
        wait     |-> r.later,
        deadline |-> IF r.timed THEN "ahead" ELSE "none",
        finished |-> FALSE,
        rank     |-> Cardinality({v \in Job : Exists(v)})]]
  /\ batch' = (IF runNow THEN {w} ELSE {})
  /\ fromTimer' = FALSE
  /\ UNCHANGED <<registered, process, granted, recovered, restarts>>

-----------------------------------------------------------------------------
(* execute(w) up to its first await, for the oldest row of the batch.      *)

Turn(w) ==
  /\ w \in batch
  /\ \A v \in batch : row[w].rank <= row[v].rank
  /\ batch' = batch \ {w}
  /\ UNCHANGED <<registered, fromTimer, restarts, granted, recovered>>

Claimable(w) == IsDue(row[w]) /\ LockAvailable(w)

(* The timer callback: it runs again only once every execution of its last *)
(* batch has settled, because it awaits processDue()'s Promise.all.  A     *)
(* poll that selects only rows whose lock is held changes nothing.         *)
Poll ==
  /\ Idle
  /\ awaited = {}
  /\ \E w \in DueBatch(row) : Claimable(w)
  /\ batch' = DueBatch(row)
  /\ fromTimer' = TRUE
  /\ UNCHANGED <<table, registered, process, restarts>>

(* The early returns: not runnable, not yet due, or the lock is held.      *)
Skip(w) ==
  /\ Turn(w)
  /\ ~Claimable(w)
  /\ UNCHANGED <<row, process>>

(* WORKFLOW_TIMEOUT before it could run, or WORKFLOW_HANDLER_NOT_FOUND.    *)
FailUnrun(w) ==
  /\ Turn(w)
  /\ Claimable(w)
  /\ row[w].deadline = "passed" \/ row[w].req.type \notin registered
  /\ FinishRow(w, "failed")
  /\ UNCHANGED process

(* The row is marked running and its handler started.  remainingMs is      *)
(* read from a later clock than the check above it: when timeout_at falls  *)
(* between the two (gap) no timer is armed at all.                         *)
Claim(w, gap) ==
  LET act == <<w, row[w].attempts + 1>> IN
  /\ Turn(w)
  /\ Claimable(w)
  /\ row[w].deadline # "passed" /\ row[w].req.type \in registered
  /\ gap => row[w].deadline = "ahead"
  /\ row' = [row EXCEPT ![w].status = "running",
                        ![w].attempts = @ + 1,
                        ![w].deadline = IF gap THEN "passed" ELSE @]
  /\ live' = live \union {act}
  /\ racing' = racing \union {act}
  /\ armed' = (IF row[w].deadline = "ahead" /\ ~gap THEN armed \union {act} ELSE armed)
  /\ awaited' = (IF fromTimer THEN awaited \union {act} ELSE awaited)
  /\ UNCHANGED compensating

-----------------------------------------------------------------------------
(* Continuations of an execution.                                          *)

LeaveRace(act) == racing' = racing \ {act} /\ armed' = armed \ {act}

(* context.waitForApproval() of a handler that works on afterwards.  It    *)
(* writes the row whatever its status, also after its race was lost.       *)
PauseAndLinger(act) ==
  /\ Idle
  /\ act \in live
  /\ row[act[1]].req.type \in Lingering
  /\ SetStatus(act[1], "waiting-approval")
  /\ UNCHANGED <<registered, batch, fromTimer, process, granted, recovered, restarts>>

(* The same call as the last thing the handler does: execute() finds the   *)
(* row waiting-approval and returns without completing it.                 *)
PauseAndReturn(act) ==
  /\ Idle
  /\ act \in live
  /\ row[act[1]].req.type \in Pausing
  /\ SetStatus(act[1], "waiting-approval")
  /\ live' = live \ {act}
  /\ LeaveRace(act)
  /\ awaited' = (IF act \in racing THEN awaited \ {act} ELSE awaited)
  /\ UNCHANGED <<registered, batch, fromTimer, compensating, granted, recovered, restarts>>

(* The handler resolves while execute() awaits it.  Only waiting-approval  *)
(* is respected: any other status, cancelled included, becomes completed.  *)
Complete(act) ==
  /\ Idle
  /\ act \in live \intersect racing
  /\ live' = live \ {act}
  /\ LeaveRace(act)
  /\ awaited' = awaited \ {act}
  /\ IF row[act[1]].status = "waiting-approval" THEN UNCHANGED row
                                                ELSE FinishRow(act[1], "completed")
  /\ UNCHANGED <<registered, batch, fromTimer, compensating, granted, recovered, restarts>>

(* The catch block of execute().  The decision reads the row as it is now, *)
(* not the attempt that failed, and does not look at its status.           *)
FailAttempt(act) ==
  LET w == act[1] IN
  /\ LeaveRace(act)
  /\ \/ /\ row[w].attempts < row[w].req.max
        /\ row' = [row EXCEPT ![w].status = "retrying", ![w].wait = TRUE]
        /\ awaited' = awaited \ {act}
        /\ UNCHANGED compensating
     \/ /\ row[w].attempts >= row[w].req.max
        /\ row[w].req.type \in Compensated
        /\ compensating' = compensating \union {act}
        /\ UNCHANGED <<row, awaited>>
     \/ /\ row[w].attempts >= row[w].req.max
        /\ row[w].req.type \notin Compensated
        /\ FinishRow(w, "failed")
        /\ awaited' = awaited \ {act}
        /\ UNCHANGED compensating
  /\ UNCHANGED <<registered, batch, fromTimer, granted, recovered, restarts>>

Reject(act) ==
  /\ Idle
  /\ act \in live \intersect racing
  /\ live' = live \ {act}
  /\ FailAttempt(act)

(* The overall timeout wins the race; the handler keeps running.           *)
Timeout(act) ==
  /\ Idle
  /\ act \in armed
  /\ row[act[1]].deadline = "passed"
  /\ live' = live
  /\ FailAttempt(act)

(* A handler whose race was lost settles; nobody looks at it any more.     *)
LateSettle(act) ==
  /\ Idle
  /\ act \in live \ racing
  /\ live' = live \ {act}
  /\ UNCHANGED <<table, registered, batch, fromTimer, racing, armed,
                 compensating, awaited, restarts>>

(* compensate() resolves (rolled-back) or rejects (failed).                *)
Compensate(act, outcome) ==
  /\ Idle
  /\ act \in compensating
  /\ compensating' = compensating \ {act}
  /\ awaited' = awaited \ {act}
  /\ FinishRow(act[1], outcome)
  /\ UNCHANGED <<registered, batch, fromTimer, live, racing, armed, granted,
                 recovered, restarts>>

-----------------------------------------------------------------------------
(* Operators of the API, time, and the process.                            *)

(* Mutant: approve() does not look at the status of the row.               *)
ApproveAnyStatus(w) ==
  /\ Idle
  /\ Exists(w)
  /\ granted[w] < ApprovalBound
  /\ row' = [row EXCEPT ![w].status = "pending", ![w].wait = FALSE]
  /\ granted' = [granted EXCEPT ![w] = @ + 1]
  /\ batch' = {w}
  /\ fromTimer' = FALSE
  /\ UNCHANGED <<registered, process, recovered, restarts>>

(* POST /:id/approve: approve() touches a waiting row only, but the route  *)
(* calls execute() on whatever row it was given, so that it also starts a  *)
(* row that is merely due (on any other row it changes nothing).           *)
Approve(w) ==
  /\ Idle
  /\ \/ /\ row[w].status = "waiting-approval"
        /\ granted[w] < ApprovalBound
        /\ row' = [row EXCEPT ![w].status = "pending", ![w].wait = FALSE]
        /\ granted' = [granted EXCEPT ![w] = @ + 1]
     \/ /\ Claimable(w)
        /\ UNCHANGED <<row, granted>>
  /\ batch' = {w}
  /\ fromTimer' = FALSE
  /\ UNCHANGED <<registered, process, recovered, restarts>>

(* POST /:id/cancel: any row that is not terminal, a running one included. *)
Cancel(w) ==
  /\ Idle
  /\ Exists(w)
  /\ row[w].status \notin Terminal
  /\ FinishRow(w, "cancelled")
  /\ UNCHANGED <<registered, batch, fromTimer, process, granted, recovered, restarts>>

(* scheduled_for is reached; timeout_at is reached.                        *)
BecomeDue(w) ==
  /\ Idle
  /\ row[w].wait
  /\ row' = [row EXCEPT ![w].wait = FALSE]
  /\ UNCHANGED <<registered, batch, fromTimer, process, granted, recovered, restarts>>

PassDeadline(w) ==
  /\ row[w].deadline = "ahead"
  /\ row' = [row EXCEPT ![w].deadline = "passed"]
  /\ UNCHANGED <<registered, batch, fromTimer, process, granted, recovered, restarts>>

(* What a restart of the process leaves: rows of the given statuses put    *)
(* into one status, and nothing of the process.                            *)
RestartWith(types, statuses, status) ==
  /\ restarts < RestartBound
  /\ restarts' = restarts + 1
  /\ registered' = types
  /\ row' = [w \in Job |-> IF row[w].status \in statuses
                           THEN [row[w] EXCEPT !.status = status, !.wait = FALSE]
                           ELSE row[w]]
  /\ recovered' = [w \in Job |-> IF row[w].status \in statuses
                                 THEN recovered[w] + 1 ELSE recovered[w]]
  /\ batch' = DueBatch(row')
  /\ fromTimer' = FALSE
  /\ live' = {} /\ racing' = {} /\ armed' = {} /\ compensating' = {} /\ awaited' = {}
  /\ UNCHANGED granted

(* Mutants: start() recovers nothing; it recovers failed rows too.         *)
RestartWithoutRecovery(types) == RestartWith(types, {}, "retrying")
RestartRetriesFailed(types)   == RestartWith(types, {"running", "failed"}, "retrying")

(* A crash, also in the middle of a batch, and start() of the next         *)
(* process, which may be a build that registers other types: running rows  *)
(* become retrying, and processDue() runs at once without being awaited.   *)
Restart(types) == RestartWith(types, {"running"}, "retrying")

-----------------------------------------------------------------------------
Execute(w) == Skip(w) \/ FailUnrun(w) \/ \E gap \in BOOLEAN : Claim(w, gap)

Operate(w) ==
  \/ \E r \in Request, runNow \in BOOLEAN : Create(w, r, runNow)
  \/ Approve(w)
  \/ Cancel(w)

Continue(act) ==
  \/ PauseAndLinger(act)
  \/ PauseAndReturn(act)
  \/ Complete(act)
  \/ Reject(act)
  \/ Timeout(act)
  \/ LateSettle(act)
  \/ \E outcome \in {"rolled-back", "failed"} : Compensate(act, outcome)

Next ==
  \/ Poll
  \/ \E w \in Job : Execute(w) \/ Operate(w) \/ BecomeDue(w) \/ PassDeadline(w)
  \/ \E act \in live \union compensating : Continue(act)
  \/ \E types \in SUBSET Type : Restart(types)

Spec == Init /\ [][Next]_vars

(* Fairness: the poll timer and the executions it starts, the overall      *)
(* timeout and the clock are Node's event loop.  Operators, crashes and    *)
(* pauses are never owed.                                                  *)
ClockFairness ==
  /\ WF_vars(Poll)
  /\ \A w \in Job : WF_vars(Execute(w)) /\ WF_vars(BecomeDue(w)) /\ WF_vars(PassDeadline(w))
  /\ \A w \in Job, a \in 1..AttemptCap : WF_vars(Timeout(<<w, a>>))

(* A handler, and a compensation, eventually settles: an assumption on the *)
(* registered code, since nothing but an overall timeout ends an attempt.  *)
HandlerFairness ==
  \A w \in Job, a \in 1..AttemptCap :
    /\ WF_vars(PauseAndReturn(<<w, a>>) \/ Complete(<<w, a>>) \/ Reject(<<w, a>>))
    /\ WF_vars(\E outcome \in {"rolled-back", "failed"} : Compensate(<<w, a>>, outcome))

FairSpec   == Spec /\ ClockFairness /\ HandlerFairness

-----------------------------------------------------------------------------
(* Properties.                                                             *)

(* Types of the variables.                                                 *)
TypeOK ==
  /\ row \in [Job -> RowType]
  /\ registered \subseteq Type
  /\ batch \subseteq Job
  /\ fromTimer \in BOOLEAN
  /\ live \subseteq Activation /\ racing \subseteq Activation
  /\ armed \subseteq Activation /\ compensating \subseteq Activation
  /\ awaited \subseteq Activation
  /\ granted \in [Job -> Nat] /\ recovered \in [Job -> Nat]
  /\ restarts \in Nat

(* Every row stored as running is being executed by this process, by the   *)
(* attempt its attempt_count names: no interleaving of pauses, timeouts,   *)
(* cancellations and restarts strands a row in running, where neither the  *)
(* poll nor a route would ever pick it up again.                           *)
NoOrphanRun ==
  \A w \in Job : row[w].status = "running" => <<w, row[w].attempts>> \in InFlight

(* The attempt budget over a row's whole life: attempt_count exceeds       *)
(* max_attempts by no more than the approvals and the restart recoveries   *)
(* of that row, each of which puts it back in the queue without a check.   *)
AttemptBudget ==
  \A w \in Job : row[w].attempts <= row[w].req.max + granted[w] + recovered[w]

(* What the engine expects of the types registered with it, and nowhere    *)
(* enforces: a handler returns once it asked for approval, and a workflow  *)
(* that may ask has no overall timeout (a timed-out handler still asks).   *)
WellBehaved ==
  /\ Lingering = {}
  /\ \A r \in Request : r.type \in Pausing => ~r.timed

(* One execution of a row at a time, compensation included: a poll, a      *)
(* repeated POST, an approval, a retry or a restart never starts an        *)
(* attempt while an earlier one is still awaited.                          *)
SingleFlight ==
  WellBehaved => \A x, y \in InFlight : x[1] = y[1] => x = y

(* lock_key: two rows hold the same lock only when one of them was already *)
(* finished (cancelled) and its handler, not told, paused for approval.    *)
LockExclusive ==
  WellBehaved =>
    \A v, w \in Job :
      /\ v # w
      /\ row[v].status \in Holding /\ row[w].status \in Holding
      /\ row[v].req.lock = row[w].req.lock /\ row[v].req.lock # NoLock
      => row[v].finished \/ row[w].finished

(* An outcome is final: a terminal row changes status only if it was       *)
(* cancelled while one of its executions was in flight.                    *)
OutcomeFinal ==
  [][WellBehaved =>
       \A w \in Job :
         row[w].status \in Terminal /\ row'[w].status # row[w].status
         => /\ row[w].status = "cancelled"
            /\ \E act \in InFlight : act[1] = w]_vars

(* A job that waits for its approval holds the lock w needs.               *)
Blocked(w) ==
  /\ row[w].req.lock # NoLock
  /\ \E v \in Job \ {w} : /\ row[v].status = "waiting-approval"
                          /\ row[v].req.lock = row[w].req.lock

(* Older jobs that are blocked fill every batch before it comes to w: they *)
(* are selected again by each poll, and the query is limited.              *)
Crowded(w) ==
  Cardinality({v \in Job : IsDue(row[v]) /\ row[v].rank < row[w].rank /\ Blocked(v)})
    >= BatchLimit

(* Every queued job is worked off: it reaches an outcome or its approval,  *)
(* unless a job that waits for its own approval holds the lock it needs,   *)
(* or as many older jobs as a batch takes are held up like that.           *)
QueueDrains ==
  \A w \in Job :
    row[w].status \in Runnable ~>
      row[w].status \in Terminal \union {"waiting-approval"} \/ Blocked(w) \/ Crowded(w)

(* The engine implements the life cycle a job is promised.                 *)
Lifecycle ==
  INSTANCE JobLifecycle WITH
    phase <- [w \in Job |->
                IF \E act \in InFlight : act[1] = w THEN "claimed"
                ELSE IF row[w].status \in Runnable THEN "queued"
                ELSE IF row[w].status = "waiting-approval" THEN "paused"
                ELSE IF row[w].status = "absent" THEN "absent"
                ELSE "done"],
    tries <- [w \in Job |-> row[w].attempts]

(* Refinement: no execution of a job is started, put back, paused or ended *)
(* except in the order JobLifecycle allows, and a job that is done with no *)
(* execution in flight stays done.                                         *)
ImplementsLifecycle == Lifecycle!Spec
=============================================================================
