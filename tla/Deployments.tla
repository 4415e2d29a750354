---------------------------- MODULE Deployments ----------------------------
(***************************************************************************)
(* The deployments that make virtual machines: the compose engine of       *)
(* server/services/deployment-engine.js, called by POST                    *)
(* /api/vms/compose/deploy and by the catalog, and the single deployments  *)
(* of POST /api/vms/templates/:ref/deploy and POST /api/vms.               *)
(*                                                                         *)
(* Each deployment is a chain of awaited XAPI calls, and several are in    *)
(* flight in one process.  A gate is the read of an inventory and the      *)
(* comparison that follows it in the same stretch; between the gate and    *)
(* the arrival of the machine it let through, other machines arrive.       *)
(*                                                                         *)
(* One pool, one vFabric that contains it and one project are modelled,    *)
(* each with its limit on the number of machines.  Of the other metrics    *)
(* nothing is said: the engine rounds its sum of memory after each plan,   *)
(* and the disks a project has are not counted at all.                     *)
(***************************************************************************)
EXTENDS Naturals, Sequences, FiniteSets

CONSTANTS
  Run,      \* deployment requests, each sent once
  Request,  \* what they may ask for, see RequestType
  Approval, \* approved, unexpired project capacity approvals
  None,     \* no approval
  MaxPlans, \* the longest compose spec of Request
  Limit     \* the enabled quotas; 0 is unlimited

VARIABLES
  run,      \* the deployments
  machine,  \* what XAPI has: the machine each step of each deployment makes
  assigned, \* project_resource_assignments
  row,      \* deployment_runs: the status of the row of a deployment, or "none"
  spent,    \* the machine an approval was consumed for
  blind,    \* history: scopes a machine joined since the run counted them
  raced,    \* history: scopes a machine joined that was not counted, or late
  cause     \* history: what left a machine behind

vars == <<run, machine, assigned, row, spent, blind, raced, cause>>

-----------------------------------------------------------------------------
Scope  == {"pool", "fabric", "project"}
Kind   == {"compose", "catalog", "template", "create"}
Mode   == {"template", "operating-system"}
Status == {"pending", "success", "failure", "skipped"}
Cause  == {"none", "lost", "unread", "unguarded", "cleanup", "late", "crash"}
Phase  == {"idle", "planning", "gating", "cloning", "reading", "building",
           "cleaning", "finishing", "recording", "ended", "refused", "crashed"}
Step    == 1..MaxPlans
Machine == Run \X Step

(* pinned: the plan names a host.  big: its memory exceeds the project's   *)
(* approval threshold.  project: the request names the project.  admin:    *)
(* the session's role is admin.  named: the host records of XAPI say which *)
(* pool they are of; nothing in them obliges XAPI to.                      *)
PlanType    == [pinned : BOOLEAN, mode : Mode, start : BOOLEAN, big : BOOLEAN]
RequestType == [kind : Kind, plans : Seq(PlanType), project : BOOLEAN,
                approval : Approval \union {None}, admin : BOOLEAN, named : BOOLEAN]

ASSUME RunAssumption == IsFiniteSet(Run)
ASSUME LimitAssumption == Limit \in [Scope -> Nat]
ASSUME ApprovalAssumption == None \notin Approval \union Machine
ASSUME RequestAssumption ==
  /\ MaxPlans \in Nat \ {0}
  /\ Request # {} /\ Request \subseteq RequestType
  /\ \A q \in Request :
       /\ Len(q.plans) \in Step
       /\ q.kind \in {"template", "create"} => Len(q.plans) = 1
       /\ q.kind \in {"catalog", "template"} => ~q.project

Gate == {"engine", "fabric", "pool", "project"}

(* The engine counts the pool by itself; the other gates are services.     *)
ScopeOf(gate) == IF gate = "engine" THEN "pool" ELSE gate

(* The checks before a plan is deployed, in the order they are awaited.    *)
GatesOf(q, plan) ==
  LET engine  == IF plan.pinned THEN <<"engine">> ELSE <<>>
      pool    == IF plan.pinned THEN <<"pool">> ELSE <<>>
      project == IF q.project THEN <<"project">> ELSE <<>>
  IN CASE q.kind = "compose"  -> engine \o <<"fabric">> \o project
       [] q.kind = "catalog"  -> engine \o <<"fabric", "pool">>
       [] q.kind = "template" -> <<"fabric">> \o pool
       [] q.kind = "create"   -> project

(* Whether a gate compares anything: without the pool of the plan's host   *)
(* there is no quota to look up.  The catalog has a plan without a host    *)
(* resolved to a pool with room for it.                                    *)
Compares(q, plan, gate) ==
  /\ gate = "engine" => q.named
  /\ gate = "pool"   => q.named \/ ~plan.pinned

Counted(q, plan) ==
  {s \in Scope : \E k \in 1..Len(GatesOf(q, plan)) :
     LET gate == GatesOf(q, plan)[k] IN ScopeOf(gate) = s /\ Compares(q, plan, gate)}

InFlight == {r \in Run : run[r].phase \notin {"idle", "ended", "refused", "crashed"}}
Plan(r)  == run[r].req.plans[run[r].at]
Here(r)  == <<r, run[r].at>>
Many(r)  == run[r].req.kind \in {"compose", "catalog"}

(* A catalog plan without a host is given one by the pool gate.            *)
Placed(r) == Plan(r).pinned \/ run[r].req.kind = "catalog"

(* Made by provisionVM(), whose first read is not yet guarded.             *)
Provisioned(r) ==
  \/ run[r].req.kind = "create"
  \/ Many(r) /\ Plan(r).mode = "operating-system"

Alive == {m \in Machine : machine[m] \in {"loose", "pooled"}}

(* buildQuotaUsageForPool(), buildUsage() and getUsage(): machines are     *)
(* counted by the host they run on or have an affinity with, and a         *)
(* project's by their assignment.                                          *)
Members(scope) ==
  IF scope = "project" THEN assigned \intersect Alive
  ELSE {m \in Machine : machine[m] = "pooled"}

Count(scope) == Cardinality(Members(scope))

Fits(scope, usage) == Limit[scope] > 0 => usage + 1 <= Limit[scope]

-----------------------------------------------------------------------------
Init ==
  /\ run = [r \in Run |-> [phase |-> "idle", req |-> CHOOSE q \in Request : TRUE,
                           at |-> 1, todo |-> <<>>, loaded |-> FALSE, seen |-> 0,
                           step |-> [k \in Step |-> "pending"]]]
  /\ machine = [m \in Machine |-> "none"]
  /\ assigned = {}
  /\ row = [r \in Run |-> "none"]
  /\ spent = [a \in Approval |-> None]
  /\ blind = [r \in Run |-> Scope]
  /\ raced = {}
  /\ cause = [m \in Machine |-> "none"]

(* A step begins: its gates are awaited one by one, then the clone.        *)
Entered(q, k) ==
  LET gates == GatesOf(q, q.plans[k])
  IN [phase |-> IF gates = <<>> THEN "cloning" ELSE "gating", todo |-> gates]

(* The route handler up to its first await.  All host records are alike.   *)
Begin(r, q) ==
  /\ run[r].phase = "idle"
  /\ \A p \in Run : run[p].phase # "idle" => run[p].req.named = q.named
  /\ run' = [run EXCEPT ![r].req = q,
       ![r].phase = IF q.kind \in {"compose", "catalog"} THEN "planning"
                    ELSE Entered(q, 1).phase,
       ![r].todo = IF q.kind \in {"compose", "catalog"} THEN <<>> ELSE Entered(q, 1).todo]
  /\ UNCHANGED <<machine, assigned, row, spent, blind, raced, cause>>

(* planCompose() resolves the spec, which may be refused as a whole.       *)
PlanCompose(r, ok) ==
  /\ run[r].phase = "planning"
  /\ run' = [run EXCEPT
       ![r].phase = IF ok THEN Entered(run[r].req, 1).phase ELSE "refused",
       ![r].todo = IF ok THEN Entered(run[r].req, 1).todo ELSE <<>>]
  /\ UNCHANGED <<machine, assigned, row, spent, blind, raced, cause>>

(* The catch of the engine's loop: the later plans are skipped and the row *)
(* is created in the same stretch.  A single deployment answers an error.  *)
StepFails(r) ==
  LET outcome == [k \in Step |-> IF k = run[r].at THEN "failure"
                                 ELSE IF k > run[r].at /\ k <= Len(run[r].req.plans)
                                      THEN "skipped" ELSE run[r].step[k]]
  IN IF Many(r)
     THEN /\ run' = [run EXCEPT ![r].phase = "ended", ![r].step = outcome]
          /\ row' = [row EXCEPT ![r] = IF run[r].at > 1 THEN "warning" ELSE "failure"]
     ELSE /\ run' = [run EXCEPT ![r].phase = "refused",
                                ![r].step = [@ EXCEPT ![run[r].at] = "failure"]]
          /\ row' = row

-----------------------------------------------------------------------------
(* Gates.                                                                  *)

(* Mutant: the engine forgets the machine it has just let through.         *)
UsageForgotten(r, gate) ==
  IF gate = "engine" /\ run[r].loaded THEN run[r].seen - 1 ELSE Count(ScopeOf(gate))

(* What a gate compares: the engine reads the inventory for its first      *)
(* pinned plan and adds up what it let through from then on.               *)
Usage(r, gate) ==
  IF gate = "engine" /\ run[r].loaded THEN run[r].seen ELSE Count(ScopeOf(gate))

(* checkProjectCapacityApproval(): a big machine in a project consumes the *)
(* approval the request names, which must not be used yet; an admin's      *)
(* needs none.                                                             *)
NeedsApproval(r, gate) == gate = "project" /\ Plan(r).big /\ ~run[r].req.admin

(* Mutant: checking the approval does not use it up.                       *)
ApprovalKept(r, gate) ==
  NeedsApproval(r, gate) => run[r].req.approval # None

Approved(r, gate) ==
  NeedsApproval(r, gate) =>
    /\ run[r].req.approval # None
    /\ spent[run[r].req.approval] = None

(* Whether a gate lets a plan through.  Without a pool to look up the      *)
(* catalog's pool gate refuses (requireResolvedTarget); the engine's and   *)
(* that of a template deployment have nothing to compare.                  *)
Admits(r, gate) ==
  /\ IF Compares(run[r].req, Plan(r), gate) THEN Fits(ScopeOf(gate), Usage(r, gate))
     ELSE gate = "engine" \/ run[r].req.kind # "catalog"
  /\ Approved(r, gate)

PassGate(r) ==
  /\ run[r].phase = "gating"
  /\ LET gate == Head(run[r].todo)
         rest == Tail(run[r].todo)
         sees == Compares(run[r].req, Plan(r), gate)
     IN /\ Admits(r, gate)
        /\ run' = [run EXCEPT ![r].todo = rest,
                     ![r].phase = IF rest = <<>> THEN "cloning" ELSE "gating",
                     ![r].loaded = @ \/ gate = "engine",
                     ![r].seen = IF gate = "engine" /\ sees THEN Usage(r, gate) + 1 ELSE @]
        /\ spent' = IF NeedsApproval(r, gate)
                    THEN [spent EXCEPT ![run[r].req.approval] = Here(r)] ELSE spent
        /\ blind' = IF ~sees \/ (gate = "engine" /\ run[r].loaded) THEN blind
                    ELSE [blind EXCEPT ![r] = @ \ {ScopeOf(gate)}]
  /\ UNCHANGED <<machine, assigned, row, raced, cause>>

(* Mutant: only a breach is refused.                                       *)
RefuseBreach(r) ==
  /\ run[r].phase = "gating"
  /\ Compares(run[r].req, Plan(r), Head(run[r].todo))
  /\ ~Fits(ScopeOf(Head(run[r].todo)), Usage(r, Head(run[r].todo)))
  /\ StepFails(r)
  /\ UNCHANGED <<machine, assigned, spent, blind, raced, cause>>

(* A breach, a missing or used approval, or an inventory that cannot be    *)
(* read.  Comparing with what the engine added up awaits nothing.          *)
RefuseGate(r) ==
  /\ run[r].phase = "gating"
  /\ LET gate == Head(run[r].todo)
     IN gate = "engine" /\ run[r].loaded =>
          Compares(run[r].req, Plan(r), gate) /\ ~Fits("pool", run[r].seen)
  /\ StepFails(r)
  /\ UNCHANGED <<machine, assigned, spent, blind, raced, cause>>

-----------------------------------------------------------------------------
(* Machines.                                                               *)

(* A machine joins scopes: the counts other runs hold are out of date, and *)
(* so is the run's own of a scope that this plan was not checked against.  *)
Joins(r, scopes) ==
  /\ raced' = raced \union
       {s \in scopes : s \notin Counted(run[r].req, Plan(r)) \/ s \in blind[r]}
  /\ blind' = [q \in Run |->
       IF q = r THEN blind[q] \union (scopes \ Counted(run[r].req, Plan(r)))
       ELSE blind[q] \union scopes]

(* VM.clone or VM.copy returned.                                           *)
CloneOk(r) ==
  /\ run[r].phase = "cloning"
  /\ machine' = [machine EXCEPT ![Here(r)] = "loose"]
  /\ run' = [run EXCEPT ![r].phase = IF Provisioned(r) THEN "reading" ELSE "building"]
  /\ UNCHANGED <<assigned, row, spent, blind, raced, cause>>

(* It failed, or its answer was lost to the request timeout after XAPI had *)
(* made the machine.                                                       *)
CloneFails(r, lost) ==
  /\ run[r].phase = "cloning"
  /\ machine' = [machine EXCEPT ![Here(r)] = IF lost THEN "loose" ELSE "none"]
  /\ cause' = [cause EXCEPT ![Here(r)] = IF lost THEN "lost" ELSE "none"]
  /\ StepFails(r)
  /\ UNCHANGED <<assigned, spent, blind, raced>>

(* provisionVM() reads the clone's record before its try block.            *)
ReadOk(r) ==
  /\ run[r].phase = "reading"
  /\ run' = [run EXCEPT ![r].phase = "building"]
  /\ UNCHANGED <<machine, assigned, row, spent, blind, raced, cause>>

ReadFails(r) ==
  /\ run[r].phase = "reading"
  /\ cause' = [cause EXCEPT ![Here(r)] = "unread"]
  /\ StepFails(r)
  /\ UNCHANGED <<machine, assigned, spent, blind, raced>>

(* The machine gets its affinity or, without one, is started on some host. *)
Place(r) ==
  /\ run[r].phase = "building"
  /\ machine[Here(r)] = "loose"
  /\ Placed(r) \/ Plan(r).start
  /\ machine' = [machine EXCEPT ![Here(r)] = "pooled"]
  /\ Joins(r, {"pool", "fabric"})
  /\ UNCHANGED <<run, assigned, row, spent, cause>>

(* The status of the row of a deployment without failure: the machine of a *)
(* template still has to be validated, or was made of a template that is   *)
(* not validated itself.                                                   *)
Completed(kind) ==
  CASE kind = "template" -> {"pending", "warning"}
    [] kind = "create"   -> {"none"}
    [] OTHER             -> {"success"}

(* The step is a success: the next plan begins, or the row is created.     *)
StepDone(r) ==
  LET last == Len(run[r].req.plans)
      next == run[r].at + 1
      done == [run[r].step EXCEPT ![run[r].at] = "success"]
  IN IF run[r].at = last
     THEN /\ run' = [run EXCEPT ![r].phase = "ended", ![r].step = done]
          /\ \E status \in Completed(run[r].req.kind) : row' = [row EXCEPT ![r] = status]
     ELSE /\ run' = [run EXCEPT ![r].at = next, ![r].step = done,
                       ![r].phase = Entered(run[r].req, next).phase,
                       ![r].todo = Entered(run[r].req, next).todo]
          /\ row' = row

(* Mutant: the machine is not assigned to the project.                     *)
FinishedUnassigned(r) ==
  StepDone(r) /\ UNCHANGED <<assigned, blind, raced, machine, spent, cause>>

(* afterDeploy(): the machine is assigned to the project of the request.   *)
Finished(r) ==
  /\ StepDone(r)
  /\ IF run[r].req.project
     THEN assigned' = assigned \union {Here(r)} /\ Joins(r, {"project"})
     ELSE UNCHANGED <<assigned, blind, raced>>
  /\ UNCHANGED <<machine, spent, cause>>

(* The last call on the machine returned.  The compose engine still sets   *)
(* the memory and fields of an operating-system machine, and a template    *)
(* deployment reads the names for its audit record.                        *)
Built(r) ==
  /\ run[r].phase = "building"
  /\ Placed(r) \/ Plan(r).start => machine[Here(r)] = "pooled"
  /\ IF Many(r) /\ Plan(r).mode = "operating-system"
     THEN /\ run' = [run EXCEPT ![r].phase = "finishing"]
          /\ UNCHANGED <<machine, assigned, row, spent, blind, raced, cause>>
     ELSE IF run[r].req.kind = "template"
     THEN /\ run' = [run EXCEPT ![r].phase = "recording"]
          /\ UNCHANGED <<machine, assigned, row, spent, blind, raced, cause>>
     ELSE Finished(r)

Finish(r) == run[r].phase = "finishing" /\ Finished(r)

(* A template deployment writes its audit record and its row.              *)
Record(r) == run[r].phase = "recording" /\ Finished(r)

(* Mutant: no deployment cleans up after itself.                           *)
BuildFailsOpen(r) ==
  /\ run[r].phase = "building"
  /\ StepFails(r)
  /\ UNCHANGED <<machine, assigned, spent, blind, raced, cause>>

(* A call on the machine fails: deployComposeVM() and provisionVM() go on  *)
(* to destroy it; deployTemplate() leaves it.                              *)
BuildFails(r) ==
  /\ run[r].phase = "building"
  /\ IF run[r].req.kind = "template"
     THEN /\ cause' = [cause EXCEPT ![Here(r)] = "unguarded"]
          /\ StepFails(r)
     ELSE /\ run' = [run EXCEPT ![r].phase = "cleaning"]
          /\ UNCHANGED <<row, cause>>
  /\ UNCHANGED <<machine, assigned, spent, blind, raced>>

(* The destruction may fail too, which the original error hides.           *)
Clean(r, ok) ==
  /\ run[r].phase = "cleaning"
  /\ machine' = IF ok THEN [machine EXCEPT ![Here(r)] = "gone"] ELSE machine
  /\ cause' = IF ok THEN cause ELSE [cause EXCEPT ![Here(r)] = "cleanup"]
  /\ StepFails(r)
  /\ UNCHANGED <<assigned, spent, blind, raced>>

(* A call after the guarded part fails, or the assignment does.            *)
FinishFails(r) ==
  /\ \/ run[r].phase = "finishing"
     \/ /\ run[r].phase = "building" /\ run[r].req.project
        /\ Placed(r) \/ Plan(r).start => machine[Here(r)] = "pooled"
        /\ ~(Many(r) /\ Plan(r).mode = "operating-system")
  /\ cause' = [cause EXCEPT ![Here(r)] = "late"]
  /\ StepFails(r)
  /\ UNCHANGED <<machine, assigned, spent, blind, raced>>

-----------------------------------------------------------------------------
(* PUT /templates/deployments/:id/validation: an operator judges the       *)
(* machine of a template, and its row takes the status of the judgement.   *)
Review(r, status) ==
  /\ run[r].req.kind = "template" /\ row[r] # "none"
  /\ row' = [row EXCEPT ![r] = status]
  /\ UNCHANGED <<run, machine, assigned, spent, blind, raced, cause>>

(* A machine nobody is working on is destroyed by an operator.             *)
Delete(m) ==
  /\ m \in Alive
  /\ \A r \in InFlight : Here(r) # m
  /\ machine' = [machine EXCEPT ![m] = "gone"]
  /\ UNCHANGED <<run, assigned, row, spent, blind, raced, cause>>

(* The process dies: deployments in flight leave what they made and no row.*)
Crash ==
  /\ InFlight # {}
  /\ run' = [r \in Run |-> IF r \in InFlight THEN [run[r] EXCEPT !.phase = "crashed"]
                           ELSE run[r]]
  /\ cause' = [m \in Machine |-> IF m[1] \in InFlight /\ m \in Alive THEN "crash"
                                 ELSE cause[m]]
  /\ UNCHANGED <<machine, assigned, row, spent, blind, raced>>

Deploy(r) ==
  \/ \E ok \in BOOLEAN : PlanCompose(r, ok) \/ Clean(r, ok)
  \/ PassGate(r) \/ RefuseGate(r)
  \/ CloneOk(r) \/ \E lost \in BOOLEAN : CloneFails(r, lost)
  \/ ReadOk(r) \/ ReadFails(r)
  \/ Place(r) \/ Built(r) \/ BuildFails(r)
  \/ Finish(r) \/ FinishFails(r) \/ Record(r)

Next ==
  \/ \E r \in Run : Deploy(r) \/ \E q \in Request : Begin(r, q)
  \/ \E r \in Run, status \in {"pending", "success", "warning", "failure"} : Review(r, status)
  \/ \E m \in Machine : Delete(m)
  \/ Crash

Spec == Init /\ [][Next]_vars

(* Every XAPI call is answered or ended by the request timeout.            *)
FairSpec == Spec /\ \A r \in Run : WF_vars(Deploy(r))

-----------------------------------------------------------------------------
(* Properties.                                                             *)

(* Types of the variables.                                                 *)
TypeOK ==
  /\ run \in [Run -> [phase : Phase, req : Request, at : Step, todo : Seq(Gate),
                      loaded : BOOLEAN, seen : Nat, step : [Step -> Status]]]
  /\ machine \in [Machine -> {"none", "loose", "pooled", "gone"}]
  /\ assigned \subseteq Machine
  /\ row \in [Run -> {"none", "pending", "success", "warning", "failure"}]
  /\ spent \in [Approval -> Machine \union {None}]
  /\ blind \in [Run -> SUBSET Scope] /\ raced \subseteq Scope
  /\ cause \in [Machine -> Cause]

(* A pool, a vFabric or a project outgrows its quota of machines only if   *)
(* one joined it that was not checked against it (Counted: a plan without  *)
(* a host, or whose host record names no pool), or that was let through on *)
(* a count older than another machine's arrival: gates, the engine's sums  *)
(* and clean-ups never do it by themselves, over any number of plans.      *)
QuotaHeld ==
  \A s \in Scope \ raced : Limit[s] > 0 => Count(s) <= Limit[s]

(* Every machine is accounted for: a deployment is still working on it or  *)
(* on a later plan, or reported it as a success, or it was left by one of  *)
(* the failures the code does not clean up after.                          *)
Accounted ==
  \A m \in Alive :
    \/ m[1] \in InFlight /\ m[2] <= run[m[1]].at
    \/ run[m[1]].phase = "ended" /\ run[m[1]].step[m[2]] = "success"
    \/ cause[m] # "none"

(* A row that names a step a success names a machine that was completed    *)
(* and, for a project, assigned; one it names skipped was never begun, and *)
(* one it names a failure is gone or left by a failure that cannot clean.  *)
RowTrue ==
  \A r \in Run : row[r] # "none" =>
    \A k \in 1..Len(run[r].req.plans) :
      LET m == <<r, k>>
      IN CASE run[r].step[k] = "success" ->
                machine[m] \in {"loose", "pooled", "gone"} /\ cause[m] = "none"
                /\ (run[r].req.project => m \in assigned)
           [] run[r].step[k] = "failure" ->
                m \notin assigned /\ (m \in Alive => cause[m] # "none")
           [] run[r].step[k] = "skipped" -> machine[m] = "none"
           [] OTHER -> FALSE

(* A run stops at its first failure: plans depend on the plans before      *)
(* them.  The row of a spec says how far it came.  That of a template is   *)
(* only there once its machine is complete, whatever is made of it later.  *)
StopsAtFailure ==
  \A r \in Run : row[r] # "none" =>
    LET n    == Len(run[r].req.plans)
        good == {k \in 1..n : run[r].step[k] = "success"}
    IN /\ \A k \in good : \A j \in 1..k : j \in good
       /\ IF Many(r)
          THEN row[r] = IF good = 1..n THEN "success"
                        ELSE IF good = {} THEN "failure" ELSE "warning"
          ELSE run[r].req.kind = "template" /\ good = 1..n

(* Each big machine of a project consumed an approval of its own, also     *)
(* when one request makes several, unless an admin's session asked for it. *)
ApprovalEach ==
  \A r \in Run, k \in Step :
    /\ machine[<<r, k>>] # "none"
    /\ run[r].req.project /\ run[r].req.plans[k].big /\ ~run[r].req.admin
    => \E a \in Approval : spent[a] = <<r, k>>

(* A deployment that began ends with an answer, unless the process dies.   *)
DeploymentsEnd ==
  \A r \in Run : r \in InFlight ~> run[r].phase \in {"ended", "refused", "crashed"}
=============================================================================
