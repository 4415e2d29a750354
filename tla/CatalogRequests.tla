-------------------------- MODULE CatalogRequests --------------------------
(***************************************************************************)
(* Requests for one entry of the self-service catalog: routes/catalog.js,  *)
(* catalogModel in models/connection.js, the approval-hook worker          *)
(* (services/catalog-approval-hooks.js) and the lease worker               *)
(* (services/catalog-leases.js).                                           *)
(*                                                                         *)
(* Route handlers up to their first await, and every transaction, are one  *)
(* step.  What runs across awaits is a deployment, a decommissioning and   *)
(* the delivery of a hook: each starts from a state of the row that may    *)
(* have changed when it ends, and a crash may come in between.  The hook   *)
(* worker also decides on the rows it read when its batch began.           *)
(*                                                                         *)
(* Of the entry's versions only the current one matters: its validation    *)
(* decides on publication.  What a deployment makes is told by the entry   *)
(* and by the item of the template library it names.  A generated name is  *)
(* the pattern and the number it is rendered from: one pattern renders     *)
(* each number differently, two may render alike ("N1X" with 2 and "NX"    *)
(* with 12; services/catalog.js:35).  Left out: the deletion of an entry, roles, and *)
(* day-2 actions, which leave the row alone.  Retry delays are left to the *)
(* scheduling of Poll.                                                     *)
(***************************************************************************)
EXTENDS Naturals, FiniteSets

CONSTANTS
  Request,      \* request ids
  User,         \* subscribers
  Admin,        \* catalog administrators
  Policy,       \* approval modes its administrators choose from
  Pattern,      \* naming patterns they choose from
  None,         \* no user, no pattern
  MaxActive,    \* maxActivePerSubscriber of the entry
  Steps,        \* steps of its approval chain, when its mode is multi-step
  MaxAttempts,  \* config.catalog.approvalHookMaxAttempts
  Verdict,      \* results of a validation that its administrators record
  MayTear,      \* whether a write of an edit may fail after the first
  RestartBound  \* bound: restarts of the process

ASSUME CatalogAssumption ==
  /\ Policy \subseteq {"manual", "auto", "threshold", "webhook", "multi-step"}
  /\ IsFiniteSet(Request) /\ None \notin User
  /\ MaxActive \in Nat \ {0} /\ Steps \in Nat \ {0} /\ MaxAttempts \in Nat \ {0}
  /\ Verdict \subseteq {"untested", "validated", "failed"} /\ MayTear \in BOOLEAN
  /\ RestartBound \in Nat

VARIABLES
  mode,      \* approval mode of the entry
  pattern,   \* its naming_pattern
  published, \* whether it is published
  tested,    \* validation_status of its current version
  torn,      \* whether it differs from its current version
  loose,     \* history: whether its library item changed since a validation
  sound,     \* history: whether entry and item were validated as they are
  drifted,   \* history: requests that awaited deployment when it changed
  next,      \* its next_sequence
  row,       \* catalog_requests, with the approval steps of each request
  hook,      \* catalog_approval_hook_attempts, at most one for a request
  batch,     \* rows the hook worker read and has not processed yet
  at,        \* requests whose hook it is delivering (at most one)
  work,      \* request handlers in flight
  vm,        \* the virtual machine of each request, in its pool
  settler,   \* history: who decided a request
  begun,     \* history: deployments begun for it
  lost,      \* history: requests whose handler a crash ended
  restarts   \* history: restarts so far

worker  == <<batch, at>>
machine == <<work, vm, begun, lost>>
entry   == <<mode, pattern, published, tested, torn, loose, sound, drifted>>
vars == <<entry, next, row, hook, worker, machine, settler, restarts>>

Counted  == {"pending", "approved", "deploying"}
Deployed == {"complete", "expired", "reclaimed"}
Status   == {"absent", "rejected", "cancelled", "failed"} \union Counted \union Deployed

(* number, pattern: the generated name, number 0 for none.                 *)
Row  == [status : Status, by : User \union {None}, pattern : Pattern \union {None},
         number : Nat, left : Nat, approvers : SUBSET Admin]
Hook == [status : {"none", "pending", "processing", "complete", "failed", "cancelled"},
         tries : Nat]

-----------------------------------------------------------------------------
Init ==
  /\ mode \in Policy /\ pattern \in Pattern /\ published = FALSE /\ next = 1
  /\ tested = "untested" /\ torn = FALSE /\ loose = FALSE /\ sound = FALSE /\ drifted = {}
  /\ row = [r \in Request |-> [status |-> "absent", by |-> None, pattern |-> None,
                               number |-> 0, left |-> 0, approvers |-> {}]]
  /\ hook = [r \in Request |-> [status |-> "none", tries |-> 0]]
  /\ batch = {} /\ at = {}
  /\ work = [r \in Request |-> "none"] /\ vm = [r \in Request |-> "none"]
  /\ settler = [r \in Request |-> "none"] /\ begun = [r \in Request |-> 0]
  /\ lost = {} /\ restarts = 0

(* countActiveRequestsForUser().                                           *)
ActiveOf(user) == Cardinality({r \in Request : row[r].by = user /\ row[r].status \in Counted})

(* The check of POST /:slug/requests.                                      *)
HasQuota(user) == ActiveOf(user) < MaxActive

(* shouldAutoApprove(); a threshold passes or not with the parameters.     *)
AutoApproves(passes) == mode = "auto" \/ (mode = "threshold" /\ passes)

(* POST /api/catalog/:slug/requests: the quota check, createRequest(),     *)
(* createHookAttempt() and an automatic approval are one stretch.          *)
Submit(r, user, passes) ==
  LET auto == AutoApproves(passes) IN
  /\ published /\ row[r].status = "absent"
  /\ HasQuota(user)
  /\ row' = [row EXCEPT ![r] =
       [status |-> IF auto THEN "approved" ELSE "pending", by |-> user,
        pattern |-> IF auto THEN pattern ELSE None,
        number |-> IF auto THEN next ELSE 0,
        left |-> IF mode = "multi-step" THEN Steps ELSE 0, approvers |-> {}]]
  /\ next' = IF auto THEN next + 1 ELSE next
  /\ settler' = [settler EXCEPT ![r] = IF auto THEN "policy" ELSE "none"]
  /\ hook' = IF mode = "webhook"
               THEN [hook EXCEPT ![r] = [status |-> "pending", tries |-> 0]] ELSE hook
  /\ UNCHANGED <<entry, worker, machine, restarts>>

(* Mutant: whatever the request has become is approved.                    *)
ApproveAnyStatus(r, who, approvers) ==
  /\ row[r].status # "absent"
  /\ row' = [row EXCEPT ![r].status = "approved", ![r].pattern = pattern,
                        ![r].number = next, ![r].left = 0, ![r].approvers = approvers]
  /\ next' = next + 1
  /\ settler' = [settler EXCEPT ![r] = who]

(* approveRequestWithNextName().                                           *)
Approve(r, who, approvers) ==
  /\ row[r].status = "pending"
  /\ row' = [row EXCEPT ![r].status = "approved", ![r].pattern = pattern,
                        ![r].number = next, ![r].left = 0, ![r].approvers = approvers]
  /\ next' = next + 1
  /\ settler' = [settler EXCEPT ![r] = who]

(* decideRequest().                                                        *)
Decide(r, who, status) ==
  /\ row[r].status = "pending"
  /\ row' = [row EXCEPT ![r].status = status]
  /\ settler' = [settler EXCEPT ![r] = who]
  /\ UNCHANGED next

(* Mutant: an administrator may approve every step of the chain.           *)
ReviewRepeated(r, admin) ==
  LET approvers == row[r].approvers \union {admin} IN
  /\ row[r].status = "pending"
  /\ \/ row[r].left <= 1 /\ Approve(r, "review", approvers)
     \/ /\ row[r].left > 1
        /\ row' = [row EXCEPT ![r].left = @ - 1, ![r].approvers = approvers]
        /\ UNCHANGED <<next, settler>>
  /\ UNCHANGED <<entry, hook, worker, machine, restarts>>

(* PUT /admin/requests/:id, approved: reviewRequest() completes one step   *)
(* of the chain, and approves the request with the last one.               *)
Review(r, admin) ==
  LET approvers == IF row[r].left = 0 THEN {} ELSE row[r].approvers \union {admin} IN
  /\ row[r].status = "pending"
  /\ row[r].left > 0 => admin \notin row[r].approvers
  /\ \/ row[r].left <= 1 /\ Approve(r, "review", approvers)
     \/ /\ row[r].left > 1
        /\ row' = [row EXCEPT ![r].left = @ - 1, ![r].approvers = approvers]
        /\ UNCHANGED <<next, settler>>
  /\ UNCHANGED <<entry, hook, worker, machine, restarts>>

(* The same route, rejected or cancelled, and the subscriber's own         *)
(* POST /requests/:id/cancel, which checks and writes in one stretch.      *)
Refuse(r, status) ==
  /\ Decide(r, "review", status)
  /\ UNCHANGED <<entry, hook, worker, machine, restarts>>

(* Requests that wait when what they deploy changes.                       *)
Drift ==
  /\ sound' = FALSE
  /\ drifted' = drifted \union {r \in Request : row[r].status \in {"pending", "approved"}}
  /\ UNCHANGED <<next, row, hook, worker, machine, settler, restarts>>

(* What every edit does to the entry's own row: it takes the new policy    *)
(* and pattern and is withdrawn; requests under way keep their steps.      *)
Rewrite(m, p) == mode' = m /\ pattern' = p /\ published' = FALSE /\ Drift

(* Mutant: an edit makes no new version.                                   *)
EditInPlace(m, p) == Rewrite(m, p) /\ UNCHANGED <<tested, torn, loose>>

(* PUT /:id: update() writes the row and makes a version of it, which      *)
(* nobody has tested.                                                      *)
EditEntry(m, p) == Rewrite(m, p) /\ tested' = "untested" /\ torn' = FALSE /\ loose' = FALSE

(* The same, cut off after the first write, which is no transaction with   *)
(* the next two: the entry keeps the version it had.                       *)
TearEntry(m, p) == MayTear /\ Rewrite(m, p) /\ torn' = TRUE /\ UNCHANGED <<tested, loose>>

(* PUT /api/template-library/items/:id: the library item gets new content, *)
(* of which the entries that name it know nothing.                         *)
EditSource == loose' = TRUE /\ Drift /\ UNCHANGED <<mode, pattern, published, tested, torn>>

(* PUT /admin/entries/:id/versions/:versionId/validation, of the current   *)
(* version, published or not.                                              *)
Validate(verdict) ==
  /\ tested' = verdict
  /\ sound' = (sound \/ (verdict = "validated" /\ ~torn))
  /\ loose' = (loose /\ verdict # "validated")
  /\ UNCHANGED <<mode, pattern, published, torn, drifted, next, row, hook, worker, machine,
                 settler, restarts>>

(* POST /admin/entries/:id/publish.                                        *)
Publish ==
  /\ tested = "validated" /\ published' = TRUE
  /\ UNCHANGED <<mode, pattern, tested, torn, loose, sound, drifted, next, row, hook, worker,
                 machine, settler, restarts>>

-----------------------------------------------------------------------------
(* The hook worker: processDueAttempts() reads the due attempts with the   *)
(* status of their request and the policy of the entry...                  *)
Poll ==
  /\ batch = {} /\ at = {}
  /\ \E r \in Request : hook[r].status = "pending"
  /\ batch' = {[id |-> r, pending |-> row[r].status = "pending", webhook |-> mode = "webhook"] :
                 r \in {q \in Request : hook[q].status = "pending"}}
  /\ UNCHANGED <<entry, next, row, hook, at, machine, settler, restarts>>

(* ...then processAttempt() claims them one by one and delivers the hook   *)
(* unless those said the request was decided or the entry has no hook.     *)
Claim(b) ==
  LET status == IF ~b.pending THEN "cancelled" ELSE IF ~b.webhook THEN "failed" ELSE "processing" IN
  /\ b \in batch /\ at = {}
  /\ batch' = batch \ {b}
  /\ at' = IF status = "processing" THEN {b.id} ELSE {}
  /\ hook' = [hook EXCEPT ![b.id].status = status, ![b.id].tries = @ + 1]
  /\ UNCHANGED <<entry, next, row, machine, settler, restarts>>

Finish(r, status) ==
  /\ r \in at /\ at' = {}
  /\ hook' = [hook EXCEPT ![r].status = status]
  /\ UNCHANGED <<entry, batch, machine, restarts>>

(* Mutant: the attempt is complete although the request was decided.       *)
AnswerUnchecked(r, decision) ==
  /\ Finish(r, "complete")
  /\ IF row[r].status = "pending"
       THEN IF decision = "approved" THEN Approve(r, "hook", row[r].approvers) ELSE Decide(r, "hook", "rejected")
       ELSE UNCHANGED <<row, next, settler>>

(* The hook answers with a decision, which counts while the request is     *)
(* pending, whatever steps of a chain it may have left.                    *)
Answer(r, decision) ==
  \/ /\ Finish(r, "complete")
     /\ IF decision = "approved" THEN Approve(r, "hook", row[r].approvers) ELSE Decide(r, "hook", "rejected")
  \/ /\ row[r].status # "pending"
     /\ Finish(r, "cancelled")
     /\ UNCHANGED <<row, next, settler>>

(* No decision: an error, a timeout or an answer that is not one.          *)
NoAnswer(r) ==
  /\ Finish(r, IF hook[r].tries >= MaxAttempts THEN "failed" ELSE "pending")
  /\ UNCHANGED <<row, next, settler>>

-----------------------------------------------------------------------------
(* POST /admin/requests/:id/deploy up to its first await.                  *)
Deploy(r) ==
  /\ row[r].status = "approved"
  /\ row' = [row EXCEPT ![r].status = "deploying"]
  /\ work' = [work EXCEPT ![r] = "deploying"]
  /\ begun' = [begun EXCEPT ![r] = @ + 1]
  /\ UNCHANGED <<entry, next, hook, worker, vm, lost, settler, restarts>>

(* The pool creates the machine.                                           *)
XenBuilds(r) ==
  /\ work[r] = "deploying" /\ vm[r] = "none"
  /\ vm' = [vm EXCEPT ![r] = "live"]
  /\ UNCHANGED <<entry, next, row, hook, worker, work, begun, lost, settler, restarts>>

(* The deployment returns, or fails, with or without a machine:            *)
(* finishDeployment().                                                     *)
DeployEnd(r, status) ==
  /\ work[r] = "deploying" /\ (status = "complete" => vm[r] = "live")
  /\ work' = [work EXCEPT ![r] = "none"]
  /\ row' = [row EXCEPT ![r].status = status]
  /\ UNCHANGED <<entry, next, hook, worker, vm, begun, lost, settler, restarts>>

(* expireDueLeases() of the lease worker, for whichever leases are due.    *)
ExpireLeases(due) ==
  /\ due # {} /\ \A r \in due : row[r].status = "complete"
  /\ row' = [r \in Request |-> IF r \in due THEN [row[r] EXCEPT !.status = "expired"] ELSE row[r]]
  /\ UNCHANGED <<entry, next, hook, worker, machine, settler, restarts>>

(* POST /requests/:id/actions, decommission: the row is checked, the       *)
(* machine destroyed, and the row reclaimed when the pool has answered.    *)
(* A second call meanwhile fails at the pool and changes nothing.          *)
Decommission(r) ==
  /\ row[r].status \in {"complete", "expired"} /\ work[r] = "none"
  /\ work' = [work EXCEPT ![r] = "destroying"]
  /\ UNCHANGED <<entry, next, row, hook, worker, vm, begun, lost, settler, restarts>>

XenDestroys(r) ==
  /\ work[r] = "destroying" /\ vm[r] = "live"
  /\ vm' = [vm EXCEPT ![r] = "destroyed"]
  /\ work' = [work EXCEPT ![r] = "destroyed"]
  /\ UNCHANGED <<entry, next, row, hook, worker, begun, lost, settler, restarts>>

(* Mutant: the row is reclaimed when the call fails too.                   *)
ReclaimAlways(r) ==
  /\ work[r] \in {"destroying", "destroyed"}
  /\ work' = [work EXCEPT ![r] = "none"]
  /\ row' = [row EXCEPT ![r].status = "reclaimed"]
  /\ UNCHANGED <<entry, next, hook, worker, vm, begun, lost, settler, restarts>>

Reclaim(r) ==
  /\ work[r] = "destroyed"
  /\ work' = [work EXCEPT ![r] = "none"]
  /\ row' = [row EXCEPT ![r].status = "reclaimed"]
  /\ UNCHANGED <<entry, next, hook, worker, vm, begun, lost, settler, restarts>>

DestroyFails(r) ==
  /\ work[r] = "destroying"
  /\ work' = [work EXCEPT ![r] = "none"]
  /\ UNCHANGED <<entry, next, row, hook, worker, vm, begun, lost, settler, restarts>>

(* Mutant: interrupted deliveries are not recovered.                       *)
RestartUnrecovered ==
  /\ restarts < RestartBound /\ restarts' = restarts + 1
  /\ batch' = {} /\ at' = {}
  /\ work' = [r \in Request |-> "none"]
  /\ lost' = lost \union {r \in Request : work[r] # "none"}
  /\ UNCHANGED <<entry, next, row, hook, vm, begun, settler>>

(* A crash ends every handler; start() recovers interrupted deliveries.    *)
Restart ==
  /\ restarts < RestartBound /\ restarts' = restarts + 1
  /\ batch' = {} /\ at' = {}
  /\ hook' = [r \in Request |-> IF hook[r].status = "processing"
                THEN [hook[r] EXCEPT !.status = "pending"] ELSE hook[r]]
  /\ work' = [r \in Request |-> "none"]
  /\ lost' = lost \union {r \in Request : work[r] # "none"}
  /\ UNCHANGED <<entry, next, row, vm, begun, settler>>

Worker == Poll \/ (\E b \in batch : Claim(b))
          \/ \E r \in Request : NoAnswer(r)
                                \/ \E decision \in {"approved", "rejected"} : Answer(r, decision)

Next ==
  \/ \E r \in Request :
       \/ \E user \in User, passes \in BOOLEAN : Submit(r, user, passes)
       \/ \E admin \in Admin : Review(r, admin)
       \/ \E status \in {"rejected", "cancelled"} : Refuse(r, status)
       \/ Deploy(r) \/ XenBuilds(r) \/ (\E status \in {"complete", "failed"} : DeployEnd(r, status))
       \/ Decommission(r) \/ XenDestroys(r) \/ Reclaim(r) \/ DestroyFails(r)
  \/ \E due \in SUBSET Request : ExpireLeases(due)
  \/ \E m \in Policy, p \in Pattern : EditEntry(m, p) \/ TearEntry(m, p)
  \/ EditSource
  \/ \E verdict \in Verdict : Validate(verdict)
  \/ Publish
  \/ Worker
  \/ Restart

Spec == Init /\ [][Next]_vars

(* The interval timer polls once a retry delay has passed, the worker      *)
(* works through its batch, and a delivery ends: it is aborted after its   *)
(* timeout.                                                                *)
FairSpec ==
  /\ Spec
  /\ WF_vars(Poll) /\ WF_vars(\E b \in batch : Claim(b))
  /\ \A r \in Request :
       WF_vars(NoAnswer(r) \/ \E decision \in {"approved", "rejected"} : Answer(r, decision))

-----------------------------------------------------------------------------
(* Types of the variables.                                                 *)
TypeOK ==
  /\ mode \in Policy /\ pattern \in Pattern /\ published \in BOOLEAN /\ next \in Nat
  /\ tested \in {"untested", "validated", "failed"} /\ torn \in BOOLEAN
  /\ loose \in BOOLEAN /\ sound \in BOOLEAN /\ drifted \subseteq Request
  /\ row \in [Request -> Row] /\ hook \in [Request -> Hook]
  /\ batch \subseteq [id : Request, pending : BOOLEAN, webhook : BOOLEAN]
  /\ at \subseteq Request
  /\ work \in [Request -> {"none", "deploying", "destroying", "destroyed"}]
  /\ vm \in [Request -> {"none", "live", "destroyed"}]
  /\ settler \in [Request -> {"none", "policy", "review", "hook"}]
  /\ begun \in [Request -> Nat] /\ lost \subseteq Request /\ restarts \in Nat

(* A subscriber never has more than MaxActive requests under way, however  *)
(* submissions and deployments interleave.                                 *)
QuotaHeld == \A user \in User : ActiveOf(user) <= MaxActive

(* No number of the sequence is given twice, whichever of policy, review   *)
(* and hook approved: names rendered by one pattern are all different.     *)
(* After an edit of the pattern two names may still be alike.              *)
NumbersDistinct ==
  \A r, q \in Request : r # q /\ row[r].number # 0 => row[r].number # row[q].number

(* A request is decided once: a decision the worker or an administrator    *)
(* reached from an older state of the row never replaces another, nor the  *)
(* name it gave.                                                           *)
DecidedOnce ==
  [][\A r \in Request :
       settler[r] # "none" => /\ settler'[r] = settler[r]
                              /\ row'[r].number = row[r].number
                              /\ row'[r].pattern = row[r].pattern]_vars

(* A request that had a chain of approval steps and was approved has as    *)
(* many distinct approvers as steps.                                       *)
ChainSeparated ==
  \A r \in Request : row[r].approvers # {} /\ row[r].status \in {"approved", "deploying"} \union Deployed
                     => Cardinality(row[r].approvers) = Steps

(* An attempt is complete just when its answer decided the request.        *)
HookAgrees == \A r \in Request : hook[r].status = "complete" <=> settler[r] = "hook"

(* Deliveries are bounded; an interrupted one is the only extra.           *)
AttemptsBounded == \A r \in Request : hook[r].tries <= MaxAttempts + restarts

(* One deployment per request, whatever becomes of it.                     *)
DeployedOnce == \A r \in Request : begun[r] <= 1

(* What is deployed, entry and library item, was validated as it stands,   *)
(* unless one of them was changed while the request waited, which no       *)
(* deployment looks at; or the item was changed since the validation,      *)
(* which makes no version; or the entry was published with a change that   *)
(* no version has.                                                         *)
DeployedChecked ==
  [][\A r \in Request :
       begun'[r] # begun[r] => sound \/ torn \/ loose \/ r \in drifted]_vars

(* A request is shown deploying only while its deployment runs, or after a *)
(* crash ended it; nothing but a crash leaves it there.                    *)
DeployingRuns == \A r \in Request : row[r].status = "deploying" => work[r] = "deploying" \/ r \in lost

(* A reclaimed request has no machine, and one shown active has it, unless *)
(* its destruction is being recorded or a crash prevented that.            *)
RowMatchesMachine ==
  \A r \in Request :
    /\ row[r].status = "reclaimed" => vm[r] = "destroyed"
    /\ row[r].status \in {"complete", "expired"} =>
         vm[r] = "live" \/ work[r] = "destroyed" \/ r \in lost

(* Every attempt ends, decided or not.                                     *)
HooksSettle ==
  \A r \in Request : hook[r].status = "pending" ~> hook[r].status \in {"complete", "failed", "cancelled"}

(* Where a request stands in the life cycle it is promised.                *)
PhaseOf(r) ==
  CASE row[r].status = "pending"                   -> "waiting"
    [] row[r].status \in {"rejected", "cancelled"} -> "refused"
    [] row[r].status = "deploying"                 -> "building"
    [] row[r].status \in {"complete", "expired"}   -> "active"
    [] OTHER                                       -> row[r].status

(* The catalog implements that life cycle.                                 *)
Lifecycle ==
  INSTANCE RequestLifecycle WITH
    phase <- [r \in Request |-> PhaseOf(r)],
    decider <- settler,
    number <- [r \in Request |-> row[r].number],
    given <- next - 1,
    machine <- vm

(* Refinement: whatever reviewers, the hook worker, leases, edits and      *)
(* crashes do, every request goes only through the decisions, deployments  *)
(* and destructions of RequestLifecycle, and in its order.                 *)
ImplementsRequest == Lifecycle!Spec
=============================================================================
