# XenManage in TLA+

XenManage is a control plane for XenServer pools: one Node process with an
Express API, SQLite databases (`xenmange.db`, `security.db`, `vault.db`,
`perf.db`), several background workers and a browser client. It keeps little
state in memory. What can go wrong in it is the order of things: requests that
interleave at their `await`s, workers that act on rows read earlier, restarts
between two writes, records read, changed and written back whole.

The modules here model that part. Each is translated from the source under
`src/`; the lines every definition stands for are listed in `PROJECT.json`
("map"), with the runs, mutants, findings, hazards and theorems.

- [The system](#the-system): inventory, interactions, what is hard
- [How the code becomes actions](#how-the-code-becomes-actions)
- [The modules](#the-modules): one section each: state, actions, runs, proofs
- [What is proved and what is only checked](#what-is-proved-and-what-is-only-checked)
- [Where code and documentation disagree](#where-code-and-documentation-disagree)
- [What is not modelled](#what-is-not-modelled)
- [Plan](#plan)

## The system

### Components with state and a life cycle

| component | code | state it keeps | operations | what makes it correct |
|---|---|---|---|---|
| Workflow engine | `services/workflow-engine.js`, `routes/workflows.js` | `workflows` rows (status, attempts, lock, deadline); registered handlers, running promises and one timer in memory | create, execute, poll, approve, cancel, retry, overall timeout, compensation, recovery at start | one execution per row, one holder per lock, outcomes final, attempts bounded, nothing stranded, the queue drains |
| Remediation tickets | `services/remediation-tasks.js`, `routes/tasks.js` | a ticket inside the result of a workflow row | create with a recurrence check, update, list; the queue executes the rows as well | work an operator saved is what is shown; one blocking ticket per once-template |
| Retention | `services/retention.js` | nothing of its own; deletes rows of other stores | sweep | never deletes work that is open |
| Approval queue | `services/governance.js`, `middleware/governance.js`, `routes/governance.js` | one settings value with at most 250 records; the policy | request, decide (in one or two stages), consume, expire, change policy | every use has its own approval, by persons the policy allowed |
| Catalog requests | `routes/catalog.js`, `catalogModel`, `services/catalog-approval-hooks.js`, `services/catalog-leases.js` | `catalog_requests`, their approval steps, hook attempts, an entry's policy and name sequence | submit, review, hook delivery, deploy, expire, decommission | quota, numbers, one decision, separated approvers, bounded deliveries, row and machine agree |
| Session targets | `routes/auth.js`, `middleware/session*.js`, registry of `services/xenapi.js` | session row in `security.db`: targets with their XAPI references and the active one; live `XenAPI` objects in memory | connect, activate, detach, log out, rehydrate, expire | a reference is used only for the host that issued it; row, registry and log-outs agree; a request is routed where it says |
| Managed targets | `services/managed-targets.js` | `managed_targets` rows; live connections; a timer | register, enable, disable, check, refresh | the health shown is that of the connection held; a disabled target has none; sessions do not leak; it recovers |
| Compose and template deployment | `services/deployment-engine.js`, `routes/vms.js`, `template-governance.js`, `xenapi.js` | `deployment_runs`, template audits, virtual machines in the pool | plan, deploy step by step, clean up, record | a machine is one somebody works on, reported, or left by a known failure; rows tell the truth |
| Quotas | `pool-quota.js`, `projects.js`, `vfabric-quota.js` | policy values; usage is read from the pools | evaluate, enforce before a deployment | usage stays within the quota |
| Host operations | `xenapi.js` (`enterHostMaintenance`, `exitHostMaintenance`, `setHostMultipathing`, `repairSR`) | nothing of their own; the host and its storage paths in XAPI | enter, exit, change multipathing, repair a path | neither host nor path is left out of service; a host in maintenance stays there |
| Catalog entries and versions | `catalogModel` | entries, versions, roles | create, edit, validate, publish, delete | what is deployed was validated |
| Break-glass elevation | `services/governance.js`, `routes/governance.js`, `middleware/governance.js` | role, prior role and expiry in the session row | activate, end, lapse, revert | the elevated role ends |
| Terraform state | `routes/terraform.js` | state and lock per name | read, save, lock, unlock | a writer holds the lock |
| Metrics collection | `metrics-collector.js`, `metrics-history.js`, `models/perf-db.js` | samples, roll-ups and a cursor in `perf.db`; a timer and an in-flight flag | collect, roll up, sweep, read | both tables tell the same; the cursor skips no row; the timer is set once |
| Control-plane backup | `control-plane-backup.js` | snapshot directories | snapshot, verify, delete, restore drill | a listed snapshot is whole and encrypted |

The rest of the program decides from one request or reads: sign-in (local,
LDAP, OIDC, SAML, TOTP, WebAuthn), permissions and roles, the credential vault,
profiles, workspaces, settings, alerts, the audit log, placement, the template
library, notifications, the routes that pass a call to XAPI, the browser
client. `PROJECT.json` lists all of them with the reason for their status.

### How they interact

- **Rows of `workflows`** are shared by the engine, the tickets, lifecycle
  plans and runbooks (which use rows as records), and retention.
  `processDue()` selects by status alone, so it executes tickets too.
- **`ensureMutationAllowed()`** of `middleware/governance.js` stands before
  every governed route and consumes an approval; it is synchronous, and the
  mutation follows in the same handler.
- **`resolveTargetForRequest()`** gives each request its `XenAPI` object, from
  the session's row, the registry, or the managed targets.
- **Deployments** (catalog, compose, template, direct) check quotas over XAPI,
  then create machines over XAPI, then write rows.
- **XAPI** answers every call, refuses it, or does not answer within
  `config.xen.requestTimeout`; what it does with a call given up is its own
  business, and may still happen later.
- **Workers** (workflow poll 1 s, hooks 15 s, leases 60 s, managed targets 60 s,
  metrics, retention, backup) are started by `startServer()` and stopped by
  `stopRuntimeServices()`; an unhandled rejection anywhere shuts the process
  down (`server/index.js`).

### What is hard in it

*State read before an await and used after it* (execute, the hook worker,
`xen-login`, managed `connect` and its probe, every quota), *a late answer
racing a timeout or a decision* (handlers, hooks, XAPI calls), *one call of
several failing* (deployments, maintenance, multipathing), *restarts* (rows left
in running, processing or deploying; the registry is lost while rows keep
references), *a sequence of calls that policy changes cut in two* (two-person
approval, approval chains), *records written back whole* (sessions, the approval
queue), *limits* (250 approvals, 500 listed tickets, 20 rows of a poll). The
hazards of `PROJECT.json` give the line of each and the properties that cover
it.

## How the code becomes actions

JavaScript runs to completion between awaits and `better-sqlite3` is
synchronous. One action is therefore one synchronous stretch: a route handler
up to its first `await`, the continuation after one, or a timer callback. A
handler that never awaits is one action however many rows it writes. What a
handler keeps across an `await` is state of the model (`seen` in
SessionTargets, `batch` in CatalogRequests, `live` and `racing` in
WorkflowEngine).

A crash may come after any stretch; `Restart` clears what is in memory and does
what the `start()` functions do, with the database as it stands. Clocks are not
modelled as numbers: a deadline, an expiry or an age passes by an action of its
own, at any time after it was set. Variables marked *history* in the modules
exist only for the properties; no guard of an action of the code reads them.

Operators named as mutants (`...Unchecked`, `...AnyStatus` and so on) stand
before the definition they are a faulty version of. The specification never
uses them. Each property has one with which TLC finds it violated, which shows
that the run can tell the code from that mistake.

## The modules

| module | models | instance | theorems in |
|---|---|---|---|
| `WorkflowEngine` | the queue, its executions, timer, restarts | `MCWorkflowEngine` | `WorkflowEngineProofs` |
| `JobLifecycle` | abstract: what the queue promises one job | | |
| `RemediationTickets` | tickets on the queue's rows, retention | | `RetentionProofs` |
| `GovernanceApprovals` | approval queue and policy | | `GovernanceApprovalsProofs` |
| `CatalogRequests` | requests of an entry, hooks, deployments, leases | `MCCatalogRequests` | `CatalogRequestsProofs` |
| `RequestLifecycle` | abstract: what the catalog promises for one request | | |
| `SessionTargets` | one session's row, registry, requests, role | `MCSessionTargets` | `SessionTargetsProofs` |
| `Deployments` | deployments that make machines, quotas, rows | `MCDeployments` | `DeploymentsProofs` |
| `ManagedTargets` | one managed target, its checks and the timer | | `ManagedTargetsProofs` |
| `HostOperations` | maintenance, multipathing and repair of one host | `MCHostOperations` | `HostOperationsProofs` |
| `MetricsHistory` | the collector, captures, tables and cursor | | `RetentionProofs` |

### WorkflowEngine

*State.* `row` is the `workflows` table, a status `absent` standing for unused
ids. An *activation* `<<w, a>>` is the a-th `execute()` of row `w` that claimed
it. `live` are those whose handler promise is unsettled, `racing` those whose
`execute()` awaits the handler, `armed` those raced against an overall timeout,
`compensating` those that await the compensation. A promise may stay in `live`
after its race is over: a timeout does not stop a handler. `batch` are the rows
one stretch has still to `execute()`; nothing else happens until it is empty.
`fromTimer` and `awaited` model that the next poll is scheduled only when every
execution of the last one ended.

*Actions.* `Create`, `Approve` and `Cancel` are the routes, `Poll` the timer.
`Skip`, `FailUnrun` and `Claim` are the exits of `execute()` before its first
await. `Complete`, `Reject`, `PauseAndReturn`, `PauseAndLinger`, `Timeout`,
`LateSettle` and `Compensate` are its continuations. `BecomeDue` and
`PassDeadline` are the clock; `Restart` registers any set of types.

*Runs.* `workflow_drain`: two jobs, made from three requests on one lock: one
that may pause for approval, one timed and compensated with two attempts, one
scheduled with an idempotency key; one approval, two restarts.
`workflow_linger`: three jobs, two of them on one lock and one on none, polled
one at a time; the type that asks for approval breaks the engine's expectations
(its handler keeps working after it asked, and it has an overall timeout); one
restart.

*What they show.* `SingleFlight`: no poll, repeated POST, approval, retry or
restart starts an attempt while one is awaited. `LockExclusive`: two rows hold
one lock only if one of them was cancelled while its handler ran, which paused
afterwards. `NoOrphanRun`: a running row is always executed by this process.
`QueueDrains`: a queued job reaches an outcome or its approval, or waits for the
lock of a job that waits for its own (`Blocked`), or comes after as many older
jobs blocked like that as a batch takes (`Crowded`); the run has a job on no
lock that starves behind a blocked one. Proved beside them: `OutcomeFinal`, an
outcome changes only for a row cancelled while its handler ran, since
`execute()` looks for `waiting-approval` and not for `cancelled` when a handler
settles; `AttemptBudget`, attempts exceed `max_attempts` only by approvals and
recoveries. `SingleFlight`, `LockExclusive` and `OutcomeFinal` assume
`WellBehaved`, which the code expects of the types and nowhere enforces.

*Refinement.* `JobLifecycle` is what a caller may rely on: a job is queued,
claimed by one execution, put back, paused or done, and a crash loses claims
only. `ImplementsLifecycle` maps a row with an execution in flight to *claimed*
whatever its status says; checked in `workflow_drain`.

*Bounds.* Two jobs are the fewest that contend for a lock; the third of
`workflow_linger` needs none and is crowded out by the other two, since
`BatchLimit` 1 stands there for the query's limit of 20. In `workflow_drain` it
is 2, so that one batch may hold both jobs. Two attempts are the fewest with a
retry. `AttemptCap` bounds no guard: it only names enough activations for the
attempts, approvals and restarts under the other bounds.

*Fairness.* `Poll`, `Execute`, the clock and `Timeout` are driven by Node's
event loop and are weakly fair, except that approvals, cancellations and crashes
are never owed. `HandlerFairness` assumes that a handler and a compensation
settle. Without an overall timeout nothing else ends an attempt, and a
compensation is never under one.

### RemediationTickets

*State.* Per ticket the engine status of its row and the result stored in it,
which is the ticket. `saved` is the ticket as an operator last saved it.

*Actions.* `Create` with the recurrence check, `Update`, `Execute` (the poll
runs the row with the registered handler, which does nothing and returns an
empty result), `CancelWorkflow` (the workflow API applied to a ticket),
`Restart` (requeues rows in running, which is how a ticket in progress is
stored), `Age` and `Sweep` of retention. Dated recurrences differ from `once`
in the window they look at and are left out.

*Run* `tickets` (two tickets of one scope, two edits each, one restart; two
tickets because `OncePerScope` relates two, two edits because closing and
reopening takes two). `WorkShown`: closed work, and work in progress that no
restart requeued, is shown as saved. `OncePerScope`: a once-template leaves one
blocking ticket while no more tickets were made than `list()` returns; the check
of `Create` sees no others. `OpenWorkKept`: retention deletes a ticket shown in
progress only if the workflow API cancelled it.

### GovernanceApprovals

*State.* `record` maps request numbers to records; a request is kept while
fewer than `MaxApprovals` newer ones exist. `lapsed` are the requests past
their expiry, `policy` the switches that are on. `grants`, `under`, `settled`
and `uses` are history.

*Actions.* `Request`, `List`, `Reject`, `ApproveFirst`, `ApproveFinal`, `Use`,
`Lapse`, `UpdatePolicy`. Every one normalises the whole queue, as the code does.

*Run* `approvals`: two requests for one scope in a queue that keeps one, so
that the first is evicted; at most two settled decisions per request, enough
for a use between two approvals; two persons of whom one is `system`, the name
recorded for a session without one; policies that turn each switch on and off.
`UsePerGrant`: as many uses as approving decisions at most. `TwoApprovers`: a
request settled once under the two-person policy has two approvers.
`NoLapsedUse`: nothing goes through on a lapsed approval. Proved beside them:
`RightApprover`, separation and group held when they decided.

### CatalogRequests

*State.* The entry's approval mode, its naming pattern and sequence, whether it
is published, the validation of its current version, and whether its own row has
moved on without a version (`torn`); per request the row with its approval
steps, its hook attempt, the handler in flight (`work`) and its machine (`vm`).
`batch` are the rows the hook worker read, with the request's status and the
policy as they were then. `sound`, `loose`, `drifted`, `settler`, `begun` and
`lost` are history. A generated name is kept as the pattern and the number it is
rendered from.

*Actions.* `Submit`, `Review`, `Refuse`; `EditEntry`, `TearEntry` (an edit cut
off between its writes), `EditSource` (an edit of the library item the entry
names, which leaves entry and version as they are), `Validate`, `Publish`;
`Poll`, `Claim`, `Answer`, `NoAnswer` of the hook worker; `Deploy`, `XenBuilds`,
`DeployEnd`; `ExpireLeases`; `Decommission`, `XenDestroys`, `Reclaim`,
`DestroyFails`; `Restart`. `XenBuilds` and `XenDestroys` are the pool's. How a
deployment is built is in `Deployments`.

*Refinement.* `RequestLifecycle` is what a subscriber may rely on: a request is
decided once, by policy, a review or the hook; an approval names it with the
next number, which is therefore nobody else's; it is deployed once; what is
shown active had a machine built for it; and it is reclaimed only when that
machine was destroyed. `ImplementsRequest` maps the ten statuses of a row to its
phases; deliveries, chains, leases, edits and crashes are no steps of it.

*Runs.* `catalog`: two requests, so that they share the name sequence, of
policies that give each kind of decider (`threshold` approves or waits for a
review, `webhook` asks the hook), edits that go through, one restart:
`ImplementsRequest`. Its view leaves out the patterns and the histories `sound`,
`loose`, `drifted`, `begun` and `lost`, which no guard and not the life cycle
look at. Both runs have one pattern; the theorems hold for any. Chains,
retries of a hook, torn edits and failed validations are in the other run.
`catalog_hooks`: one request, all five policies, a chain of two steps and two
administrators, two attempts, two restarts, every validation, torn edits:
`ChainSeparated`, `HookAgrees`, `RowMatchesMachine`, `DeployedChecked`, and
`HooksSettle` under weak fairness of the worker. One request is enough for a
chain that policy changes cut across, since requests share only names and
quota. The worker's timer is restarted after each poll and a delivery is aborted
after its timeout, so `NoAnswer` is owed if `Answer` never comes. Requests are
symmetric; symmetry is used only in the run without liveness.

*What they show.* A chain has one distinct approver per step and a decision
stands, however policy changes, hooks and reviewers interleave.
`DeployedChecked`: what is deployed, the entry and the library item it names,
was validated since it last changed, with three exceptions. A request that waits
while one of them is edited is deployed from what it is by then, published or
not (`routes/catalog.js:176`). An edit of the item makes no version of the entry
and withdraws nothing (`routes/template-library.js:322`), so that requests made
after it deploy what nobody validated, until the version is validated again
(`loose`). And an edit of the entry cut off after its first write leaves a
version marked validated that the entry no longer matches
(`connection.js:2043`). Proved beside them: `QuotaHeld`; `NumbersDistinct`,
`DecidedOnce` and `DeployedOnce`, which say for the rows what the life cycle
promises; `AttemptsBounded`, one more delivery per crash at most;
`DeployingRuns`. Names are distinct as far as `NumbersDistinct` goes: under one
pattern, not across an edit of it.

### SessionTargets

*State.* `stored` is the row: a XAPI reference per target, the active key, the
role, and the number of the elevation in force. `live` is the registry: the
reference each object carries, and `dials` the server it calls. `seen` is the
row as each request in flight loaded it, and `reverting` are those whose session
middleware found a lapsed elevation, which they will save as ended. `ended` are
the references logged out; `owner` is the key a reference was opened for and
`server` the one that issued it, two things because a login goes to the host its
request names and a saved connection's host can be edited (`routes/auth.js:664`,
`connection.js:813`). `prior` is the role each elevation goes back to, `lapsed`
how many of them are past their thirty minutes. `overlapped` (history) records
that a request wrote over a row changed since it was read, `renewed` that an
elevation began during another, `stood` which elevations were ended early.

*Actions.* `Connect`, `ConnectOk`, `ConnectFail` (`POST /xen-login`, which holds
the row across its await), `SlowBegin` and `SlowEnd` (any other request that
changed the session and ends late), `Request` (any request: rehydrates the
registry from the row), `Activate`, `ActivateManaged`, `Detach`, `Logout`,
`Drop` (the row expires or its user is revoked), `Restart`; `SwitchRole`,
`Elevate`, `StandDown` of the governance routes and `Lapse` of the clock. Every
request first ends an elevation that has lapsed (`Current`).

*Run* `sessions`: two targets, one managed, two requests in flight. Two requests
are the fewest with a lost update. `Extent` bounds logins and elevations
together: three logins (a reconnect after both targets had one) without an
elevation, one login with one, or two elevations, the fewest of which one is
begun during the other. One role besides admin is enough: roles are only
compared. Two servers are the fewest between which a reference can cross.
Targets, servers, references and requests are symmetric.

`OwnSession`: no reference is stored or held for another key than the one it was
opened for, and an object calls a server its key was connected to. Until a
request writes over a row that had changed, it carries that server's reference;
after that not even this holds (see the disagreements). `ServedAlive`: until a
request writes over another, stored targets can serve. `ActiveAttached`: the
active target is one the session has. `ElevationEnds`: with no elevation in
force the role is one the account covers, unless one was begun during another
(see the disagreements), and one that was ended early stays ended, unless a
request wrote over a row it had read before. Proved beside them: `LiveIsStored`,
the registry holds what the row says.

### Deployments

*State.* `run` are the requests: where each is in its chain of awaited calls,
the plan it has come to, the gates still before it, the engine's own sum
(`loaded`, `seen`), the outcome of each step; a request says whether an admin's
session sent it and whether the host records name their pool. `machine` is what
XAPI has: a machine is *loose* until it has an affinity or runs, because the
quota services count machines by their host. `assigned` are project assignments,
`row` the status in `deployment_runs`, `spent` what each approval was consumed
for. `blind` and `raced` (history) keep the scopes a machine joined after a run
counted them, `cause` what left a machine behind. Limits are on the number of
machines: of memory and storage the module says nothing (see below).

*Actions.* `Begin`; `PlanCompose`; `PassGate` and `RefuseGate`, one inventory
read and the comparison in the same stretch; `CloneOk` and `CloneFails`, also
with the answer lost; `ReadOk` and `ReadFails` of `provisionVM()`'s first,
unguarded read; `Place`; `Built`, `BuildFails`, `Clean`, whose destruction may
fail too; `Finish`, `FinishFails`, `Record`. The order and number of gates
differ by caller (`GatesOf`): compose, catalog, template and plain creation.
Without a pool to look up, the engine's gate and a template's compare nothing
and let the plan through, the catalog's refuses it (`Compares`, `Admits`).
`Review` is an operator's judgement of a template's machine, which rewrites its
row (`pending` or `warning` until then), `Delete` an operator's too, `Crash` the
process's.

*Run* `deployments`: two deployments at once, of eight requests that cover every
kind, pinned and floating machines, both modes, an admin's session, hosts whose
records name no pool, and three machines in the longest spec; limits of two for
the pool and three for the others, so that one spec reaches a limit by itself
and two reach it together; one approval, which two requests and two plans of one
spec may name.

*What it shows.* `QuotaHeld`: a scope outgrows its limit of machines only when
one joined that was not checked against it (its plan names no host, or its
host's record no pool), or after a count that an arrival made stale. What the
gates do bound is a run against itself, and any sequence of deployments that do
not overlap. `Accounted`: a machine is being worked on, was reported, or was
left by one of six causes, which name the lines that do not clean up. `RowTrue`:
what a row says of each step is so. `ApprovalEach`: every big machine of a
project consumed an approval of its own, but those an admin's session asked for.
`DeploymentsEnd`, under weak fairness of `Deploy(r)`: a call is answered or
ended by the request timeout. Proved beside them: `StopsAtFailure`, which for a
template says only that a row is there when the machine is complete: its status
is the operator's.

### ManagedTargets

*State.* `row` of `managed_targets`, with whether its connection and credential
pass `canUseTarget()`; `live` the entry of the map of connections; `task` every
check in progress, with the object it probes, leaves or logs in with, and the
part of the row it had read; `conn` what became of each object's session;
`closing` what `stop()` logs out. `up` is the target.

*Actions.* A check begins by `Boot`, `Tick`, `Register`, `CheckNow`, `Enable` or
`Disable` and goes on by `ProbeOk`, `ProbeFails`, `Left`, `LoginOk`,
`LoginFails`: one per await of `check()`, `connect()` and `disconnect()`.
`Edit` and `Remove` change the connection, `Stop` and `Exit` shut the server
down, `Crash` ends it, `Flip` is the target's.

*Run* `managed`: one request beside the start and the timer, that is three
checks at once; three objects, so that two checks may hold one each beside the
live one, or all three when none is live; the code's threshold of two failures.

*What it shows.* `ServedOpen`: what requests are served with has a session that
is neither ended nor being ended. `DisabledLeft`: a disabled target has no
connection except by a login that returned afterwards. `HealthyIsLive`: Healthy
without a connection only while one is being made, or by a probe answered late.
`NothingLeaked`: sessions are left open only where checks crossed.
`StopsAsked`: the process stops by itself only if a target is removed while it
is checked, since the timer's promise is not caught. `MonitorRecovers`: a target
that stays reachable and enabled is Healthy again and again. *Fairness*: the
timer fires a minute after its last checks ended (`Tick`), and a XAPI call ends
(`Proceed`). Proved beside them: `DegradedFirst`, for the
errors of its logins a hard failure state only after more than the threshold of
failures in a row. What `canUseTarget()` refuses is not Degraded first
(`managed-targets.js:120`): a private connection is Maintenance, a credential
that is missing or not shared is Authentication Failed at once, which the module
keeps apart as `Unusable`.

### HostOperations

*State.* `host` is what XAPI has: enabled, whether machines run on it, the
storage paths attached, the multipathing setting and the setting each path was
plugged under. `op` are the requests, `late` the calls given up after thirty
seconds that XAPI may still carry out. `closed`, `stuck`, `dropped`, `mixed` are
history.

*Actions.* `Begin` is a route after the approval gate. `Answer`, `Refuse` and
`TimeOut` settle the call an operation awaits and take it to the next
(`Enter`, `Exit`, `Multipath`, `Repair`); `ReadPaths` passes over a path whose
record cannot be read. `Arrive` and `GiveUp` settle what was given up. `Place`
is XAPI starting a machine on an enabled host, `Crash` the process.

*Run* `hosts`: two requests, the fewest that cross, of six kinds; two paths, the
fewest of which one is plugged while the other is not.

*What it shows.* `MaintenanceHeld`: a host reported in maintenance takes no
machine until an exit or the rollback of another enter. `HostBack`: a failed
enter leaves the host disabled only if its rollback or its last read failed, its
disable came late, or it crashed. `PathsBack`: a path is left detached only if
it could not be plugged, was unplugged late, or was unplugged before an unplug
that failed or a crash. `PathsMatch`: an attached path works under the host's
setting, unless another change of the paths crossed, the setting was written
late, or the record was not read. No fairness: these are about what is left when
the operations are over.

### MetricsHistory

*State.* The two tables of `perf.db` (`raw`, `rollup`), the RRD cursor, the
captures (`task`), the collector's setting, timers and `inFlight`, and the
clock. `swept` and `offered` are history.

*Actions.* `Ask` (a route that finds no recent sample, or is forced), `Fire` and
`FireBusy` (the timer), `Inventory`, `InventoryFails`, `Updates`, `Store` (the
awaits of `captureSnapshot()`), `Configure` (settings saved), `Stop`, `Crash`,
`CrashStoring` (between the samples and the cursor), `Purge` of either table,
`Tick`. A pass begins its next capture in the stretch that ended the last one,
so it starts from the cursor that one has just set. The module names its initial
states, steps and types `Metrics...`, as `RetentionProofs` extends it and
`RemediationTickets` both.

*Run* `metrics`: one request and one pass over at most two live connections to
the target, three captures stored, a clock of three units past the first, a
window and an hour of two units, one retention period, a capture of at most one
unit. Three captures are the fewest of which two share an hour and one crosses
them. The clock is bounded by guards of `Tick`, the captures by `Room`; no guard
of the code reads either bound.

*What it shows.* `ViewsAgree`: of an hour no sweep has reached, roll-ups tell
what the samples tell, whatever captures cross: count, total and bounds always,
and as the last value that of the latest sample unless captures crossed so that
an earlier one was stored after it (charts order by `ts`, an upsert keeps what
was stored last, `perf-db.js:179`). `CursorBacked`: once set, the cursor passes
over no row that no stored capture was given, although it may go backwards.
`TimerSet`: the timer of a collector that is on and idle is set once.
`PassesEnd`: a pass that began ends, whatever fails in it. *Fairness*: a timer
that is set fires (`Timer`) and calls end (`Proceed`).

## What is proved and what is only checked

TLAPS proves the following for every value of the constants that satisfies the
modules' assumptions (any number of jobs, tickets, requests, persons, targets,
deployments, plans, storage paths, attempts and restarts).

| module | theorems | inductive invariant and why it is needed |
|---|---|---|
| `WorkflowEngineProofs` | `TypeCorrect`, `NoRunIsOrphaned`, `AttemptsAreBudgeted`, `OneExecutionAtATime`, `LocksAreExclusive`, `OutcomesAreFinal`, `EngineImplements` | `BudgetInv` adds that a runnable row still has budget. `FlightInv` adds that an activation in flight is the one the attempt counter names and its row is running or cancelled. `LockInv` adds that a cancelled row is finished. For the refinement, `PhaseOf` names the phase of each job: a step moves one job (`OneMoves`) or loses every claim (`Lost`), which `MovesMap` turns into steps of `JobLifecycle` |
| `RetentionProofs` | `TicketsTyped`, `WorkIsShown`, `WorkIsKept`, `OncePerWindow`; `MetricsTyped`, `TimerIsSet`, `CursorSkipsNothing`, `ViewsAlwaysAgree` | Tickets: `WorkInv` relates what was saved to the engine status under which it is stored. `OnceInv` adds that the queue has no ticket shown closed without success, which an execution would show as pending again. Metrics: `ClockInv` says that no capture is older than its calls may take and that cursor and sweeps are behind the clock. `OfferInv` says that what was given to captures has no gap, because what one under way will be given begins next to a row already given (`Joins`), or, when there is none, within the same window as every other capture. `ViewsInv` says of every hour no sweep has reached that its roll-up tells the sums of its samples and the value of the one stored last, and that the next one will be stored after finitely many |
| `GovernanceApprovalsProofs` | `QueueTyped`, `UsesAreGranted`, `ApproversAreRight`, `ApproversAreTwo`, `LapsedIsUseless` | `QueueInv`: an approved record has a grant not yet used (`Funded`), staged ones have a first approver (`Staged`), requests not made have no history |
| `CatalogRequestsProofs` | `CatalogTyped`, `QuotaIsHeld`, `NumbersAreDistinct`, `ChainsAreSeparated`, `HooksAgree`, `AttemptsAreBounded`, `DeploymentsBeginOnce`, `DeploymentsAreRunning`, `DeploymentsAreSound`, `DeploymentsAreChecked`, `DecisionsStand`, `CatalogImplements` | `CatalogInv`: per request (`RequestInv`) what hook, row, handler and machine say of each other; numbers below the sequence; the worker is at one attempt, which is processing; what can be published was validated unless an edit was cut off or the library item changed (`Vouched`), and so was what a request waits for unless an edit came (`Awaited`). For the refinement, a step moves one request or none (`OneMoves`, `NoneMoves`), and a request not submitted has no number (`Blank`) |
| `SessionTargetsProofs` | `SessionTyped`, `SessionsAreOwn`, `SessionsServe`, `SessionsAgree`, `SessionsAreCoherent`, `ElevationsEnd` | `SessionInv`: the registry holds what the row says until one is written over (`LiveIsStored`), so that rehydration does not change the reference of an object; the rows requests hold are coherent too (`CoherentSeen`), references logged out were issued, and every row, stored or held, has a covered role or an elevation with one to go back to (`RoleInv`) |
| `DeploymentsProofs` | `DeployTyped`, `QuotaIsHeld`, `EveryMachineAccounted`, `RowIsTrue`, `ApprovalForEach`, `StopsAtFirstFailure` | `DeployInv`: what phase, steps, machines, approvals and row say of each other (`Struct`); a run let through on a count nobody made stale has room for its machine (`Room`); the engine's sum is at least the count (`SumOK`) |
| `ManagedTargetsProofs` | `TargetTyped`, `ServedIsOpen`, `DisabledIsLeft`, `HealthyHasConnection`, `DegradedComesFirst`, `NoSessionLeaks`, `StopIsAsked` | `TargetInv`: a login has its object to itself (`LoginOwn`), where every open session is (`SessionsHeld`), a login that would replace a live connection was crossed (`Uncrossed`), rows and checks count no more failures than there were (`Counted`) |
| `HostOperationsProofs` | `HostTyped`, `MaintenanceIsHeld`, `HostComesBack`, `PathsComeBack`, `PathsAgree` | `HostInv`: while operations are under way, a detached path is owed by one (`PathsOwed`), a disabled host is held by one (`HostOwed`), and what an uncrossed change has unplugged stays so until it writes the setting (`Alone`, `Unplugged`) |

Each follows the same argument: `Init` implies the invariant, each action
preserves it (one step per action, one lemma per conjunct where that is long),
the invariant implies the property, and `PTL` combines the three. In
`MetricsHistory`, where most actions touch little, a lemma (`StepEffects`) first
says what any step may do to captures, cursor and tables, and each invariant is
kept by the few cases of that. `OutcomeFinal`, `NoLapsedUse`, `DecidedOnce`,
`DeployedChecked` and `OpenWorkKept` are action properties shown for each step
from a state that satisfies the invariant. The two refinements
(`ImplementsLifecycle`, `ImplementsRequest`) map the initial states, and every
step from such a state to a step of the abstract specification or a stutter.

`ViewsAgree` equates a roll-up's total with a sum over a set of samples,
`MapThenSumSet`, which takes its members out in an order of its own. That the
sum grows by the value of a row that is added, whichever row the sum would take
out first, is induction over finite sets. The induction theorems of the library
take an operator and cannot be applied, so the lemmas use a smallest
counterexample instead (`Smallest`, from the well-foundedness of strict
inclusion): a function that adds up exists for every finite set (`SumsExist`),
any two agree (`SumsAlike`), and it makes no difference which row is taken out
first (`TotalOfRows`).

`OneExecutionAtATime`, `LocksAreExclusive`, `OutcomesAreFinal` and
`EngineImplements` hold under `WellBehaved`.

Every safety property of the passing runs is a theorem. Only model-checked is
liveness, which is beyond the prover: `QueueDrains`, `HooksSettle`,
`DeploymentsEnd`, `MonitorRecovers`, `PassesEnd`.

## Where code and documentation disagree

One run ends in the counterexample it is for: `approvals_reused`. An approval is
called single-use and "cannot be replayed"; `decideApproval()` accepts a used
request, which can then be used again. `UsePerGrant` says what holds.

Read in the code while modelling, each taken into the module as it is and named
by the condition of a property where there is one:

- `execute()` reads the clock twice (`workflow-engine.js:145` and 200). A
  deadline between the two readings leaves `withTimeout()` without a timer, and a
  handler that hangs is awaited for ever.
- The poll reads the 20 oldest due rows whether or not their lock is free
  (`workflow-engine.js:256`): 20 behind the lock of a job that waits for its
  approval keep every younger row from running until that is decided.
- Tickets "are never run through `workflowEngine.execute()`"
  (`remediation-tasks.js:8`); the poll executes every due row
  (`workflow-engine.js:251`), and an edit of an open ticket is lost with its
  result. `WorkShown` says what survives.
- A request without a target is promised the session's active one
  (`README.md:187` of the repository); if that is a managed target while another
  is attached, the first attached one serves it (`routes/auth.js:859`). `Route`
  models it.
- A break-glass elevation reverts to `priorRole` (`README.md:1705`). One begun
  during another takes admin for its prior role (`governance.js:233`), and the
  session keeps admin when it ends: the condition `renewed` of `ElevationEnds`.
- Rehydration gives an object the row's reference and leaves it its host
  (`xenapi.js:2330`). With a key connected to a second server and a row that
  brings the first one's reference back, one server is sent the other's
  reference: the condition `overlapped` of `OwnSession`.
- The queue of approvals keeps 250 records of any status
  (`governance.js:349`): enough requests evict one that is approved and unused.
- `provisionVM()` reads its clone before the try block that cleans up
  (`xenapi.js:1306`; the clean-up is at 1267), and `deployTemplate()` cleans up
  nothing: causes of `Accounted`.
- A plan on a host whose record names no pool passes the engine's gate and a
  template's unchecked (`deployment-engine.js:318`, `pool-quota.js:83`); for the
  same plan the catalog's gate refuses (line 82). `Counted` excepts it.
- The engine adds up memory rounded to 0.1 GiB after each plan
  (`deployment-engine.js:126`), and no storage is ever counted for a project
  (`projects.js:56`): a quota on either can be outgrown by any number of plans.
- The rollback of a second enter enables a host that is in maintenance already
  (`xenapi.js:401`): `MaintenanceHeld` ends there.
- `setHostMultipathing()` writes `other_config` whole from the record it read
  (`xenapi.js:445`), with every key changed meanwhile.
- A capture that finds no cursor asks for ten minutes of RRD rows, so a crash
  before the first cursor is stored skips those that are older at the next one.
  `CursorBacked` speaks of cursors that are set.
- Two captures in one millisecond are added up in one point of a cluster chart
  (`metrics-history.js:464`).
- Captures that cross may store the later sample first; the roll-up's
  `last_value` is then that of the earlier one, while every reader of samples
  orders by `ts` (`perf-db.js:179`, 239 and 285): the condition of `ViewsAgree`.
- Marking a version failed that is published leaves its entry published
  (`connection.js:1783`).
- An edit of a catalog entry is three writes without a transaction
  (`connection.js:2042`), and a deployment reads the entry as it is by then
  (`routes/catalog.js:176`): conditions of `DeployedChecked`. A write that
  fails after the first is reported as a conflict, as if nothing had changed.
- What an entry deploys is the library item it names, read at the deployment
  (`routes/catalog.js:177`); its edit leaves the entry published and its version
  validated (`routes/template-library.js:322`): the third condition.
- Names are rendered from a pattern that an edit replaces (`connection.js:1991`),
  while the sequence goes on: `N1X` with 2 and `NX` with 12 are both `N12`.
- The check for a recurring ticket looks at the 500 newest tickets
  (`remediation-tasks.js:241`): with more, a window may get a second one.

## What is not modelled

`PROJECT.json` gives every part of the program with its status. In short:
sign-in and cryptography (pure protocol and library code), permissions and
validation (decisions without steps), reading and presenting (charts, alerts,
logs, placement, resilience overview), file and network I/O, the browser client
(it may send any request in any order in the modules), migrations, build and
deployment files. Step, event and progress rows of workflows decide nothing and
are left out, and so are texts, names, notes and timestamps everywhere.

Of the parts that are modelled, left out are: tickets that recur by date; the
deletion of catalog entries, their roles, day-2 actions; accounts that change
while signed in; quotas on memory, running machines and storage; the promotion
of templates; routes that pass one call to XAPI, where nothing is left to
order, and the migrations and disk operations among them; retention of stores
other than tickets and telemetry. Each module's header says what it abstracts.

## Plan

Done, in this order: the queue and its abstract life cycle; tickets and
retention on top of it; approvals; catalog requests; session targets with
break-glass elevation; deployments and quotas; managed targets; host operations;
metrics; entries and versions of the catalog; the abstract life cycle of a
catalog request.

Left, in this order:

1. The deletion of a catalog entry, which takes requests, hooks and versions
   with it while a deployment runs: `finishDeployment()` then finds no row, and
   the machine has no request.
2. Terraform locks (who may save while another holds the lock) and backup
   snapshots (what a reader may see of one that is being written).
3. Tickets that recur by date, and a limit of `list()` that is reached.
4. An abstract specification of a deployment (a machine is in one run's custody
   until it is delivered, removed or left behind), and its refinement.
